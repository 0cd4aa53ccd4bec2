-------------------------- MODULE CarHandlerProofs --------------------------
(***************************************************************************)
(* Proofs about CarHandler, for every braking rule, set of readings and    *)
(* placement of the sensors.                                               *)
(***************************************************************************)
EXTENDS CarHandler, TLAPS

(* What the handlers make of a speed in range. *)

LEMMA UnitPositive == Unit \in Nat /\ Unit > 0
  BY CarHandlerAssumption DEF Unit

LEMMA DistMaxRange ==
  ASSUME NEW d \in Int
  PROVE  DistMax(d) \in 0 .. Unit
  BY CarHandlerAssumption DEF DistMax, Unit

(* The speeds after the handlers. *)
LEMMA LimitedRange ==
  ASSUME TypeOK, NEW v \in Range
  PROVE  /\ Limited(v) \in Range
         /\ v = 0 => Limited(v) = 0
         /\ ~enDistHandlerFront =>
              IF v >= 0 THEN Limited(v) \in 0 .. v ELSE Limited(v) \in v .. 0
<1> DEFINE a == AfterBattery(v)
           f == AfterFront(v, a)
           df == DistMax(distance_front)
           dr == DistMax(distance_rear)
<1>1. df \in 0 .. Unit /\ dr \in 0 .. Unit
  BY DistMaxRange, CarHandlerAssumption DEF TypeOK
<1>2. a = v \/ a = 0
  BY DEF AfterBattery
<1>3. f = (IF enDistHandlerFront /\ v > 0
             THEN IF df > a THEN df ELSE a ELSE a)
  BY DEF AfterFront, MIN
<1>4. Limited(v) = (IF enDistHandlerRear /\ v < 0
                      THEN IF -dr > f THEN -dr ELSE f ELSE f)
  BY DEF Limited, AfterRear, MAX
<1> HIDE DEF a, f, df, dr
<1>5. v \in Int /\ v >= -Unit /\ v <= Unit
  BY UnitPositive DEF Range
<1>6. Limited(v) \in Range
  <2>1. a \in -Unit .. Unit
    BY <1>2, <1>5, UnitPositive
  <2>2. f \in -Unit .. Unit
    BY <1>1, <1>3, <2>1, UnitPositive
  <2>3. QED
    BY <1>1, <1>4, <2>2, UnitPositive DEF Range
<1>7. v = 0 => Limited(v) = 0
  BY <1>2, <1>3, <1>4
<1>8. ASSUME ~enDistHandlerFront
      PROVE  IF v >= 0 THEN Limited(v) \in 0 .. v ELSE Limited(v) \in v .. 0
  BY <1>1, <1>2, <1>3, <1>4, <1>5, <1>8, UnitPositive
<1>9. QED
  BY <1>6, <1>7, <1>8

-----------------------------------------------------------------------------
(* Type correctness. *)

LEMMA NextBoardTypes ==
  ASSUME idx \in Boards, NextBoard
  PROVE  idx' \in Boards /\ pc' \in {"handle", "client", "boards"}
  BY DEF NextBoard, Boards, AfterBoards

LEMMA AnswerTypes ==
  ASSUME late \in [Boards -> 0 .. LateBound], idx \in Boards, Answer
  PROVE  late' \in [Boards -> 0 .. LateBound]
<1>1. late[idx] < LateBound => late[idx] + 1 \in 0 .. LateBound
  BY DEF LateBound
<1>2. QED
  BY <1>1 DEF Answer

LEMMA TypeNext == TypeOK /\ [Next]_vars => TypeOK'
<1> SUFFICES ASSUME TypeOK, [Next]_vars
             PROVE  TypeOK'
  OBVIOUS
<1>1. CASE HandleCar
  <2>1. /\ v_left \in Range /\ v_right \in Range
        /\ \A n \in Range : -n \in Range
    BY UnitPositive DEF TypeOK, Range
  <2>2. Limited(v_right) \in Range /\ -Limited(v_left) \in Range
    BY <2>1, LimitedRange
  <2>3. W' \in [Boards -> Range]
    BY <1>1, <2>2 DEF HandleCar
  <2>4. pc' = "client" /\ idx' \in Boards
    BY <1>1 DEF HandleCar, Boards
  <2>5. UNCHANGED << config, command, sensors, heard, late >>
    BY <1>1 DEF HandleCar
  <2>6. QED
    BY <2>3, <2>4, <2>5 DEF TypeOK, config, command, sensors
<1>2. ASSUME NEW l \in Speed, NEW r \in Speed, ParseCommand(l, r)
      PROVE  TypeOK'
  <2>1. v_left' \in Range /\ v_right' \in Range
    BY <1>2, CarHandlerAssumption, UnitPositive
    DEF ParseCommand, Accepted, TypeOK, Range
  <2>2. late' \in [Boards -> 0 .. LateBound]
    BY <1>2 DEF ParseCommand, TypeOK, LateBound
  <2>3. /\ pc' = "boards"
        /\ UNCHANGED << idx, config, sensors, W, heard >>
    BY <1>2 DEF ParseCommand
  <2>4. QED
    BY <2>1, <2>2, <2>3 DEF TypeOK, config, sensors
<1>3. CASE NoCommand
  BY <1>3 DEF NoCommand, TypeOK, config, command, sensors
<1>4. CASE ClientGone
  BY <1>4 DEF ClientGone, TypeOK, config, command, sensors
<1>5. CASE NoFrame
  <2>1. idx' \in Boards /\ pc' \in {"handle", "client", "boards"}
    BY <1>5, NextBoardTypes DEF NoFrame, TypeOK
  <2>2. QED
    BY <1>5, <2>1 DEF NoFrame, TypeOK, config, command, sensors
<1>6. CASE Greeted
  <2>1. idx' \in Boards /\ pc' \in {"handle", "client", "boards"}
    BY <1>6, NextBoardTypes DEF Greeted, TypeOK
  <2>2. late' \in [Boards -> 0 .. LateBound]
    BY <1>6, AnswerTypes DEF Greeted, TypeOK
  <2>3. QED
    BY <1>6, <2>1, <2>2 DEF Greeted, TypeOK, config, command, sensors
<1>7. ASSUME NEW low \in BOOLEAN, NEW d \in Distance, Frame(low, d)
      PROVE  TypeOK'
  <2>1. idx' \in Boards /\ pc' \in {"handle", "client", "boards"}
    BY <1>7, NextBoardTypes DEF Frame, TypeOK
  <2>2. late' \in [Boards -> 0 .. LateBound]
    BY <1>7, AnswerTypes DEF Frame, TypeOK
  <2>3. lowPower' \in BOOLEAN /\ lowCompute' \in BOOLEAN
    BY <1>7, Zenon DEF Frame, TypeOK
  <2>4. distance_front' \in Distance /\ distance_rear' \in Distance
    BY <1>7 DEF Frame, TypeOK
  <2>5. heard' \subseteq Boards
    BY <1>7 DEF Frame, TypeOK
  <2>6. UNCHANGED << config, command, W >>
    BY <1>7 DEF Frame
  <2>7. QED
    BY <2>1, <2>2, <2>3, <2>4, <2>5, <2>6 DEF TypeOK, config, command
<1>8. CASE UNCHANGED vars
  BY <1>8 DEF vars, TypeOK, config, command, sensors
<1>9. QED
  BY <1>1, <1>2, <1>3, <1>4, <1>5, <1>6, <1>7, <1>8
  DEF Next, Client, Board

(* Every set point stays within V_MAX, whatever is sensed and commanded    *)
(* (TypeOK of CarHandler, with W in [Boards -> Range]).                    *)
THEOREM TypeCorrect == Spec => []TypeOK
<1>1. Init => TypeOK
  BY CarHandlerAssumption, UnitPositive
  DEF Init, TypeOK, Boards, Range, LateBound
<1>2. QED
  BY <1>1, TypeNext, PTL DEF Spec

-----------------------------------------------------------------------------
(* What holds right after handle_car. *)

(* Only handle_car leads to the client's step. *)
LEMMA HandledOnly ==
  ASSUME TypeOK, [Next]_vars, pc' = "client"
  PROVE  HandleCar \/ UNCHANGED vars
  BY DEF Next, Client, Board, ParseCommand, NoCommand, ClientGone, NoFrame,
         Greeted, Frame, NextBoard, AfterBoards

(* The set points handle_car leaves behind, seen in the state after it. *)
LEMMA HandledSpeeds ==
  ASSUME TypeOK, HandleCar, NEW b \in Boards
  PROVE  /\ Commanded(b) \in Range
         /\ Commanded(b)' = Commanded(b)
         /\ Forward(b)' = Limited(Commanded(b))
<1>1. Commanded(b) \in Range
  BY DEF TypeOK, Commanded
<1>2. Commanded(b)' = Commanded(b)
  BY DEF HandleCar, Commanded, command
<1>3. W'[b] = IF b \in {0, 1} THEN Limited(v_right) ELSE -Limited(v_left)
  BY DEF HandleCar
<1>4. Limited(v_left) \in Int
  BY LimitedRange, UnitPositive DEF TypeOK, Range
<1>5. Forward(b)' = Limited(Commanded(b))
  BY <1>3, <1>4 DEF Forward, Commanded
<1>6. QED
  BY <1>1, <1>2, <1>5

(* The handlers only ever slow a wheel down (OnlySlower of CarHandler). *)
THEOREM OnlySlowerHolds == Spec => []OnlySlower
<1>1. Init => OnlySlower
  BY DEF Init, OnlySlower
<1>2. TypeOK /\ OnlySlower /\ [Next]_vars => OnlySlower'
  <2> SUFFICES ASSUME TypeOK, OnlySlower, [Next]_vars, pc' = "client",
                      ~enDistHandlerFront', NEW b \in Boards
               PROVE  IF Commanded(b)' >= 0
                        THEN Forward(b)' \in 0 .. Commanded(b)'
                        ELSE Forward(b)' \in Commanded(b)' .. 0
    BY DEF OnlySlower
  <2>1. CASE HandleCar
    <3>1. ~enDistHandlerFront
      BY <2>1 DEF HandleCar, config
    <3>2. QED
      BY <2>1, <3>1, HandledSpeeds, LimitedRange
  <2>2. CASE UNCHANGED vars
    BY <2>2
    DEF OnlySlower, vars, config, command, sensors, Forward, Commanded
  <2>3. QED
    BY <2>1, <2>2, HandledOnly
<1>3. QED
  BY <1>1, <1>2, TypeCorrect, PTL DEF Spec

(* No set point drives the car back into an obstacle (RearObstacleStops of *)
(* CarHandler).                                                            *)
THEOREM RearObstacleStopsHolds == Spec => []RearObstacleStops
<1>1. Init => RearObstacleStops
  BY DEF Init, RearObstacleStops
<1>2. TypeOK /\ RearObstacleStops /\ [Next]_vars => RearObstacleStops'
  <2> SUFFICES ASSUME TypeOK, RearObstacleStops, [Next]_vars,
                      pc' = "client", enDistHandlerRear',
                      distance_rear' >= 0, distance_rear' < DIST_MIN,
                      NEW b \in Boards
               PROVE  Forward(b)' >= 0
    BY DEF RearObstacleStops
  <2>1. CASE HandleCar
    <3>1. /\ enDistHandlerRear
          /\ distance_rear >= 0 /\ distance_rear < DIST_MIN
      BY <2>1 DEF HandleCar, config, sensors
    <3>2. distance_rear \in Int
      BY CarHandlerAssumption DEF TypeOK
    <3>3. DistMax(distance_rear) = 0
      BY <3>1, <3>2, CarHandlerAssumption DEF DistMax
    <3>4. ASSUME NEW v \in Range PROVE Limited(v) >= 0
      <4> DEFINE a == AfterBattery(v)
                 f == AfterFront(v, a)
      <4>1. v \in Int
        BY UnitPositive DEF Range
      <4>2. a = v \/ a = 0
        BY DEF AfterBattery
      <4>3. DistMax(distance_front) \in Int
        BY DistMaxRange, CarHandlerAssumption, UnitPositive DEF TypeOK
      <4>4. f \in Int /\ (v >= 0 => f >= 0)
        BY <4>1, <4>2, <4>3 DEF AfterFront, MIN
      <4>5. Limited(v) = IF v < 0 THEN IF 0 > f THEN 0 ELSE f ELSE f
        BY <3>1, <3>3 DEF Limited, AfterRear, MAX
      <4> HIDE DEF a, f
      <4>6. QED
        BY <4>1, <4>4, <4>5
    <3>5. QED
      BY <2>1, <3>4, HandledSpeeds
  <2>2. CASE UNCHANGED vars
    BY <2>2 DEF RearObstacleStops, vars, config, command, sensors, Forward
  <2>3. QED
    BY <2>1, <2>2, HandledOnly
<1>3. QED
  BY <1>1, <1>2, TypeCorrect, PTL DEF Spec

(* Behind a car that reports no obstacle nothing brakes (FreeRearUnlimited *)
(* of CarHandler): -1, less than every distance, is not taken for one.     *)
THEOREM FreeRearUnlimitedHolds == Spec => []FreeRearUnlimited
<1>1. Init => FreeRearUnlimited
  BY DEF Init, FreeRearUnlimited
<1>2. TypeOK /\ FreeRearUnlimited /\ [Next]_vars => FreeRearUnlimited'
  <2> SUFFICES ASSUME TypeOK, FreeRearUnlimited, [Next]_vars,
                      pc' = "client", distance_rear' = -1,
                      ~enDistHandlerFront', ~enBattHandler', NEW b \in Boards
               PROVE  Forward(b)' = Commanded(b)'
    BY DEF FreeRearUnlimited
  <2>1. CASE HandleCar
    <3>1. /\ distance_rear = -1
          /\ ~enDistHandlerFront /\ ~enBattHandler
      BY <2>1 DEF HandleCar, config, sensors
    <3>2. DistMax(distance_rear) = Unit
      BY <3>1 DEF DistMax
    <3>3. ASSUME NEW v \in Range PROVE Limited(v) = v
      <4>1. v \in Int /\ v >= -Unit
        BY UnitPositive DEF Range
      <4>2. AfterFront(v, AfterBattery(v)) = v
        BY <3>1 DEF AfterFront, AfterBattery
      <4>3. QED
        BY <3>2, <4>1, <4>2, UnitPositive DEF Limited, AfterRear, MAX
    <3>4. QED
      BY <2>1, <3>3, HandledSpeeds
  <2>2. CASE UNCHANGED vars
    BY <2>2
    DEF FreeRearUnlimited, vars, config, command, sensors, Forward, Commanded
  <2>3. QED
    BY <2>1, <2>2, HandledOnly
<1>3. QED
  BY <1>1, <1>2, TypeCorrect, PTL DEF Spec

-----------------------------------------------------------------------------
(* The battery handler. *)

(* A battery that is not taken for empty has been reported. *)
Reported ==
  /\ ~lowPower => ubatP \in heard
  /\ ~lowCompute => ubatC \in heard

(* The two parts together: a set point other than 0 was computed from two  *)
(* reported batteries.                                                     *)
HeardInv == Reported /\ NoDriveUnheard

LEMMA EmptyStops ==
  ASSUME TypeOK, NEW v \in Range, enBattHandler, ~enDistHandlerFront,
         BatteryEmpty
  PROVE  Limited(v) = 0
<1>1. DistMax(distance_rear) \in 0 .. Unit
  BY DistMaxRange, CarHandlerAssumption DEF TypeOK
<1>2. AfterFront(v, AfterBattery(v)) = 0
  BY DEF AfterFront, AfterBattery
<1>3. QED
  BY <1>1, <1>2, UnitPositive DEF Limited, AfterRear, MAX

LEMMA HeardNext == TypeOK /\ HeardInv /\ [Next]_vars => HeardInv'
<1> SUFFICES ASSUME TypeOK, HeardInv, [Next]_vars
             PROVE  HeardInv'
  OBVIOUS
<1>1. CASE HandleCar
  <2>1. UNCHANGED << config, sensors, heard >>
    BY <1>1 DEF HandleCar
  <2>2. Reported'
    BY <2>1 DEF HeardInv, Reported, sensors
  <2>3. ASSUME enBattHandler, ~enDistHandlerFront,
               NEW b \in Boards, W'[b] # 0
        PROVE  {ubatP, ubatC} \subseteq heard
    <3>1. v_left \in Range /\ v_right \in Range
      BY DEF TypeOK
    <3>2. W'[b] = IF b \in {0, 1} THEN Limited(v_right) ELSE -Limited(v_left)
      BY <1>1 DEF HandleCar
    <3>3. ~BatteryEmpty
      BY <2>3, <3>1, <3>2, EmptyStops
    <3>4. QED
      BY <3>3 DEF BatteryEmpty, HeardInv, Reported
  <2>4. QED
    BY <2>1, <2>2, <2>3 DEF HeardInv, NoDriveUnheard, config
<1>2. CASE UNCHANGED << config, sensors, W, heard >>
  BY <1>2 DEF HeardInv, Reported, NoDriveUnheard, config, sensors
<1>3. ASSUME NEW low \in BOOLEAN, NEW d \in Distance, Frame(low, d)
      PROVE  HeardInv'
  <2>1. heard' = heard \cup ({idx} \cap {ubatP, ubatC})
    BY <1>3 DEF Frame
  <2>2. /\ lowPower' = IF idx = ubatP THEN low ELSE lowPower
        /\ lowCompute' = IF idx = ubatC THEN low ELSE lowCompute
    BY <1>3 DEF Frame
  <2>3. Reported'
    BY <2>1, <2>2 DEF HeardInv, Reported
  <2>4. UNCHANGED << config, W >>
    BY <1>3 DEF Frame
  <2>5. QED
    BY <2>1, <2>3, <2>4 DEF HeardInv, NoDriveUnheard, config
<1>4. QED
  BY <1>1, <1>2, <1>3
  DEF Next, Client, Board, ParseCommand, NoCommand, ClientGone, NoFrame,
      Greeted, vars

(* No wheel is driven before both batteries have been reported             *)
(* (NoDriveUnheard of CarHandler).                                         *)
THEOREM NoDriveUnheardHolds == Spec => []NoDriveUnheard
<1>1. Init => HeardInv
  BY DEF Init, HeardInv, Reported, NoDriveUnheard
<1>2. HeardInv => NoDriveUnheard
  BY DEF HeardInv
<1>3. QED
  BY <1>1, <1>2, HeardNext, TypeCorrect, PTL DEF Spec

-----------------------------------------------------------------------------
(* Stopping. *)

Stopped == v_left = 0 /\ v_right = 0

(* The car told to stop has, behind the next handle_car, only set points   *)
(* of 0, and before it no board from idx on has had an old one.  StopSoon  *)
(* alone does not say that the board about to be answered is not late yet. *)
StopInv ==
  /\ StopSoon
  /\ ~Stopped => \A b \in Boards : late[b] = 0
  /\ pc = "client" /\ Stopped => \A b \in Boards : W[b] = 0
  /\ pc = "boards" /\ Stopped =>
       \/ \A b \in Boards : W[b] = 0
       \/ \A b \in Boards : b >= idx => late[b] = 0

(* The answer to a board, and the step to the next. *)
LEMMA AnswerNext ==
  ASSUME TypeOK, StopInv, pc = "boards", Answer, NextBoard,
         UNCHANGED << command, W >>
  PROVE  StopInv'
<1>1. UNCHANGED << v_left, v_right >>
  BY DEF command
<1>2. /\ idx \in Boards /\ late \in [Boards -> 0 .. LateBound]
      /\ LateBound = 2
  BY DEF TypeOK, LateBound
<1>3. pc' \in {"handle", "boards"} /\ (pc' = "boards" => idx' = idx + 1)
  BY DEF NextBoard, AfterBoards
<1>4. CASE late' = late
  BY <1>1, <1>2, <1>3, <1>4 DEF StopInv, StopSoon, Stopped, Boards
<1>5. CASE late' # late
  <2>1. Stopped /\ W[idx] # 0 /\ late' = [late EXCEPT ![idx] = late[idx] + 1]
    BY <1>5 DEF Answer, Stopped
  <2>2. \A b \in Boards : b >= idx => late[b] = 0
    BY <1>2, <2>1 DEF StopInv
  <2>3. late[idx] = 0
    BY <1>2, <2>2 DEF Boards
  <2>4. \A b \in Boards : late'[b] = IF b = idx THEN 1 ELSE late[b]
    BY <1>2, <2>1, <2>3
  <2>5. StopSoon'
    BY <2>4 DEF StopInv, StopSoon
  <2>6. Stopped'
    BY <1>1, <2>1 DEF Stopped
  <2>7. pc' = "boards" => \A b \in Boards : b >= idx' => late'[b] = 0
    BY <1>2, <1>3, <2>2, <2>4 DEF Boards
  <2>8. QED
    BY <1>3, <2>5, <2>6, <2>7 DEF StopInv
<1>6. QED
  BY <1>4, <1>5

LEMMA StopNext == TypeOK /\ StopInv /\ [Next]_vars => StopInv'
<1> SUFFICES ASSUME TypeOK, StopInv, [Next]_vars
             PROVE  StopInv'
  OBVIOUS
<1>1. CASE HandleCar
  <2>1. pc' = "client" /\ UNCHANGED << v_left, v_right, late >>
    BY <1>1 DEF HandleCar, command
  <2>2. ASSUME Stopped, NEW b \in Boards PROVE W'[b] = 0
    <3>1. 0 \in Range
      BY UnitPositive DEF Range
    <3>2. Limited(v_left) = 0 /\ Limited(v_right) = 0
      BY <2>2, <3>1, LimitedRange DEF Stopped
    <3>3. W'[b] = IF b \in {0, 1} THEN Limited(v_right) ELSE -Limited(v_left)
      BY <1>1 DEF HandleCar
    <3>4. \A n \in Int : n >= 0 /\ n <= 0 => -n = n
      OBVIOUS
    <3>5. Limited(v_left) \in Int /\ Limited(v_left) >= 0 /\ Limited(v_left) <= 0
      BY <3>2
    <3>6. QED
      BY <3>2, <3>3, <3>4, <3>5, Zenon
  <2>3. QED
    BY <2>1, <2>2 DEF StopInv, StopSoon, Stopped
<1>2. ASSUME NEW l \in Speed, NEW r \in Speed, ParseCommand(l, r)
      PROVE  StopInv'
  <2>1. /\ pc = "client" /\ pc' = "boards"
        /\ late' = IF Stopped' THEN late ELSE [b \in Boards |-> 0]
        /\ UNCHANGED W
    BY <1>2 DEF ParseCommand, Stopped
  <2>2. CASE ~Stopped'
    BY <2>1, <2>2 DEF StopInv, StopSoon
  <2>3. CASE Stopped' /\ Stopped
    BY <2>1, <2>3 DEF StopInv, StopSoon
  <2>4. CASE Stopped' /\ ~Stopped
    BY <2>1, <2>4 DEF StopInv, StopSoon
  <2>5. QED
    BY <2>2, <2>3, <2>4
<1>3. CASE NoCommand
  BY <1>3 DEF NoCommand, StopInv, StopSoon, Stopped, command
<1>4. CASE ClientGone
  BY <1>4 DEF ClientGone, StopInv, StopSoon, Stopped, command
<1>5. CASE NoFrame
  <2>1. /\ pc = "boards" /\ UNCHANGED << v_left, v_right, W, late >>
        /\ pc' \in {"handle", "boards"} /\ (pc' = "boards" => idx' = idx + 1)
    BY <1>5 DEF NoFrame, NextBoard, AfterBoards, command
  <2>2. idx \in Boards
    BY DEF TypeOK
  <2>3. QED
    BY <2>1, <2>2 DEF StopInv, StopSoon, Stopped, Boards
<1>6. CASE Greeted
  BY <1>6, AnswerNext DEF Greeted
<1>7. ASSUME NEW low \in BOOLEAN, NEW d \in Distance, Frame(low, d)
      PROVE  StopInv'
  BY <1>7, AnswerNext DEF Frame
<1>8. CASE UNCHANGED vars
  BY <1>8 DEF vars, command, StopInv, StopSoon, Stopped
<1>9. QED
  BY <1>1, <1>2, <1>3, <1>4, <1>5, <1>6, <1>7, <1>8
  DEF Next, Client, Board

(* A command to stop is late for each board by one answer at most          *)
(* (StopSoon of CarHandler).                                               *)
THEOREM StopSoonHolds == Spec => []StopSoon
<1>1. Init => StopInv
  BY DEF Init, StopInv, StopSoon, Stopped
<1>2. StopInv => StopSoon
  BY DEF StopInv
<1>3. QED
  BY <1>1, <1>2, StopNext, TypeCorrect, PTL DEF Spec
=============================================================================
