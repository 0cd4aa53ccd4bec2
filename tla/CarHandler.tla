----------------------------- MODULE CarHandler -----------------------------
(***************************************************************************)
(* What the car server computes (carserver/src/car_handler.c): from the    *)
(* client's command and the boards' sensors, the set point W of each of    *)
(* the four wheels.  One pass of the server's loop (carserver.c, while     *)
(* (run)) is                                                               *)
(*                                                                         *)
(*   "handle"  handle_car: the set points from what is known now           *)
(*   "client"  a command is parsed, or the client is lost                  *)
(*   "boards"  one board after the other: its frame brings new sensor      *)
(*             values, its answer takes the set point there                *)
(*                                                                         *)
(* Speeds are integers in units of 1/Unit, where Unit stands for 1.0, and  *)
(* set points in units of V_MAX/Unit.  Distances are integers in the unit  *)
(* that makes DIST_BREAK_BEGIN - DIST_MIN equal Unit, so that the division *)
(* of the braking rule is exact.  A battery is below 1000 or it is not.    *)
(* The accelerations are only reported and left out.                       *)
(***************************************************************************)
EXTENDS Integers

CONSTANTS
  DIST_MIN, DIST_BREAK_BEGIN,
  Speed,                        \* the numbers of a command
  Distance,                     \* what a board reports; -1: no obstacle
  ubatP, ubatC, distF, distR    \* the boards with the four sensors

Boards == 0 .. 3
Unit   == DIST_BREAK_BEGIN - DIST_MIN

ASSUME CarHandlerAssumption ==
  /\ DIST_MIN \in Nat /\ DIST_BREAK_BEGIN \in Nat
  /\ DIST_MIN < DIST_BREAK_BEGIN
  /\ Speed \subseteq Int
  /\ Distance \subseteq Int /\ 0 \in Distance
  /\ {ubatP, ubatC, distF, distR} \subseteq Boards

VARIABLES
  pc, idx,
  \* the configuration
  enBattHandler, enDistHandlerFront, enDistHandlerRear,
  \* struct car: the command, and the sensors in the boards' last frames
  v_left, v_right,
  lowPower, lowCompute,            \* ubat_power, ubat_compute below 1000
  distance_front, distance_rear,
  W,           \* indat.values.W of each board
  \* history variables: no step of the program reads them
  heard,       \* the boards with a battery sensor a frame has come from
  late         \* answers other than 0 a board got since the car was told to
               \* stop, up to a bound

config  == << enBattHandler, enDistHandlerFront, enDistHandlerRear >>
command == << v_left, v_right >>
sensors == << lowPower, lowCompute, distance_front, distance_rear >>
vars    == << pc, idx, config, command, sensors, W, heard, late >>

LateBound == 2
Range     == -Unit .. Unit

TypeOK ==
  /\ pc \in {"handle", "client", "boards"}
  /\ idx \in Boards
  /\ enBattHandler \in BOOLEAN
  /\ enDistHandlerFront \in BOOLEAN /\ enDistHandlerRear \in BOOLEAN
  /\ v_left \in Range /\ v_right \in Range
  /\ lowPower \in BOOLEAN /\ lowCompute \in BOOLEAN
  /\ distance_front \in Distance /\ distance_rear \in Distance
  /\ W \in [Boards -> Range]
  /\ heard \subseteq Boards
  /\ late \in [Boards -> 0 .. LateBound]

(* The boards' records start zeroed: a battery of 0, an obstacle at 0.     *)
Init ==
  /\ pc = "handle" /\ idx = 0
  /\ enBattHandler \in BOOLEAN
  /\ enDistHandlerFront \in BOOLEAN /\ enDistHandlerRear \in BOOLEAN
  /\ v_left = 0 /\ v_right = 0
  /\ lowPower = TRUE /\ lowCompute = TRUE
  /\ distance_front = 0 /\ distance_rear = 0
  /\ W = [b \in Boards |-> 0]
  /\ heard = {}
  /\ late = [b \in Boards |-> 0]

-----------------------------------------------------------------------------
(* The handlers. *)

(* Line 26, and line 27, where MIN has the body of MAX. *)
MAX(a, b) == IF a > b THEN a ELSE b
MIN(a, b) == IF a > b THEN a ELSE b

(* Mutant of BatteryEmpty: only the drive battery looked at. *)
PowerEmpty == lowPower

(* battery_handler, lines 84-97: vl_max and vr_max are 0 or 1. *)
BatteryEmpty == lowPower \/ lowCompute

AfterBattery(v) == IF enBattHandler /\ BatteryEmpty THEN 0 ELSE v

(* Mutant of DistMax: the obstacle that is not there is the nearest.       *)
DistMaxPlain(d) ==
  IF d > DIST_BREAK_BEGIN THEN Unit ELSE MAX(0, d - DIST_MIN)

(* dist_handler, lines 102-125. *)
DistMax(d) ==
  IF d = -1 \/ d > DIST_BREAK_BEGIN THEN Unit
  ELSE IF d < DIST_MIN THEN 0
  ELSE d - DIST_MIN

(* Mutants of AfterRear: the condition of the front handler, and the sign  *)
(* of the limit forgotten.                                                 *)
AfterRearForward(v, limited) ==
  IF enDistHandlerRear /\ v > 0 THEN MAX(-DistMax(distance_rear), limited)
  ELSE limited

AfterRearUnsigned(v, limited) ==
  IF enDistHandlerRear /\ v < 0 THEN MAX(DistMax(distance_rear), limited)
  ELSE limited

(* Lines 160-171: the limit applies to the speed as commanded, v, and      *)
(* changes the speed as limited so far.                                    *)
AfterFront(v, limited) ==
  IF enDistHandlerFront /\ v > 0 THEN MIN(DistMax(distance_front), limited)
  ELSE limited

AfterRear(v, limited) ==
  IF enDistHandlerRear /\ v < 0 THEN MAX(-DistMax(distance_rear), limited)
  ELSE limited

Limited(v) == AfterRear(v, AfterFront(v, AfterBattery(v)))

(* handle_car, lines 147-181: the wheels of boards 2 and 3 turn the other  *)
(* way round.                                                              *)
HandleCar ==
  /\ pc = "handle"
  /\ W' = [b \in Boards |-> IF b \in {0, 1} THEN Limited(v_right)
                                            ELSE -Limited(v_left)]
  /\ pc' = "client" /\ idx' = 0
  /\ UNCHANGED << config, command, sensors, heard, late >>

-----------------------------------------------------------------------------
(* The client's command. *)

(* Mutant of Accepted: the lower bound of one side forgotten. *)
AcceptedHalf(l, r) == l <= Unit /\ r <= Unit /\ r >= -Unit

(* Line 200. *)
Accepted(l, r) == l <= Unit /\ r <= Unit /\ l >= -Unit /\ r >= -Unit

(* A command with two numbers (parse_command, lines 198-202), or anything  *)
(* else, which is answered and changes nothing.                            *)
ParseCommand(l, r) ==
  /\ pc = "client"
  /\ v_left' = IF Accepted(l, r) THEN l ELSE v_left
  /\ v_right' = IF Accepted(l, r) THEN r ELSE v_right
  /\ late' = IF v_left' = 0 /\ v_right' = 0 THEN late
             ELSE [b \in Boards |-> 0]
  /\ pc' = "boards"
  /\ UNCHANGED << idx, config, sensors, W, heard >>

NoCommand ==
  /\ pc = "client"
  /\ pc' = "boards"
  /\ UNCHANGED << idx, config, command, sensors, W, heard, late >>

(* carserver.c, lines 318-326: back to the top of the loop.  The speeds    *)
(* stay what the client that is gone last asked for.                       *)
ClientGone ==
  /\ pc = "client"
  /\ pc' = "handle"
  /\ UNCHANGED << idx, config, command, sensors, W, heard, late >>

-----------------------------------------------------------------------------
(* The boards (carserver.c, lines 354-419). *)

(* Mutant of AfterBoards: handle_car only once, before the loop. *)
AfterBoardsToClient == "client"

AfterBoards == "handle"

NextBoard ==
  /\ idx' = IF idx = 3 THEN 0 ELSE idx + 1
  /\ pc' = IF idx = 3 THEN AfterBoards ELSE "boards"

NoFrame ==
  /\ pc = "boards"
  /\ NextBoard
  /\ UNCHANGED << config, command, sensors, W, heard, late >>

(* Lines 405-410: the set point goes to the board. *)
Answer ==
  late' = IF v_left = 0 /\ v_right = 0 /\ W[idx] # 0 /\ late[idx] < LateBound
          THEN [late EXCEPT ![idx] = @ + 1] ELSE late

(* The version string is answered like a frame, and brings no values.      *)
Greeted ==
  /\ pc = "boards"
  /\ Answer
  /\ NextBoard
  /\ UNCHANGED << config, command, sensors, W, heard >>

(* Line 403: the frame of the board with a sensor replaces its value. *)
Frame(low, d) ==
  /\ pc = "boards"
  /\ lowPower' = IF idx = ubatP THEN low ELSE lowPower
  /\ lowCompute' = IF idx = ubatC THEN low ELSE lowCompute
  /\ distance_front' = IF idx = distF THEN d ELSE distance_front
  /\ distance_rear' = IF idx = distR THEN d ELSE distance_rear
  /\ heard' = heard \cup ({idx} \cap {ubatP, ubatC})
  /\ Answer
  /\ NextBoard
  /\ UNCHANGED << config, command, W >>

-----------------------------------------------------------------------------

Client == (\E l, r \in Speed : ParseCommand(l, r)) \/ NoCommand \/ ClientGone

Board == NoFrame \/ Greeted \/ \E low \in BOOLEAN, d \in Distance : Frame(low, d)

Next == HandleCar \/ Client \/ Board

Spec == Init /\ [][Next]_vars

-----------------------------------------------------------------------------

(* The speed of the wheel of board b, forward being positive. *)
Forward(b)   == IF b \in {0, 1} THEN W[b] ELSE -W[b]
Commanded(b) == IF b \in {0, 1} THEN v_right ELSE v_left

(* The handlers "break": without the front one (line 160) no combination   *)
(* of battery, distance and command makes handle_car turn a wheel faster   *)
(* than commanded or the other way.                                        *)
OnlySlower ==
  pc = "client" /\ ~enDistHandlerFront =>
    \A b \in Boards :
      IF Commanded(b) >= 0 THEN Forward(b) \in 0 .. Commanded(b)
                           ELSE Forward(b) \in Commanded(b) .. 0

(* DIST_STOP (lines 111-115) behind the car: whatever the command, the     *)
(* battery and the front handler say, no set point drives it backward.     *)
RearObstacleStops ==
  pc = "client" /\ enDistHandlerRear
    /\ distance_rear >= 0 /\ distance_rear < DIST_MIN
    => \A b \in Boards : Forward(b) >= 0

(* "-1.0 no obstacle" (line 185): the reading that is less than every      *)
(* distance brakes nothing.                                                *)
FreeRearUnlimited ==
  pc = "client" /\ distance_rear = -1 /\ ~enDistHandlerFront /\ ~enBattHandler
    => \A b \in Boards : Forward(b) = Commanded(b)

(* The battery handler keeps the car still until both boards that measure  *)
(* a battery have reported one that is not empty: what the server answers  *)
(* to the first frames and greetings, in whatever order the boards come,   *)
(* is 0.                                                                   *)
NoDriveUnheard ==
  enBattHandler /\ ~enDistHandlerFront /\ (\E b \in Boards : W[b] # 0)
    => {ubatP, ubatC} \subseteq heard

(* A command to stop overtakes the set points computed before it: at most  *)
(* one more answer carries an old one to each board, also when the client  *)
(* is lost or sends more and the pass is cut short.                        *)
StopSoon == \A b \in Boards : late[b] <= 1

(* DIST_STOP in front of the car, as behind it. *)
FrontObstacleStops ==
  pc = "client" /\ enDistHandlerFront
    /\ distance_front >= 0 /\ distance_front < DIST_MIN
    => \A b \in Boards : Forward(b) <= 0
=============================================================================
