----------------------------- MODULE Ultrasound -----------------------------
(***************************************************************************)
(* The ultrasound distance sensor of a motor board: the measuring machine  *)
(* in the FPGA (Ultrasound_interface.v) clock by clock, and the driver     *)
(* that the main loop calls now and then (handle_measuredis in             *)
(* Ultrasound_interface.h).  In one clock all registers of the FPGA take   *)
(* their next values from the present ones, the echo input may change, and *)
(* the driver makes one access to the registers, or none.                  *)
(*                                                                         *)
(* The distance is kept in clocks; the driver's conversion to metres keeps *)
(* -1, which stands for "no obstacle", apart.                              *)
(***************************************************************************)
EXTENDS Integers

CONSTANTS
  TriggerLen,   \* 1024: clocks of the trigger pulse (bit 10 of tri_count)
  Limit,        \* 16#E0000: clocks of an echo beyond which it is too long
  Gap           \* clocks between two calls of the driver, at least

NoObstacle == -1

(* A round of the main loop makes many bus accesses. *)
ASSUME UltrasoundAssumption ==
  /\ TriggerLen \in Nat \ {0}
  /\ Limit \in Nat \ {0}
  /\ Gap \in Nat /\ Gap >= 2

VARIABLES
  \* the FPGA
  control,         \* control_reg[0]
  trig0, trig1,    \* the control bit, one and two clocks late
  feedback_in,     \* the echo input
  feedback_in1, feedback_in2,   \* the same, one and two clocks late
  state, tri_count, trigger_out, state_reg, distance_count,
  \* the driver
  pc,              \* the access it is about to make
  gap,             \* clocks since the last call, up to Gap
  US_state,        \* 0: to be triggered, 1: measuring
  US_distance,
  \* history variables: no step of the program reads them
  echo,            \* clocks the input has been high, up to Limit + 1
  lastEcho,        \* the same of the last echo that ended
  fresh            \* a measurement ended since the last trigger

inputs  == << trig0, trig1, feedback_in, feedback_in1, feedback_in2 >>
machine == << state, tri_count, trigger_out, state_reg, distance_count >>
driver  == << control, pc, gap, US_state, US_distance >>
history == << echo, lastEcho, fresh >>
vars    == << inputs, machine, driver, history >>

Busy  == 1    \* values of state_reg
Ready == 2

EchoBound == Limit + 1

TypeOK ==
  /\ control \in {0, 1} /\ trig0 \in {0, 1} /\ trig1 \in {0, 1}
  /\ feedback_in \in {0, 1}
  /\ feedback_in1 \in {0, 1} /\ feedback_in2 \in {0, 1}
  /\ state \in {"idle", "trigger", "wait_feedback", "measure_feedback"}
  /\ tri_count \in 0 .. (IF TriggerLen > Limit THEN TriggerLen ELSE Limit)
  /\ trigger_out \in {0, 1}
  /\ state_reg \in {Busy, Ready}
  /\ distance_count \in {NoObstacle} \cup 0 .. Limit
  /\ pc \in {"away", "clear", "set", "unset", "data"}
  /\ gap \in 0 .. Gap
  /\ US_state \in {0, 1}
  /\ US_distance \in {NoObstacle} \cup 0 .. Limit
  /\ echo \in 0 .. EchoBound /\ lastEcho \in 0 .. EchoBound
  /\ fresh \in BOOLEAN

(* Reset, and init_measuredis.  The FPGA does not reset distance_count. *)
Init ==
  /\ control = 0 /\ trig0 = 0 /\ trig1 = 0
  /\ feedback_in = 0 /\ feedback_in1 = 0 /\ feedback_in2 = 0
  /\ state = "idle" /\ tri_count = 0 /\ trigger_out = 0 /\ state_reg = Ready
  /\ distance_count = 0
  /\ pc = "away" /\ gap = 0 /\ US_state = 0 /\ US_distance = NoObstacle
  /\ echo = 0 /\ lastEcho = 0 /\ fresh = FALSE

-----------------------------------------------------------------------------
(* The FPGA, one clock. *)

(* The two synchronisers, and an echo that starts, lasts or ends. *)
Sample ==
  /\ trig0' = control /\ trig1' = trig0
  /\ feedback_in' \in {0, 1}
  /\ feedback_in1' = feedback_in /\ feedback_in2' = feedback_in1
  /\ echo' = IF feedback_in = 0 THEN 0
             ELSE IF echo < EchoBound THEN echo + 1 ELSE echo
  /\ lastEcho' = IF feedback_in = 0 /\ echo > 0 THEN echo ELSE lastEcho

Idle ==
  /\ state = "idle"
  /\ state' = IF trig0 = 1 /\ trig1 = 0 THEN "trigger" ELSE "idle"
  /\ tri_count' = 0 /\ trigger_out' = 0 /\ state_reg' = Ready
  /\ UNCHANGED distance_count

Trigger ==
  LET over == tri_count = TriggerLen
  IN  /\ state = "trigger"
      /\ state' = IF over THEN "wait_feedback" ELSE "trigger"
      /\ tri_count' = IF over THEN 0 ELSE tri_count + 1
      /\ trigger_out' = IF over THEN 0 ELSE 1
      /\ state_reg' = Busy
      /\ UNCHANGED distance_count

(* Mutant of EchoStarts: the level of the input instead of its edge. *)
EchoHigh == feedback_in1 = 1

EchoStarts == feedback_in1 = 1 /\ feedback_in2 = 0

WaitFeedback ==
  /\ state = "wait_feedback"
  /\ state' = IF EchoStarts THEN "measure_feedback" ELSE "wait_feedback"
  /\ tri_count' = IF EchoStarts THEN tri_count + 1 ELSE 0
  /\ trigger_out' = 0 /\ state_reg' = Busy
  /\ UNCHANGED distance_count

(* Mutant of TooLong: no limit. *)
NeverTooLong == FALSE

TooLong == tri_count >= Limit

MeasureOn ==
  /\ state = "measure_feedback" /\ feedback_in1 = 1 /\ ~TooLong
  /\ tri_count' = tri_count + 1
  /\ trigger_out' = 0 /\ state_reg' = Busy
  /\ UNCHANGED << state, distance_count >>

MeasureEnds ==
  /\ state = "measure_feedback" /\ (feedback_in1 = 0 \/ TooLong)
  /\ distance_count' = IF feedback_in1 = 1 THEN NoObstacle ELSE tri_count
  /\ state' = "idle"
  /\ tri_count' = 0 /\ trigger_out' = 0 /\ state_reg' = Ready

Machine == Idle \/ Trigger \/ WaitFeedback \/ MeasureOn \/ MeasureEnds

-----------------------------------------------------------------------------
(* handle_measuredis, an access at a clock. *)

Return == pc' = "away" /\ gap' = 0

(* Mutant of Called: again with the next access. *)
CalledAtOnce == pc = "away"

Called == pc = "away" /\ gap = Gap

(* Mutant of MayTrigger: the condition the wrong way round. *)
TriggersBusy == US_state = 0 /\ state_reg = Busy

MayTrigger == US_state = 0 /\ state_reg # Busy

(* get_sensor_state, and what follows from it. *)
ReadState ==
  /\ Called
  /\ \/ /\ MayTrigger
        /\ US_state' = 1 /\ pc' = "clear" /\ UNCHANGED gap
     \/ /\ US_state = 1 /\ state_reg = Ready
        /\ US_state' = 0 /\ pc' = "data" /\ UNCHANGED gap
     \/ /\ ~MayTrigger /\ ~(US_state = 1 /\ state_reg = Ready)
        /\ Return /\ UNCHANGED US_state
  /\ UNCHANGED << control, US_distance >>

WriteControl(at, bit) ==
  /\ pc = at
  /\ control' = bit
  /\ UNCHANGED << US_state, US_distance >>

Clear == WriteControl("clear", 0) /\ pc' = "set" /\ UNCHANGED gap
Set   == WriteControl("set", 1) /\ pc' = "unset" /\ UNCHANGED gap
Unset == WriteControl("unset", 0) /\ Return

ReadData ==
  /\ pc = "data"
  /\ US_distance' = distance_count
  /\ Return
  /\ UNCHANGED << control, US_state >>

Access == ReadState \/ Clear \/ Set \/ Unset \/ ReadData

(* A clock without an access. *)
NoAccess ==
  /\ gap' = IF pc = "away" /\ gap < Gap THEN gap + 1 ELSE gap
  /\ UNCHANGED << control, pc, US_state, US_distance >>

-----------------------------------------------------------------------------

Clock ==
  /\ Machine /\ Sample
  /\ fresh' = /\ pc # "set"
              /\ fresh \/ (state = "measure_feedback" /\ state' = "idle")

Next == Clock /\ (Access \/ NoAccess)

Spec == Init /\ [][Next]_vars

(* The clock runs, and the main loop goes on calling the driver. *)
FairSpec == Spec /\ WF_vars(Next) /\ WF_vars(Clock /\ Access)

-----------------------------------------------------------------------------

(* "Ready" is what the machine says before it has seen the trigger, too.   *)
(* The reading that the driver takes is nevertheless always that of a      *)
(* measurement its own trigger began (lines 73-91).                        *)
FreshReading == pc = "data" => fresh

(* The echo the input has shown by now. *)
Measured ==
  LET clocks == IF feedback_in1 = 1 THEN echo ELSE lastEcho
  IN  IF clocks > Limit THEN NoObstacle ELSE clocks

(* The two delays of the input take nothing from an echo: a measurement    *)
(* ends with the number of clocks the input was high, or with -1 exactly   *)
(* when that is more than Limit.  Neither an echo that was on before nor   *)
(* one that follows the measured one changes it.                           *)
EchoExact ==
  [][state = "measure_feedback" /\ state' = "idle"
       => distance_count' = Measured]_vars

(* The driver's state and the machine's never wait for each other: as long *)
(* as echoes come at all, distances are read again and again.              *)
MeasuresOn ==
  []<>(feedback_in = 0) /\ []<>(feedback_in = 1) => []<>(pc = "data")
=============================================================================
