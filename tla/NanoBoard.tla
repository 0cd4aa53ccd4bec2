------------------------------ MODULE NanoBoard ------------------------------
(***************************************************************************)
(* The main loop of a motor board (Nanoboard/main.c, main): the serial     *)
(* link to the car server, the loss-of-contact timeout, and the motor      *)
(* section of module MotorLatch.  One round of while(1) is the steps       *)
(*                                                                         *)
(*     "poll"    read how many bytes the read FIFO holds                   *)
(*     "link"    one byte or one packet of the FIFO                        *)
(*     "write"   the bytes of an answer, one at a time                     *)
(*     "control" the motor section                                         *)
(*                                                                         *)
(* and the serial line adds and takes bytes between any two of them.  The  *)
(* driver's alt_up_rs232_write_data reads the data register before it      *)
(* writes it, and that read takes a byte out of the read FIFO: every byte  *)
(* of an answer discards a byte of input.                                  *)
(*                                                                         *)
(* An indat packet is abstracted to 'S' and three payload bytes:           *)
(* enConnBrokenCtr, setEnMotorController and the set point W.  The sensors *)
(* the round also serves share no state with this and are left out.        *)
(***************************************************************************)
EXTENDS MotorLatch, Sequences

CONSTANTS
  UartTimeout,   \* rounds without a packet until contact is lost (50)
  Byte,          \* the byte values on the line
  RxDepth,       \* bytes of the read FIFO (128)
  TxDepth,       \* bytes of the write FIFO (128)
  VersionLen,    \* bytes of the version string (23)
  ResponseLen    \* 'R' and the outdat record (49)

InitChar  == 73  \* 'I'
StartChar == 83  \* 'S'
PacketLen == 4   \* 'S' and the payload; sizeof(indat)+1 in the code

ASSUME NanoBoardAssumption ==
  /\ UartTimeout \in Nat \ {0}
  /\ Byte \subseteq 0 .. 255 /\ {0, InitChar, StartChar} \subseteq Byte
  /\ RxDepth \in Nat /\ RxDepth >= PacketLen
  /\ TxDepth \in Nat \ {0}
  /\ VersionLen \in Nat \ {0}
  /\ ResponseLen \in Nat \ {0}

VARIABLES
  pc,            \* where in the round the program is
  rx,            \* the read FIFO
  tx,            \* how many bytes the write FIFO holds
  avail,         \* i: the used space of the read FIFO, read at the top
                 \* (0 after the link section, where the code is done with it)
  left,          \* bytes of the answer still to be written
  answer,        \* which answer: "version" or "response"
  connBroken,    \* no contact to the car server
  uart_timeout,  \* rounds since the last packet
  indat,         \* the last packet's flags
  W,             \* outdat.values.W: the set point the motor follows
  \* history variables: no step of the program reads them
  age,           \* rounds since the last packet was taken, up to a bound
  fed,           \* a packet was taken since power on
  tripped        \* a stall tripped and setEn was not seen off since

linkVars    == << pc, rx, tx, avail, left, answer, connBroken, uart_timeout,
                  indat, W >>
historyVars == << age, fed, tripped >>
vars        == << motorVars, linkVars, historyVars >>

AgeBound == UartTimeout + 1

TypeOK ==
  /\ MotorTypeOK
  /\ pc \in {"poll", "link", "write", "control"}
  /\ rx \in Seq(Byte) /\ Len(rx) <= RxDepth
  /\ tx \in 0 .. TxDepth
  /\ avail \in 0 .. RxDepth
  /\ left \in 0 .. (VersionLen + ResponseLen)
  /\ answer \in {"version", "response"}
  /\ connBroken \in BOOLEAN
  /\ uart_timeout \in 0 .. UartTimeout
  /\ indat \in [enConnBrokenCtr : BOOLEAN, setEnMotorController : BOOLEAN]
  /\ W \in 0 .. 255
  /\ age \in 0 .. AgeBound
  /\ fed \in BOOLEAN
  /\ tripped \in BOOLEAN

(* indat is not initialised in the code: its flags start with any value.   *)
Init ==
  /\ MotorInit
  /\ pc = "poll"
  /\ rx = << >> /\ tx = 0
  /\ avail = 0 /\ left = 0 /\ answer = "version"
  /\ connBroken = TRUE
  /\ uart_timeout = 0
  /\ indat \in [enConnBrokenCtr : BOOLEAN, setEnMotorController : BOOLEAN]
  /\ W = 0
  /\ age = AgeBound /\ fed = FALSE /\ tripped = FALSE

-----------------------------------------------------------------------------
(* The serial line. *)

(* A byte arrives; a full read FIFO loses it. *)
LineIn(b) ==
  /\ rx' = IF Len(rx) < RxDepth THEN Append(rx, b) ELSE rx
  /\ UNCHANGED << motorVars, pc, tx, avail, left, answer, connBroken,
                  uart_timeout, indat, W, historyVars >>

(* The line shifts out a byte of the write FIFO. *)
LineOut ==
  /\ tx > 0
  /\ tx' = tx - 1
  /\ UNCHANGED << motorVars, pc, rx, avail, left, answer, connBroken,
                  uart_timeout, indat, W, historyVars >>

-----------------------------------------------------------------------------
(* The program. *)

(* A read of the data register: the oldest byte leaves the FIFO; an empty  *)
(* FIFO reads as zeros.                                                    *)
Popped(s)  == IF s = << >> THEN s ELSE Tail(s)
ByteAt(k)  == IF k <= Len(rx) THEN rx[k] ELSE 0
Drop(s, n) == IF n < Len(s) THEN SubSeq(s, n + 1, Len(s)) ELSE << >>

Poll ==
  /\ pc = "poll"
  /\ pc' = "link"
  /\ avail' = Len(rx)
  /\ age' = IF age < AgeBound THEN age + 1 ELSE age
  /\ UNCHANGED << motorVars, rx, tx, left, answer, connBroken, uart_timeout,
                  indat, W, fed, tripped >>

(* Mutant of ByteReady: a whole packet awaited for one byte. *)
ByteReadyLate == avail >= PacketLen

ByteReady == avail >= 1

(* Lines 187-205: no contact.  The set point and setEn are off, and the    *)
(* FIFO is searched, a byte a round, for the 'I' that opens the link.      *)
SeekInit ==
  LET opened == ByteReady /\ ByteAt(1) = InitChar
  IN  /\ pc = "link" /\ connBroken
      /\ W' = 0
      /\ indat' = [indat EXCEPT !.setEnMotorController = FALSE]
      /\ rx' = IF ByteReady THEN Popped(rx) ELSE rx
      /\ connBroken' = ~opened
      /\ uart_timeout' = IF opened THEN 0 ELSE uart_timeout
      /\ pc' = IF opened THEN "write" ELSE "control"
      /\ left' = IF opened THEN VersionLen ELSE 0
      /\ answer' = "version"
      /\ avail' = 0
      /\ UNCHANGED << motorVars, tx, historyVars >>

(* Mutant of TimesOut: a round late. *)
TimesOutLate == uart_timeout >= UartTimeout

(* Lines 216-226: the timeout of a round in contact. *)
TimesOut == uart_timeout + 1 >= UartTimeout

(* Mutant of RoundTimeout: a byte that waits counts as contact. *)
RoundTimeoutAnyByte ==
  IF TimesOut \/ avail > 0 THEN 0 ELSE uart_timeout + 1

RoundTimeout == IF TimesOut THEN 0 ELSE uart_timeout + 1

(* Mutant of PacketReady: the start byte not counted. *)
PacketReadyShort == avail >= PacketLen - 1

(* Lines 228-240: a whole packet is there and it starts with 'S'. *)
PacketReady == avail >= PacketLen
PacketFlags ==
  [enConnBrokenCtr |-> ByteAt(2) # 0, setEnMotorController |-> ByteAt(3) # 0]

TakePacket ==
  /\ pc = "link" /\ ~connBroken
  /\ PacketReady /\ ByteAt(1) = StartChar
  /\ connBroken' = TimesOut
  /\ uart_timeout' = 0
  /\ indat' = PacketFlags
  /\ W' = ByteAt(4)
  /\ rx' = Drop(rx, PacketLen)
  /\ pc' = "write" /\ left' = ResponseLen /\ answer' = "response"
  /\ avail' = 0
  /\ age' = 0 /\ fed' = TRUE
  /\ UNCHANGED << motorVars, tx, tripped >>

(* No packet this round: at most one byte that is not 'S' is dropped. *)
AwaitPacket ==
  /\ pc = "link" /\ ~connBroken
  /\ PacketReady => ByteAt(1) # StartChar
  /\ connBroken' = TimesOut
  /\ uart_timeout' = RoundTimeout
  /\ rx' = IF PacketReady THEN Popped(rx) ELSE rx
  /\ pc' = "control"
  /\ avail' = 0
  /\ UNCHANGED << motorVars, tx, left, answer, indat, W, historyVars >>

(* Mutants: a byte too many, and the wait of line 77 the wrong way round. *)
LastByteLate      == left = 0
MayWriteWhenFull  == answer = "version" => tx = TxDepth

LastByte == left = 1
MayWrite == answer = "version" => tx < TxDepth

(* One byte of an answer.  write_string (lines 72-81) waits for space in   *)
(* the write FIFO; the response (lines 250-254) does not, and a byte that  *)
(* finds the FIFO full is lost.  Either way the driver's read of the data  *)
(* register takes a byte of input.                                         *)
WriteByte ==
  /\ pc = "write"
  /\ MayWrite
  /\ rx' = Popped(rx)
  /\ tx' = IF tx < TxDepth THEN tx + 1 ELSE tx
  /\ left' = left - 1
  /\ pc' = IF LastByte THEN "control" ELSE "write"
  /\ answer' = IF LastByte THEN "version" ELSE answer
  /\ UNCHANGED << motorVars, avail, connBroken, uart_timeout, indat,
                  W, historyVars >>

(* Lines 284-370: the motor section.  The duty the control law asks for    *)
(* and whether the wheel stands still are not determined here.             *)
Control ==
  /\ pc = "control"
  /\ pc' = "poll"
  /\ \E duty \in DutyClass, still \in BOOLEAN :
        MotorRound(indat.enConnBrokenCtr, indat.setEnMotorController,
                   duty, still)
  /\ tripped' = IF enMotorController THEN ~enMotorController'
                ELSE tripped /\ indat.setEnMotorController
  /\ UNCHANGED << rx, tx, avail, left, answer, connBroken, uart_timeout,
                  indat, W, age, fed >>

Loop == Poll \/ SeekInit \/ TakePacket \/ AwaitPacket \/ WriteByte \/ Control

Line == LineOut \/ \E b \in Byte : LineIn(b)

Next == Loop \/ Line

Spec == Init /\ [][Next]_vars

(* The processor keeps running its loop, and the line keeps shifting out   *)
(* what the write FIFO holds: there is no flow control on it.              *)
FairSpec == Spec /\ WF_vars(Loop) /\ WF_vars(LineOut)

-----------------------------------------------------------------------------
(* Safety. *)

(* The dead-man promise of the timeout in lines 216-226: a set point other *)
(* than 0 reaches the motor section only within UartTimeout rounds of the  *)
(* packet that brought it, whatever the line carries and whenever the link *)
(* breaks, also when a packet is taken in the very round that times out.   *)
Deadman == pc = "control" /\ W # 0 => age <= UartTimeout

(* indat is uninitialised at power on.  Whatever it holds, the motor       *)
(* controller is never enabled, and so enConnBrokenCtr (line 329) never    *)
(* read, before a packet filled it.                                        *)
NoUninitialisedRead == enMotorController => fed

(* "setEnMotorController has to be reseted and then set again" (line 349): *)
(* after a stall tripped, no packet, loss of contact or new handshake      *)
(* enables the controller before a round has seen setEn off.               *)
TripLatch == tripped => ~enMotorController

(* Lines 228-240 read a whole packet only when it is there: the bytes that *)
(* an answer discards or that arrive after the FIFO was measured never     *)
(* make the program read a set point out of an empty FIFO.                 *)
PacketWhole == [][fed' # fed \/ age' < age => Len(rx) >= PacketLen]_vars

(* "a read of DATA will discard the data" (the driver's comment, in the    *)
(* function that measures the read FIFO): input leaves the FIFO only where *)
(* the program reads it.                                                   *)
OnlyReadsDiscard == [][Len(rx') < Len(rx) => pc = "link"]_vars

-----------------------------------------------------------------------------
(* Liveness. *)

(* An 'I' in the read FIFO of a board without contact, at the top of a     *)
(* round, is found and opens the link, whatever lies before it.            *)
HandshakeHeard ==
  (pc = "poll" /\ connBroken /\ \E k \in 1 .. Len(rx) : rx[k] = InitChar)
     ~> ~connBroken

(* The wait for space in write_string (line 77) never holds the loop, and  *)
(* with it the motor section, for good.                                    *)
LoopProgress == []<>(pc = "control")
=============================================================================
