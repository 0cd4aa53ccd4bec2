--------------------------- MODULE NanoBoardProofs ---------------------------
(***************************************************************************)
(* The safety properties of NanoBoard for every value of its constants:    *)
(* any timeout, stall limit, FIFO depth and answer length.                 *)
(***************************************************************************)
EXTENDS NanoBoard, SequenceTheorems, TLAPS

(* What the type invariant leaves open and its own preservation needs: an  *)
(* answer in progress has bytes left, the timeout counter is below the     *)
(* timeout, and the FIFO holds at least what was measured.                 *)
Bounds ==
  /\ pc = "write" => left > 0
  /\ uart_timeout < UartTimeout
  /\ pc = "link" => avail <= Len(rx)

(* The set point's age against the timeout counter.  In contact the        *)
(* counter is at least the age (one behind while the round is young); out  *)
(* of contact only the round that timed out still has a set point.         *)
SetPointAge ==
  W # 0 =>
    /\ pc # "link" =>
          age <= IF connBroken THEN UartTimeout ELSE uart_timeout
    /\ pc = "link" /\ ~connBroken => age <= uart_timeout + 1

(* Before the first packet setEn is garbage only until the first search    *)
(* for an 'I' clears it, and that comes before the first motor round.      *)
FirstPacket ==
  /\ enMotorController => fed
  /\ ~fed => \/ ~indat.setEnMotorController
             \/ connBroken /\ pc \in {"poll", "link"}

(* A trip happens with setEnMotorwasoff off, and it stays off until a      *)
(* round sees setEn off.                                                   *)
LatchInv ==
  /\ enMotorController => ~setEnMotorwasoff
  /\ tripped => ~enMotorController /\ ~setEnMotorwasoff

-----------------------------------------------------------------------------

(* What the program does to the read FIFO keeps it a FIFO of bytes. *)
LEMMA FifoOps ==
  ASSUME NEW S, NEW s \in Seq(S)
  PROVE  /\ Popped(s) \in Seq(S) /\ Len(Popped(s)) <= Len(s)
         /\ \A n \in Nat : /\ Drop(s, n) \in Seq(S)
                           /\ Len(Drop(s, n)) <= Len(s)
<1>1. Popped(s) \in Seq(S) /\ Len(Popped(s)) <= Len(s)
  <2>1. CASE s = << >>
    BY <2>1 DEF Popped
  <2>2. CASE s # << >>
    BY <2>2, HeadTailProperties DEF Popped
  <2>3. QED
    BY <2>1, <2>2
<1>2. ASSUME NEW n \in Nat
      PROVE  Drop(s, n) \in Seq(S) /\ Len(Drop(s, n)) <= Len(s)
  <2>1. CASE n < Len(s)
    BY <2>1, SubSeqProperties, LenProperties DEF Drop
  <2>2. CASE ~(n < Len(s))
    BY <2>2, LenProperties DEF Drop
  <2>3. QED
    BY <2>1, <2>2
<1>3. QED
  BY <1>1, <1>2

(* A byte the program reads is a byte. *)
LEMMA ByteRange ==
  ASSUME NanoBoardAssumption, rx \in Seq(Byte), NEW k \in Nat \ {0}
  PROVE  ByteAt(k) \in 0 .. 255
<1>1. CASE k <= Len(rx)
  <2>1. k \in 1 .. Len(rx)
    BY <1>1, LenProperties
  <2>2. rx[k] \in Byte
    BY <2>1, ElementOfSeq
  <2>3. QED
    BY <1>1, <2>2 DEF ByteAt, NanoBoardAssumption
<1>2. CASE ~(k <= Len(rx))
  BY <1>2 DEF ByteAt
<1>3. QED
  BY <1>1, <1>2

-----------------------------------------------------------------------------
(* Type correctness. *)

LEMMA MotorTypes ==
  ASSUME MotorTypeOK, StallLimit \in Nat,
         NEW enCBC \in BOOLEAN, NEW setEn \in BOOLEAN,
         NEW duty \in DutyClass, NEW still \in BOOLEAN,
         MotorRound(enCBC, setEn, duty, still)
  PROVE  MotorTypeOK'
<1>1. CASE Regulate(enCBC, duty, still)
  BY <1>1 DEF MotorTypeOK, Regulate, StallCount
<1>2. CASE Rest(setEn)
  BY <1>2 DEF MotorTypeOK, Rest, Enables, DutyClass
<1>3. QED
  BY <1>1, <1>2 DEF MotorRound

LEMMA TypeInit == Init => TypeOK /\ Bounds
<1>1. << >> \in Seq(Byte) /\ Len(<< >>) = 0
  BY EmptySeq
<1>2. Init => MotorTypeOK
  <2>1. 0 \in 0 .. StallLimit
    BY StallLimitAssumption
  <2>2. QED
    BY <2>1, Zenon DEF Init, MotorInit, MotorTypeOK, DutyClass
<1>3. AgeBound \in 0 .. AgeBound
  BY NanoBoardAssumption DEF AgeBound
<1>4. Init => Bounds
  BY NanoBoardAssumption DEF Init, Bounds
<1>5. Init => /\ rx \in Seq(Byte) /\ Len(rx) <= RxDepth
              /\ tx \in 0 .. TxDepth /\ avail \in 0 .. RxDepth
              /\ left \in 0 .. (VersionLen + ResponseLen)
              /\ uart_timeout \in 0 .. UartTimeout
              /\ W \in 0 .. 255
  BY <1>1, NanoBoardAssumption DEF Init
<1>6. QED
  BY <1>2, <1>3, <1>4, <1>5 DEF Init, TypeOK

LEMMA TypeNext == TypeOK /\ Bounds /\ [Next]_vars => TypeOK' /\ Bounds'
<1> SUFFICES ASSUME TypeOK, Bounds, [Next]_vars
             PROVE  TypeOK' /\ Bounds'
  OBVIOUS
<1> USE NanoBoardAssumption, StallLimitAssumption
<1>1. Len(rx) \in Nat
  BY LenProperties DEF TypeOK
<1>2. ASSUME NEW b \in Byte, LineIn(b) PROVE TypeOK' /\ Bounds'
  <2>1. rx' \in Seq(Byte) /\ Len(rx') <= RxDepth /\ Len(rx) <= Len(rx')
    BY <1>1, <1>2, AppendProperties DEF LineIn, TypeOK
  <2>2. QED
    BY <1>1, <1>2, <2>1, LenProperties
    DEF LineIn, TypeOK, MotorTypeOK, Bounds, motorVars, historyVars
<1>3. CASE LineOut
  BY <1>3 DEF LineOut, TypeOK, MotorTypeOK, Bounds, motorVars, historyVars
<1>4. CASE Poll
  BY <1>1, <1>4
  DEF Poll, TypeOK, MotorTypeOK, Bounds, motorVars, AgeBound
<1>5. CASE SeekInit
  <2>1. rx' \in Seq(Byte) /\ Len(rx') <= RxDepth
    BY <1>1, <1>5, FifoOps, LenProperties DEF SeekInit, TypeOK
  <2>2. indat' \in
          [enConnBrokenCtr : BOOLEAN, setEnMotorController : BOOLEAN]
    BY <1>5 DEF SeekInit, TypeOK
  <2>3. /\ pc' \in {"write", "control"}
        /\ connBroken' \in BOOLEAN
        /\ uart_timeout' \in {0, uart_timeout}
        /\ left' \in {0, VersionLen}
        /\ pc' = "write" => left' = VersionLen
    BY <1>5 DEF SeekInit
  <2>4. UNCHANGED << motorVars, tx, historyVars >> /\ avail' = 0
        /\ answer' = "version" /\ W' = 0
    BY <1>5 DEF SeekInit
  <2>5. QED
    BY <2>1, <2>2, <2>3, <2>4
    DEF TypeOK, MotorTypeOK, Bounds, motorVars, historyVars
<1>6. CASE TakePacket
  <2>1. rx' \in Seq(Byte) /\ Len(rx') <= RxDepth
    <3>1. PacketLen \in Nat
      BY DEF PacketLen
    <3>2. rx \in Seq(Byte) /\ Len(rx) <= RxDepth /\ RxDepth \in Nat
      BY DEF TypeOK
    <3>3. /\ Drop(rx, PacketLen) \in Seq(Byte)
          /\ Len(Drop(rx, PacketLen)) <= Len(rx)
      BY <3>1, <3>2, FifoOps
    <3>4. Len(Drop(rx, PacketLen)) \in Nat
      BY <3>3, LenProperties
    <3>5. QED
      BY <1>1, <1>6, <3>2, <3>3, <3>4 DEF TakePacket
  <2>2. W' \in 0 .. 255
    <3>1. rx \in Seq(Byte) /\ 4 \in Nat \ {0}
      BY DEF TypeOK
    <3>2. QED
      BY <1>6, <3>1, ByteRange DEF TakePacket
  <2>3. /\ indat' \in
             [enConnBrokenCtr : BOOLEAN, setEnMotorController : BOOLEAN]
        /\ connBroken' \in BOOLEAN
    BY <1>6 DEF TakePacket, PacketFlags, TimesOut
  <2>4. /\ pc' = "write" /\ left' = ResponseLen /\ answer' = "response"
        /\ uart_timeout' = 0 /\ avail' = 0 /\ age' = 0 /\ fed' = TRUE
        /\ UNCHANGED << motorVars, tx, tripped >>
    BY <1>6 DEF TakePacket
  <2>5. QED
    BY <2>1, <2>2, <2>3, <2>4
    DEF TypeOK, MotorTypeOK, Bounds, motorVars, AgeBound
<1>7. CASE AwaitPacket
  <2>1. rx' \in Seq(Byte) /\ Len(rx') <= RxDepth
    BY <1>1, <1>7, FifoOps, LenProperties DEF AwaitPacket, TypeOK
  <2>2. QED
    BY <1>7, <2>1
    DEF AwaitPacket, TypeOK, MotorTypeOK, Bounds, motorVars, historyVars,
        TimesOut, RoundTimeout
<1>8. CASE WriteByte
  <2>1. rx' \in Seq(Byte) /\ Len(rx') <= RxDepth
    BY <1>1, <1>8, FifoOps, LenProperties DEF WriteByte, TypeOK
  <2>2. QED
    BY <1>8, <2>1
    DEF WriteByte, MayWrite, LastByte, TypeOK, MotorTypeOK, Bounds, motorVars,
        historyVars
<1>9. CASE Control
  <2>1. MotorTypeOK'
    BY <1>9, MotorTypes DEF Control, TypeOK
  <2>2. tripped' \in BOOLEAN
    BY <1>9, <2>1 DEF Control, TypeOK, MotorTypeOK
  <2>3. QED
    BY <1>9, <2>1, <2>2 DEF Control, TypeOK, Bounds
<1>10. CASE UNCHANGED vars
  BY <1>10
  DEF vars, linkVars, historyVars, motorVars, TypeOK, MotorTypeOK, Bounds
<1>11. QED
  BY <1>2, <1>3, <1>4, <1>5, <1>6, <1>7, <1>8, <1>9, <1>10
  DEF Next, Loop, Line

(* Every variable keeps its type, for every timeout and FIFO depth: the    *)
(* counters of lines 154-157 and of the answers in progress stay within    *)
(* their bounds.                                                           *)
THEOREM TypeCorrect == Spec => [](TypeOK /\ Bounds)
BY TypeInit, TypeNext, PTL DEF Spec

-----------------------------------------------------------------------------
(* The dead man. *)

LEMMA SetPointAgeNext ==
  TypeOK /\ Bounds /\ SetPointAge /\ [Next]_vars => SetPointAge'
<1> SUFFICES ASSUME TypeOK, Bounds, SetPointAge, [Next]_vars
             PROVE  SetPointAge'
  OBVIOUS
<1>0. /\ UartTimeout \in Nat \ {0} /\ uart_timeout \in Nat
      /\ uart_timeout < UartTimeout
      /\ age \in Nat /\ connBroken \in BOOLEAN /\ W \in Nat
  BY NanoBoardAssumption DEF TypeOK, Bounds, AgeBound
<1>1. ASSUME NEW b \in Byte, LineIn(b) PROVE SetPointAge'
  BY <1>1 DEF LineIn, SetPointAge, historyVars
<1>2. CASE LineOut
  BY <1>2 DEF LineOut, SetPointAge, historyVars
<1>3. CASE Poll
  BY <1>0, <1>3 DEF Poll, SetPointAge, AgeBound
<1>4. CASE SeekInit
  BY <1>4 DEF SeekInit, SetPointAge
<1>5. CASE TakePacket
  BY <1>0, <1>5 DEF TakePacket, SetPointAge
<1>6. CASE AwaitPacket
  <2>1. CASE TimesOut
    <3>1. connBroken' = TRUE /\ pc' = "control" /\ age' = age /\ W' = W
      BY <1>6, <2>1 DEF AwaitPacket, historyVars
    <3>2. W # 0 => age <= uart_timeout + 1
      BY <1>6 DEF AwaitPacket, SetPointAge
    <3>3. uart_timeout + 1 <= UartTimeout
      BY <1>0
    <3>4. QED
      BY <1>0, <3>1, <3>2, <3>3 DEF SetPointAge
  <2>2. CASE ~TimesOut
    BY <1>0, <1>6, <2>2
    DEF AwaitPacket, SetPointAge, TimesOut, RoundTimeout, historyVars
  <2>3. QED
    BY <2>1, <2>2
<1>7. CASE WriteByte
  BY <1>7 DEF WriteByte, SetPointAge, historyVars
<1>8. CASE Control
  BY <1>8 DEF Control, SetPointAge
<1>9. CASE UNCHANGED vars
  BY <1>9 DEF vars, linkVars, historyVars, SetPointAge
<1>10. QED
  BY <1>1, <1>2, <1>3, <1>4, <1>5, <1>6, <1>7, <1>8, <1>9
  DEF Next, Loop, Line

(* The motor section never follows a set point older than UartTimeout      *)
(* rounds, for every timeout (Deadman of NanoBoard).                       *)
THEOREM DeadmanHolds == Spec => []Deadman
<1>1. Init => SetPointAge
  BY DEF Init, SetPointAge
<1>2. TypeOK /\ Bounds /\ SetPointAge => Deadman
  BY NanoBoardAssumption DEF TypeOK, Bounds, SetPointAge, Deadman, AgeBound
<1>3. QED
  BY <1>1, <1>2, SetPointAgeNext, TypeCorrect, PTL DEF Spec

-----------------------------------------------------------------------------
(* Power on and the latch. *)

LEMMA FirstPacketNext ==
  TypeOK /\ FirstPacket /\ [Next]_vars => FirstPacket'
<1> SUFFICES ASSUME TypeOK, FirstPacket, [Next]_vars
             PROVE  FirstPacket'
  OBVIOUS
<1>1. ASSUME NEW b \in Byte, LineIn(b) PROVE FirstPacket'
  BY <1>1 DEF LineIn, FirstPacket, historyVars, motorVars
<1>2. CASE LineOut
  BY <1>2 DEF LineOut, FirstPacket, historyVars, motorVars
<1>3. CASE Poll
  BY <1>3 DEF Poll, FirstPacket, motorVars
<1>4. CASE SeekInit
  BY <1>4 DEF SeekInit, FirstPacket, TypeOK, historyVars, motorVars
<1>5. CASE TakePacket
  BY <1>5 DEF TakePacket, FirstPacket
<1>6. CASE AwaitPacket
  BY <1>6 DEF AwaitPacket, FirstPacket, historyVars, motorVars
<1>7. CASE WriteByte
  BY <1>7 DEF WriteByte, FirstPacket, historyVars, motorVars
<1>8. CASE Control
  BY <1>8 DEF Control, FirstPacket, MotorRound, Regulate, Rest, Enables
<1>9. CASE UNCHANGED vars
  BY <1>9 DEF vars, linkVars, historyVars, motorVars, FirstPacket
<1>10. QED
  BY <1>1, <1>2, <1>3, <1>4, <1>5, <1>6, <1>7, <1>8, <1>9
  DEF Next, Loop, Line

(* No garbage of the uninitialised indat reaches the motor controller      *)
(* (NoUninitialisedRead of NanoBoard).                                     *)
THEOREM NoUninitialisedReadHolds == Spec => []NoUninitialisedRead
<1>1. Init => FirstPacket
  BY DEF Init, MotorInit, FirstPacket
<1>2. FirstPacket => NoUninitialisedRead
  BY DEF FirstPacket, NoUninitialisedRead
<1>3. QED
  BY <1>1, <1>2, FirstPacketNext, TypeCorrect, PTL DEF Spec

LEMMA LatchNext == TypeOK /\ LatchInv /\ [Next]_vars => LatchInv'
<1> SUFFICES ASSUME TypeOK, LatchInv, [Next]_vars
             PROVE  LatchInv'
  OBVIOUS
<1>1. CASE UNCHANGED << enMotorController, setEnMotorwasoff, tripped >>
  BY <1>1 DEF LatchInv
<1>2. CASE Control
  <2>1. PICK duty \in DutyClass, still \in BOOLEAN :
           MotorRound(indat.enConnBrokenCtr, indat.setEnMotorController,
                      duty, still)
    BY <1>2 DEF Control
  <2>2. tripped' = IF enMotorController THEN ~enMotorController'
                   ELSE tripped /\ indat.setEnMotorController
    BY <1>2 DEF Control
  <2>3. CASE Regulate(indat.enConnBrokenCtr, duty, still)
    BY <2>2, <2>3 DEF Regulate, LatchInv
  <2>4. CASE Rest(indat.setEnMotorController)
    BY <2>2, <2>4 DEF Rest, Enables, LatchInv
  <2>5. QED
    BY <2>1, <2>3, <2>4 DEF MotorRound
<1>3. QED
  BY <1>1, <1>2
  DEF Next, Loop, Line, LineIn, LineOut, Poll, SeekInit, TakePacket,
      AwaitPacket, WriteByte, motorVars, historyVars, linkVars, vars

(* After a stall the controller stays off until a round has seen setEn     *)
(* off, for every stall limit (TripLatch of NanoBoard).                    *)
THEOREM TripLatchHolds == Spec => []TripLatch
<1>1. Init => LatchInv
  BY DEF Init, MotorInit, LatchInv
<1>2. LatchInv => TripLatch
  BY DEF LatchInv, TripLatch
<1>3. QED
  BY <1>1, <1>2, LatchNext, TypeCorrect, PTL DEF Spec

-----------------------------------------------------------------------------

(* A packet is only ever taken out of a FIFO that holds all of it          *)
(* (PacketWhole of NanoBoard).                                             *)
THEOREM PacketWholeHolds == Spec => PacketWhole
<1>1. TypeOK /\ Bounds /\ [Next]_vars
        => [fed' # fed \/ age' < age => Len(rx) >= PacketLen]_vars
  <2> SUFFICES ASSUME TypeOK, Bounds, [Next]_vars,
                      fed' # fed \/ age' < age
               PROVE  Len(rx) >= PacketLen
    OBVIOUS
  <2>1. age \in Nat
    BY NanoBoardAssumption DEF TypeOK, AgeBound
  <2>2. TakePacket
    BY <2>1
    DEF Next, Loop, Line, LineIn, LineOut, Poll, SeekInit, AwaitPacket,
        WriteByte, Control, historyVars, vars
  <2>3. Len(rx) \in Nat /\ avail \in Nat /\ PacketLen \in Nat
    BY NanoBoardAssumption, LenProperties DEF TypeOK, PacketLen
  <2>4. QED
    BY <2>2, <2>3 DEF TakePacket, PacketReady, Bounds
<1>2. QED
  BY <1>1, TypeCorrect, PTL DEF Spec, PacketWhole
-----------------------------------------------------------------------------
(* Progress.  What the liveness properties of NanoBoard rest on, and can   *)
(* be proved without fairness: what is left to do gets less with every     *)
(* step of the program, and no step of the line makes it more.             *)

(* The steps of a round that are left until its motor section.             *)
StepsLeft ==
  CASE pc = "poll"    -> VersionLen + ResponseLen + 3
    [] pc = "link"    -> VersionLen + ResponseLen + 2
    [] pc = "write"   -> 1 + left
    [] pc = "control" -> 0

(* The k-th byte of the read FIFO is an 'I' that the search will come to.  *)
Waiting(k) ==
  connBroken /\ pc # "write" /\ k \in 1 .. Len(rx) /\ rx[k] = InitChar

(* The steps until it is found: four for each byte of the FIFO, and one    *)
(* round more when it came after the FIFO was measured.                    *)
StepsTo(k) ==
  4 * k + ( CASE pc = "poll"    -> 1
              [] pc = "link"    -> IF ByteReady THEN 0 ELSE 3
              [] pc = "control" -> 2 )

(* The motor section is at most so many steps of the program away, and the *)
(* wait for space in write_string (line 77) is over with the next byte the *)
(* line shifts out (LoopProgress of NanoBoard).                            *)
RoundShortens ==
  [][ /\ Loop /\ pc # "control" => StepsLeft' < StepsLeft
      /\ Line => StepsLeft' = StepsLeft
      /\ LineOut => MayWrite' ]_vars

(* An 'I' that waits comes nearer with every step of the program, whatever *)
(* the line brings, until it, or one before it, opens the link (lines      *)
(* 187-205; HandshakeHeard of NanoBoard).                                  *)
InitNearer ==
  [][ \A k \in 1 .. Len(rx) : Waiting(k) =>
        /\ Loop => \/ ~connBroken'
                   \/ \E j \in 1 .. k : Waiting(j)' /\ StepsTo(j)' < StepsTo(k)
        /\ Line => Waiting(k)' /\ StepsTo(k)' = StepsTo(k) ]_vars

LEMMA Counts ==
  ASSUME TypeOK
  PROVE  /\ rx \in Seq(Byte) /\ Len(rx) \in Nat /\ avail \in Nat
         /\ left \in 0 .. (VersionLen + ResponseLen) /\ tx \in 0 .. TxDepth
         /\ VersionLen \in Nat \ {0} /\ ResponseLen \in Nat \ {0}
         /\ TxDepth \in Nat \ {0}
  BY NanoBoardAssumption, LenProperties DEF TypeOK

(* The line leaves the program where it is, and adds at the end of rx.     *)
LEMMA LineSteps ==
  ASSUME TypeOK, Line
  PROVE  /\ UNCHANGED << pc, left, avail, connBroken >>
         /\ Len(rx') \in Nat /\ Len(rx') >= Len(rx)
         /\ \A k \in 1 .. Len(rx) : rx'[k] = rx[k]
<1>1. CASE LineOut
  BY <1>1, Counts DEF LineOut
<1>2. ASSUME NEW b \in Byte, LineIn(b)
      PROVE  /\ UNCHANGED << pc, left, avail, connBroken >>
             /\ Len(rx') \in Nat /\ Len(rx') >= Len(rx)
             /\ \A k \in 1 .. Len(rx) : rx'[k] = rx[k]
  <2>1. /\ Len(Append(rx, b)) = Len(rx) + 1
        /\ \A k \in 1 .. Len(rx) : Append(rx, b)[k] = rx[k]
    BY Counts, AppendProperties
  <2>2. rx' \in {rx, Append(rx, b)}
    BY <1>2 DEF LineIn
  <2>3. UNCHANGED << pc, left, avail, connBroken >>
    BY <1>2 DEF LineIn
  <2>4. QED
    BY <2>1, <2>2, <2>3, Counts
<1>3. QED
  BY <1>1, <1>2 DEF Line

(* Every round comes to its motor section: the program has at most so many *)
(* steps left before it, the line adds none, and a wait for space is over  *)
(* when a byte was shifted out (RoundShortens above, the variant behind    *)
(* LoopProgress).                                                          *)
THEOREM RoundShortensHolds == Spec => RoundShortens
<1> DEFINE Shorter == /\ Loop /\ pc # "control" => StepsLeft' < StepsLeft
                      /\ Line => StepsLeft' = StepsLeft
                      /\ LineOut => MayWrite'
<1>1. ASSUME TypeOK, Bounds, [Next]_vars PROVE [Shorter]_vars
  <2>1. ASSUME Loop, pc # "control" PROVE StepsLeft' < StepsLeft
    <3>1. CASE Poll
      BY <1>1, <3>1, Counts DEF Poll, StepsLeft
    <3>2. CASE SeekInit \/ TakePacket \/ AwaitPacket
      <4>1. /\ pc = "link" /\ pc' \in {"write", "control"}
            /\ pc' = "write" => left' \in {VersionLen, ResponseLen}
        BY <3>2 DEF SeekInit, TakePacket, AwaitPacket
      <4>2. QED
        BY <1>1, <4>1, Counts DEF StepsLeft
    <3>3. CASE WriteByte
      <4>1. /\ pc = "write" /\ left' = left - 1
            /\ pc' = IF left = 1 THEN "control" ELSE "write"
        BY <3>3 DEF WriteByte, LastByte
      <4>2. left > 0
        BY <4>1, <1>1 DEF Bounds
      <4>3. QED
        BY <1>1, <4>1, <4>2, Counts DEF StepsLeft
    <3>4. QED
      BY <2>1, <3>1, <3>2, <3>3 DEF Loop, Control
  <2>2. Line => StepsLeft' = StepsLeft
    BY <1>1, LineSteps DEF StepsLeft
  <2>3. LineOut => MayWrite'
    BY <1>1, Counts DEF LineOut, MayWrite
  <2>4. QED
    BY <2>1, <2>2, <2>3
<1>2. QED
  BY <1>1, TypeCorrect, PTL DEF Spec, RoundShortens

(* A waiting 'I' is at most StepsTo steps of the program from being found, *)
(* whatever lies before it and whatever the line does (InitNearer above,   *)
(* the variant behind HandshakeHeard).                                     *)
THEOREM InitNearerHolds == Spec => InitNearer
<1> DEFINE Nearer(k) ==
             Waiting(k) =>
               /\ Loop => \/ ~connBroken'
                          \/ \E j \in 1 .. k :
                               Waiting(j)' /\ StepsTo(j)' < StepsTo(k)
               /\ Line => Waiting(k)' /\ StepsTo(k)' = StepsTo(k)
<1>1. ASSUME TypeOK, Bounds, [Next]_vars, NEW k \in 1 .. Len(rx)
      PROVE  Nearer(k)
  <2> SUFFICES ASSUME Waiting(k)
               PROVE  /\ Loop => \/ ~connBroken'
                                 \/ \E j \in 1 .. k :
                                      Waiting(j)' /\ StepsTo(j)' < StepsTo(k)
                      /\ Line => Waiting(k)' /\ StepsTo(k)' = StepsTo(k)
    OBVIOUS
  <2>1. /\ connBroken /\ pc # "write" /\ rx[k] = InitChar /\ k \in Nat
        /\ k >= 1 /\ k <= Len(rx) /\ k \in 1 .. k
    BY <1>1, Counts DEF Waiting
  <2>2. CASE Poll
    <3>1. Waiting(k)'
      BY <1>1, <2>1, <2>2 DEF Poll, Waiting
    <3>2. ByteReady'
      BY <1>1, <2>1, <2>2, Counts DEF Poll, ByteReady
    <3>3. StepsTo(k)' < StepsTo(k)
      BY <2>1, <2>2, <3>2 DEF Poll, StepsTo
    <3>4. QED
      BY <2>1, <2>2, <3>1, <3>3, <1>1, LineSteps DEF Poll
  <2>3. CASE SeekInit
    <3>1. pc = "link" /\ ~Line
      BY <1>1, <2>3, LineSteps DEF SeekInit
    <3>2. SUFFICES ASSUME connBroken'
                   PROVE  \E j \in 1 .. k :
                            Waiting(j)' /\ StepsTo(j)' < StepsTo(k)
      BY <3>1
    <3>3. /\ pc' = "control" /\ ~(ByteReady /\ ByteAt(1) = InitChar)
          /\ rx' = IF ByteReady THEN Popped(rx) ELSE rx
      BY <2>3, <3>2 DEF SeekInit
    <3>4. CASE ByteReady
      <4>1. rx # << >> /\ rx' = Tail(rx) /\ rx[1] # InitChar
        <5>1. Len(rx) > 0 /\ rx # << >>
          BY <1>1, <2>1, Counts, EmptySeq
        <5>2. QED
          BY <3>3, <3>4, <5>1, <2>1 DEF Popped, ByteAt
      <4>2. k > 1
        BY <2>1, <4>1
      <4>3. /\ Len(rx') = Len(rx) - 1
            /\ rx'[k - 1] = rx[k]
        <5>1. Len(Tail(rx)) = Len(rx) - 1 /\ k - 1 \in 1 .. Len(rx) - 1
          BY <1>1, <2>1, <4>1, <4>2, Counts, HeadTailProperties
        <5>2. Tail(rx)[k - 1] = rx[k - 1 + 1]
          BY <1>1, <4>1, <5>1, Counts, HeadTailProperties
        <5>3. QED
          BY <2>1, <4>1, <5>1, <5>2
      <4>4. k - 1 \in 1 .. k /\ k - 1 \in 1 .. Len(rx')
        BY <1>1, <2>1, <4>2, <4>3, Counts
      <4>5. Waiting(k - 1)'
        BY <2>1, <3>2, <3>3, <4>3, <4>4 DEF Waiting
      <4>6. StepsTo(k - 1)' < StepsTo(k)
        BY <2>1, <3>1, <3>3, <3>4 DEF StepsTo
      <4>7. QED
        BY <4>4, <4>5, <4>6
    <3>5. CASE ~ByteReady
      <4>1. Waiting(k)'
        BY <1>1, <2>1, <3>2, <3>3, <3>5 DEF Waiting
      <4>2. StepsTo(k)' < StepsTo(k)
        BY <2>1, <3>1, <3>3, <3>5 DEF StepsTo
      <4>3. QED
        BY <2>1, <4>1, <4>2
    <3>6. QED
      BY <3>4, <3>5
  <2>4. CASE Control
    <3>1. pc = "control" /\ pc' = "poll" /\ UNCHANGED << rx, connBroken >>
      BY <2>4 DEF Control
    <3>2. Waiting(k)' /\ StepsTo(k)' < StepsTo(k)
      BY <1>1, <2>1, <3>1 DEF Waiting, StepsTo
    <3>3. QED
      BY <1>1, <2>1, <3>1, <3>2, LineSteps
  <2>5. CASE Line
    <3>1. Waiting(k)'
      BY <1>1, <2>1, <2>5, LineSteps, Counts DEF Waiting
    <3>2. StepsTo(k)' = StepsTo(k)
      BY <1>1, <2>5, LineSteps DEF StepsTo, ByteReady
    <3>3. ~Loop
      BY <1>1, <2>1, <2>5, LineSteps
      DEF Loop, Poll, SeekInit, TakePacket, AwaitPacket, WriteByte, Control
    <3>4. QED
      BY <3>1, <3>2, <3>3
  <2>6. QED
    BY <1>1, <2>1, <2>2, <2>3, <2>4, <2>5
    DEF Loop, TakePacket, AwaitPacket, WriteByte
<1>2. TypeOK /\ Bounds /\ [Next]_vars => [\A k \in 1 .. Len(rx) : Nearer(k)]_vars
  BY <1>1
<1>3. QED
  BY <1>2, TypeCorrect, PTL DEF Spec, InitNearer
=============================================================================
