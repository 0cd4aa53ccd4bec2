---------------------------- MODULE CarLinkProofs ----------------------------
(***************************************************************************)
(* Proofs about CarLink.  To the board the rest of the link is a line that *)
(* brings any bytes, and so what NanoBoardProofs shows for every line      *)
(* holds in the composition.  What the server can read is a sequence of    *)
(* whole answers as long as nothing garbled it.                            *)
(***************************************************************************)
EXTENDS CarLink, NanoBoardProofs

(* SubSeq from n + 1 on, element by element. *)
LEMMA AfterElements ==
  ASSUME NEW S, NEW s \in Seq(S), NEW n \in 0 .. Len(s)
  PROVE  LET r == SubSeq(s, n + 1, Len(s))
         IN  /\ r \in Seq(S) /\ Len(r) = Len(s) - n
             /\ \A k \in 1 .. (Len(s) - n) : r[k] = s[k + n]
<1> DEFINE r == SubSeq(s, n + 1, Len(s))
<1>1. Len(s) \in Nat
  BY LenProperties
<1>2. CASE n = Len(s)
  <2>1. r = << >>
    BY <1>1, <1>2, SubSeqProperties
  <2>2. << >> \in Seq(S) /\ Len(<< >>) = 0
    BY EmptySeq
  <2>3. QED
    BY <1>1, <1>2, <2>1, <2>2
<1>3. CASE n < Len(s)
  BY <1>1, <1>3, SubSeqProperties
<1>4. QED
  BY <1>1, <1>2, <1>3

-----------------------------------------------------------------------------
(* The board. *)

LEMMA LineInStep == ASSUME NEW b \in Byte, LineIn(b) PROVE Next
  BY DEF Next, Line

(* Every step of the link is one of the board or leaves the board alone.   *)
LEMMA BoardSteps ==
  ASSUME LinkTypeOK, [LinkNext]_linkAll
  PROVE  [Next]_vars
<1>1. CASE BoardStep
  BY <1>1 DEF BoardStep, Next, Loop
<1>2. CASE BoardControls
  BY <1>2 DEF BoardControls, Next, Loop
<1>3. CASE BoardWrites
  BY <1>3 DEF BoardWrites, Next, Loop
<1>4. CASE ToBoard
  <2>1. Head(down) \in Byte
    BY <1>4, HeadTailProperties DEF ToBoard, LinkTypeOK
  <2>2. QED
    BY <1>4, <2>1, LineInStep DEF ToBoard
<1>5. CASE FromBoard
  BY <1>5 DEF FromBoard, Next, Line
<1>6. ASSUME NEW n, Recv(n) PROVE UNCHANGED vars
  BY <1>6
  DEF Recv, OnFrame, OnVersion, OnEcho, OnWrongVersion, OnWrongData,
      ToNobody, Reads
<1>7. CASE Watch
  BY <1>7 DEF Watch, GiveUp
<1>8. CASE Reconnect
  BY <1>8 DEF Reconnect
<1>9. CASE Fault
  <2>1. CASE LoseDown
    BY <2>1 DEF LoseDown
  <2>2. CASE LoseUp
    BY <2>2 DEF LoseUp, Next, Line
  <2>3. CASE SplitUp
    BY <1>6, <2>3 DEF SplitUp
  <2>4. CASE Late
    BY <2>4 DEF Late, Next, Loop
  <2>5. CASE Deaf
    BY <2>5 DEF Deaf, GiveUp
  <2>6. QED
    BY <1>9, <2>1, <2>2, <2>3, <2>4, <2>5 DEF Fault
<1>10. CASE ServerRecv
  BY <1>6, <1>10 DEF ServerRecv
<1>11. CASE UNCHANGED linkAll
  BY <1>11 DEF linkAll
<1>12. QED
  BY <1>1, <1>2, <1>3, <1>4, <1>5, <1>7, <1>8, <1>9, <1>10, <1>11
  DEF LinkNext

-----------------------------------------------------------------------------
(* Types. *)

LEMMA LinkFacts ==
  /\ Payload \subseteq Byte \X Byte \X Byte
  /\ MaxFaults \in Nat /\ MaxDown \in Nat /\ MaxDown >= 1
  /\ InitChar \in Byte /\ StartChar \in Byte
  /\ VersionLen \in Nat \ {0} /\ ResponseLen \in Nat \ {0}
  /\ TxDepth \in Nat \ {0}
  BY CarLinkAssumption, NanoBoardAssumption DEF PacketLen

LEMMA SayTypes ==
  ASSUME down \in Seq(Byte), NEW bytes \in Seq(Byte), Say(bytes)
  PROVE  down' \in Seq(Byte) /\ Len(down') <= MaxDown
  BY ConcatProperties DEF Say

LEMMA PacketBytes ==
  ASSUME NEW p \in Payload
  PROVE  << StartChar, p[1], p[2], p[3] >> \in Seq(Byte)
  BY LinkFacts

LEMMA PacketSent ==
  ASSUME down \in Seq(Byte), SendPacket
  PROVE  down' \in Seq(Byte) /\ Len(down') <= MaxDown
<1>1. PICK p \in Payload : Say(<< StartChar, p[1], p[2], p[3] >>)
  BY DEF SendPacket
<1>2. QED
  BY <1>1, PacketBytes, SayTypes

(* What a recv does, whatever the server makes of it. *)
LEMMA RecvTypes ==
  ASSUME LinkTypeOK, NEW n \in 1 .. (Len(wire) - tx), Recv(n)
  PROVE  /\ wire' = After(n) /\ UNCHANGED vars
         /\ down' \in Seq(Byte) /\ Len(down') <= MaxDown
         /\ run' \in BOOLEAN /\ conn' \in BOOLEAN /\ init' \in BOOLEAN
         /\ up' \in BOOLEAN /\ due' \in BOOLEAN
         /\ wire' \in Seq(Tag) /\ tx' <= Len(wire')
<1>1. wire' = After(n) /\ UNCHANGED vars
  BY DEF Recv, OnFrame, OnVersion, OnEcho, OnWrongVersion, OnWrongData,
         ToNobody, Reads
<1>2. down' \in Seq(Byte) /\ Len(down') <= MaxDown
  <2>1. SendPacket \/ down' = down
    BY DEF Recv, OnFrame, OnVersion, OnEcho, OnWrongVersion, OnWrongData,
           ToNobody, serverVars
  <2>2. QED
    BY <2>1, PacketSent DEF LinkTypeOK
<1>3. /\ run' \in BOOLEAN /\ conn' \in BOOLEAN /\ init' \in BOOLEAN
      /\ up' \in BOOLEAN /\ due' \in BOOLEAN
  <2>1. /\ run' \in {run, FALSE} /\ conn' \in {conn, FALSE}
        /\ init' \in {init, FALSE} /\ up' \in {up, TRUE, FALSE}
        /\ due' \in {due, ~up, FALSE}
    BY DEF Recv, OnFrame, OnVersion, OnEcho, OnWrongVersion, OnWrongData,
           ToNobody, serverVars
  <2>2. QED
    BY <2>1 DEF LinkTypeOK
<1>4. wire \in Seq(Tag) /\ Len(wire) \in Nat /\ tx \in Nat /\ tx <= Len(wire)
  BY LinkFacts, LenProperties DEF LinkTypeOK, TypeOK
<1>5. tx' = tx
  BY <1>1 DEF vars, linkVars
<1>6. wire' \in Seq(Tag) /\ Len(wire') = Len(wire) - n
  BY <1>1, <1>4, AfterElements DEF After
<1>7. QED
  BY <1>1, <1>2, <1>3, <1>4, <1>5, <1>6

(* Taking one byte out. *)
LEMMA WithoutTypes ==
  ASSUME NEW S, NEW s \in Seq(S), NEW k \in 1 .. Len(s)
  PROVE  Without(s, k) \in Seq(S) /\ Len(Without(s, k)) = Len(s) - 1
<1> DEFINE a == SubSeq(s, 1, k - 1)
           b == SubSeq(s, k + 1, Len(s))
<1>1. Len(s) \in Nat
  BY LenProperties
<1>2. b \in Seq(S) /\ Len(b) = Len(s) - k
  BY <1>1, AfterElements
<1>3. a \in Seq(S) /\ Len(a) = k - 1
  <2>1. CASE k = 1
    BY <1>1, <2>1, SubSeqProperties, EmptySeq
  <2>2. CASE k > 1
    BY <1>1, <2>2, SubSeqProperties
  <2>3. QED
    BY <2>1, <2>2
<1>4. Without(s, k) = a \o b
  BY DEF Without
<1> HIDE DEF a, b
<1>5. a \o b \in Seq(S) /\ Len(a \o b) = Len(a) + Len(b)
  BY <1>2, <1>3, ConcatProperties
<1>6. Len(a) + Len(b) = Len(s) - 1
  BY <1>1, <1>2, <1>3
<1>7. QED
  BY <1>4, <1>5, <1>6

LEMMA LinkTypeInit == LinkInit => LinkTypeOK /\ Bounds
<1> SUFFICES ASSUME LinkInit PROVE LinkTypeOK /\ Bounds
  OBVIOUS
<1>1. TypeOK /\ Bounds /\ tx = 0
  BY TypeInit DEF LinkInit, Init
<1>2. << InitChar >> \in Seq(Byte) /\ Len(<< InitChar >>) = 1
  BY LinkFacts
<1>3. << >> \in Seq(Tag) /\ Len(<< >>) = 0
  BY EmptySeq
<1>4. down \in Seq(Byte) /\ Len(down) <= MaxDown
  BY <1>2, LinkFacts DEF LinkInit
<1>5. wire \in Seq(Tag) /\ tx <= Len(wire)
  BY <1>1, <1>3 DEF LinkInit
<1>6. faults \in 0 .. MaxFaults
  BY LinkFacts DEF LinkInit
<1>7. QED
  BY <1>1, <1>4, <1>5, <1>6 DEF LinkInit, LinkTypeOK

LEMMA LinkTypeNext ==
  LinkTypeOK /\ Bounds /\ [LinkNext]_linkAll => LinkTypeOK' /\ Bounds'
<1> SUFFICES ASSUME LinkTypeOK, Bounds, [LinkNext]_linkAll
             PROVE  LinkTypeOK' /\ Bounds'
  OBVIOUS
<1>1. TypeOK' /\ Bounds'
  BY BoardSteps, TypeNext DEF LinkTypeOK
<1>2. /\ wire \in Seq(Tag) /\ Len(wire) \in Nat
      /\ tx \in Nat /\ tx' \in Nat /\ tx <= Len(wire)
      /\ down \in Seq(Byte) /\ Len(down) <= MaxDown
      /\ faults \in 0 .. MaxFaults
      /\ run \in BOOLEAN /\ conn \in BOOLEAN /\ init \in BOOLEAN
      /\ up \in BOOLEAN /\ due \in BOOLEAN
  BY <1>1, LinkFacts, LenProperties DEF LinkTypeOK, TypeOK
<1>3. missed' \in BOOLEAN /\ garbled' \in BOOLEAN
  BY Zenon
  DEF LinkTypeOK, LinkNext, BoardStep, BoardControls, BoardWrites, ToBoard,
      FromBoard, ServerRecv, Watch, Reconnect, Fault, LoseDown, LoseUp,
      SplitUp, Late, Deaf, mishaps, linkAll
<1>4. faults' \in 0 .. MaxFaults
  <2>1. \/ faults' = faults
        \/ faults > 0 /\ faults' = faults - 1
    BY DEF LinkNext, BoardStep, BoardControls, BoardWrites, ToBoard,
           FromBoard, ServerRecv, Watch, Reconnect, Fault, lineVars, linkAll
  <2>2. QED
    BY <1>2, <2>1, LinkFacts
<1> DEFINE Others == /\ down' \in Seq(Byte) /\ Len(down') <= MaxDown
                     /\ wire' \in Seq(Tag) /\ tx' <= Len(wire')
                     /\ run' \in BOOLEAN /\ conn' \in BOOLEAN
                     /\ init' \in BOOLEAN /\ up' \in BOOLEAN
                     /\ due' \in BOOLEAN
<1>5. Others
  <2>1. CASE BoardStep \/ BoardControls
    <3>1. UNCHANGED << tx, serverVars, down, wire >>
      BY <2>1
      DEF BoardStep, BoardControls, Poll, SeekInit, TakePacket, AwaitPacket,
          Control, serverVars, lineVars
    <3>2. QED
      BY <1>2, <3>1 DEF serverVars
  <2>2. CASE BoardWrites
    <3>1. /\ UNCHANGED << serverVars, down >>
          /\ wire' = IF tx < TxDepth THEN Append(wire, << answer, left >>)
                                     ELSE wire
          /\ tx' = IF tx < TxDepth THEN tx + 1 ELSE tx
          /\ pc = "write"
      BY <2>2 DEF BoardWrites, WriteByte, serverVars
    <3>2. << answer, left >> \in Tag
      BY <3>1, LinkFacts DEF LinkTypeOK, TypeOK, Bounds, Tag
    <3>3. /\ Append(wire, << answer, left >>) \in Seq(Tag)
          /\ Len(Append(wire, << answer, left >>)) = Len(wire) + 1
      BY <1>2, <3>2, AppendProperties
    <3>4. QED
      BY <1>2, <3>1, <3>3 DEF serverVars
  <2>3. CASE ToBoard
    <3>1. /\ UNCHANGED << tx, serverVars, wire >>
          /\ down # << >> /\ down' = Tail(down)
      BY <2>3 DEF ToBoard, LineIn, serverVars
    <3>2. Tail(down) \in Seq(Byte) /\ Len(Tail(down)) = Len(down) - 1
      BY <1>2, <3>1, HeadTailProperties
    <3>3. Len(down) \in Nat
      BY <1>2, LenProperties
    <3>4. QED
      BY <1>2, <3>1, <3>2, <3>3, LinkFacts DEF serverVars
  <2>4. CASE FromBoard
    BY <1>2, <2>4 DEF FromBoard, LineOut, serverVars, lineVars
  <2>5. ASSUME NEW n \in 1 .. (Len(wire) - tx), Recv(n) PROVE Others
    BY <2>5, RecvTypes
  <2>6. CASE ServerRecv
    BY <2>5, <2>6 DEF ServerRecv, Packed
  <2>7. CASE Watch \/ Deaf
    <3>1. /\ UNCHANGED << tx, run, init, down, wire >>
          /\ conn' = FALSE /\ up' = FALSE /\ due' = FALSE
      BY <2>7 DEF Watch, Deaf, GiveUp, vars, linkVars
    <3>2. QED
      BY <1>2, <3>1
  <2>8. CASE Reconnect
    <3>1. /\ UNCHANGED << tx, run, up >> /\ conn' = TRUE /\ init' = TRUE
          /\ due' = FALSE /\ Say(<< InitChar >>)
      BY <2>8 DEF Reconnect, vars, linkVars
    <3>2. << InitChar >> \in Seq(Byte)
      BY LinkFacts
    <3>3. down' \in Seq(Byte) /\ Len(down') <= MaxDown
      BY <1>2, <3>1, <3>2, SayTypes
    <3>4. wire' \in Seq(Tag) /\ tx' <= Len(wire')
      <4>1. CASE wire' = wire
        BY <1>2, <3>1, <4>1
      <4>2. ASSUME NEW n \in Packed, wire' = After(n)
            PROVE  wire' \in Seq(Tag) /\ Len(wire') = Len(wire) - n
        BY <1>2, <4>2, AfterElements DEF After, Packed
      <4>3. QED
        BY <1>2, <2>8, <3>1, <4>1, <4>2 DEF Reconnect, Unread, Packed
    <3>5. QED
      BY <1>2, <3>1, <3>3, <3>4
  <2>9. CASE LoseDown
    <3>1. /\ UNCHANGED << tx, serverVars, wire >>
          /\ down # << >> /\ down' = Tail(down)
      BY <2>9 DEF LoseDown, serverVars, vars, linkVars
    <3>2. Tail(down) \in Seq(Byte) /\ Len(Tail(down)) = Len(down) - 1
      BY <1>2, <3>1, HeadTailProperties
    <3>3. Len(down) \in Nat
      BY <1>2, LenProperties
    <3>4. QED
      BY <1>2, <3>1, <3>2, <3>3, LinkFacts DEF serverVars
  <2>10. CASE LoseUp
    <3>1. /\ UNCHANGED << serverVars, down >>
          /\ tx > 0 /\ tx' = tx - 1
          /\ wire' = Without(wire, Len(wire) - tx + 1)
      BY <2>10 DEF LoseUp, LineOut, serverVars
    <3>2. Len(wire) - tx + 1 \in 1 .. Len(wire)
      BY <1>2, <3>1
    <3>3. QED
      BY <1>2, <3>1, <3>2, WithoutTypes DEF serverVars
  <2>11. CASE SplitUp
    BY <2>5, <2>11 DEF SplitUp
  <2>12. CASE Late
    <3>1. UNCHANGED << tx, serverVars, down, wire >>
      BY <2>12 DEF Late, Control, serverVars
    <3>2. QED
      BY <1>2, <3>1 DEF serverVars
  <2>13. CASE UNCHANGED linkAll
    <3>1. UNCHANGED << tx, serverVars, down, wire >>
      BY <2>13 DEF linkAll, vars, linkVars, serverVars, lineVars
    <3>2. QED
      BY <1>2, <3>1 DEF serverVars
  <2>14. QED
    BY <2>1, <2>2, <2>3, <2>4, <2>6, <2>7, <2>8, <2>9, <2>10, <2>11, <2>12,
       <2>13 DEF LinkNext, Fault
<1>6. QED
  BY <1>1, <1>3, <1>4, <1>5 DEF LinkTypeOK

(* Type correctness of the whole link, for every length of the answers,    *)
(* depth of the FIFOs and number of faults.                                *)
THEOREM LinkTypeCorrect == LinkSpec => [](LinkTypeOK /\ Bounds)
BY LinkTypeInit, LinkTypeNext, PTL DEF LinkSpec

(* In the composition the board is the board of NanoBoard: the server, the *)
(* converter, TCP and all faults make a line as NanoBoard allows it.       *)
THEOREM Refinement == LinkSpec => Spec
<1>1. LinkInit => Init
  BY DEF LinkInit
<1>2. LinkTypeOK /\ [LinkNext]_linkAll => [Next]_vars
  BY BoardSteps
<1>3. QED
  BY <1>1, <1>2, LinkTypeCorrect, PTL DEF LinkSpec, Spec

(* The dead man, the latch and the rest of the board's safety hold beside  *)
(* the server, with every fault of the link.                               *)
THEOREM BoardSafe ==
  LinkSpec => [](Deadman /\ NoUninitialisedRead /\ TripLatch)
BY Refinement, DeadmanHolds, NoUninitialisedReadHolds, TripLatchHolds, PTL

-----------------------------------------------------------------------------
(* Set points.  The bytes the board has still to read, in its FIFO and on  *)
(* their way, and where the set points are among them.                     *)

ToRead  == Len(rx) + Len(down)
Read(k) == IF k <= Len(rx) THEN rx[k] ELSE down[k - Len(rx)]

SetPoints == {p[3] : p \in Payload}

(* Every 'S' is followed by the rest of its packet. *)
Framed ==
  \A k \in 1 .. ToRead :
    Read(k) = StartChar => k + 3 <= ToRead /\ Read(k + 3) \in SetPoints

AsSentInv == ~missed => W \in {0} \cup SetPoints /\ Framed

NoStartByte ==
  \A p \in Payload : p[1] # StartChar /\ p[2] # StartChar /\ p[3] # StartChar

LEMMA FifoLengths ==
  ASSUME LinkTypeOK
  PROVE  /\ rx \in Seq(Byte) /\ Len(rx) \in Nat
         /\ down \in Seq(Byte) /\ Len(down) \in Nat
  BY LenProperties DEF LinkTypeOK, TypeOK

(* Taking bytes from the front keeps what is left framed. *)
LEMMA FramedAfter ==
  ASSUME LinkTypeOK, Framed, down' = down, NEW n \in 0 .. Len(rx),
         Len(rx') = Len(rx) - n,
         \A k \in 1 .. (Len(rx) - n) : rx'[k] = rx[k + n]
  PROVE  Framed'
<1>1. ToRead' = ToRead - n /\ ToRead \in Nat
  BY FifoLengths DEF ToRead
<1>2. ASSUME NEW k \in Nat \ {0} PROVE Read(k)' = Read(k + n)
  <2>1. CASE k <= Len(rx')
    BY <2>1, FifoLengths DEF Read
  <2>2. CASE ~(k <= Len(rx'))
    <3>1. k - Len(rx') = k + n - Len(rx) /\ ~(k + n <= Len(rx))
      BY <2>2, FifoLengths
    <3>2. QED
      BY <2>2, <3>1 DEF Read
  <2>3. QED
    BY <2>1, <2>2
<1>3. ASSUME NEW k \in 1 .. ToRead', Read(k)' = StartChar
      PROVE  k + 3 <= ToRead' /\ Read(k + 3)' \in SetPoints
  <2>1. k \in Nat \ {0} /\ k + 3 \in Nat \ {0} /\ k + n \in 1 .. ToRead
    BY <1>1, FifoLengths
  <2>2. Read(k + n) = StartChar
    BY <1>2, <1>3, <2>1
  <2>3. k + n + 3 <= ToRead /\ Read(k + n + 3) \in SetPoints
    BY <2>1, <2>2 DEF Framed
  <2>4. Read(k + 3)' = Read(k + 3 + n) /\ k + 3 + n = k + n + 3
    BY <1>2, <2>1, FifoLengths
  <2>5. QED
    BY <1>1, <2>1, <2>3, <2>4
<1>4. QED
  BY <1>3 DEF Framed, SetPoints

LEMMA PoppedElements ==
  ASSUME LinkTypeOK
  PROVE  \E n \in 0 .. Len(rx) :
           /\ Len(Popped(rx)) = Len(rx) - n
           /\ \A k \in 1 .. (Len(rx) - n) : Popped(rx)[k] = rx[k + n]
<1>1. CASE rx = << >>
  BY <1>1, EmptySeq DEF Popped
<1>2. CASE rx # << >>
  <2>1. Popped(rx) = Tail(rx) /\ Len(rx) >= 1
    BY <1>2, FifoLengths, EmptySeq DEF Popped
  <2>2. /\ Len(Tail(rx)) = Len(rx) - 1
        /\ \A k \in 1 .. (Len(rx) - 1) : Tail(rx)[k] = rx[k + 1]
    BY <1>2, <2>1, FifoLengths, HeadTailProperties
  <2>3. QED
    BY <2>1, <2>2, FifoLengths
<1>3. QED
  BY <1>1, <1>2

LEMMA DropElements ==
  ASSUME LinkTypeOK, Len(rx) >= PacketLen
  PROVE  /\ Len(Drop(rx, PacketLen)) = Len(rx) - PacketLen
         /\ \A k \in 1 .. (Len(rx) - PacketLen) :
              Drop(rx, PacketLen)[k] = rx[k + PacketLen]
<1>1. PacketLen \in 0 .. Len(rx)
  BY FifoLengths DEF PacketLen
<1>2. CASE PacketLen < Len(rx)
  BY <1>1, <1>2, FifoLengths, AfterElements DEF Drop
<1>3. CASE PacketLen = Len(rx)
  BY <1>1, <1>3, FifoLengths, EmptySeq DEF Drop
<1>4. QED
  BY <1>1, <1>2, <1>3, FifoLengths

(* What the server adds at the end is framed. *)
LEMMA FramedSaid ==
  ASSUME NoStartByte, LinkTypeOK, Framed, rx' = rx,
         \/ Say(<< InitChar >>)
         \/ SendPacket
  PROVE  Framed'
<1>1. PICK b \in Seq(Byte) :
         /\ down' = down \o b /\ Len(b) \in Nat
         /\ \A k \in 1 .. Len(b) :
              b[k] = StartChar => k + 3 <= Len(b) /\ b[k + 3] \in SetPoints
  <2>1. CASE Say(<< InitChar >>)
    <3>1. << InitChar >> \in Seq(Byte)
      BY LinkFacts
    <3>2. InitChar # StartChar
      BY DEF InitChar, StartChar
    <3>3. \A k \in 1 .. Len(<< InitChar >>) : << InitChar >>[k] # StartChar
      BY <3>2
    <3>4. QED
      BY <2>1, <3>1, <3>3, LenProperties DEF Say
  <2>2. CASE SendPacket
    <3>1. PICK p \in Payload : Say(<< StartChar, p[1], p[2], p[3] >>)
      BY <2>2 DEF SendPacket
    <3> DEFINE b == << StartChar, p[1], p[2], p[3] >>
    <3>2. b \in Seq(Byte) /\ Len(b) = 4
      BY PacketBytes
    <3>3. \A k \in 1 .. 4 : b[k] = StartChar => k = 1
      BY DEF NoStartByte
    <3>4. b[4] \in SetPoints
      BY DEF SetPoints
    <3>5. down' = down \o b
      BY <3>1 DEF Say
    <3>6. ASSUME NEW k \in 1 .. Len(b), b[k] = StartChar
          PROVE  k + 3 <= Len(b) /\ b[k + 3] \in SetPoints
      <4>1. k = 1
        BY <3>2, <3>3, <3>6
      <4>2. QED
        BY <3>2, <3>4, <4>1
    <3> HIDE DEF b
    <3>7. Len(b) \in Nat
      BY <3>2
    <3>8. QED
      BY <3>2, <3>5, <3>6, <3>7
  <2>3. QED
    BY <2>1, <2>2
<1>2. /\ Len(down') = Len(down) + Len(b)
      /\ \A k \in 1 .. Len(down) : down'[k] = down[k]
      /\ \A k \in 1 .. Len(b) : down'[Len(down) + k] = b[k]
  BY <1>1, FifoLengths, ConcatProperties
<1>3. ToRead' = ToRead + Len(b) /\ ToRead \in Nat
  BY <1>1, <1>2, FifoLengths DEF ToRead
<1>4. ASSUME NEW k \in 1 .. ToRead PROVE Read(k)' = Read(k)
  <2>1. CASE k <= Len(rx)
    BY <2>1 DEF Read
  <2>2. CASE ~(k <= Len(rx))
    <3>1. k - Len(rx) \in 1 .. Len(down)
      BY <2>2, FifoLengths DEF ToRead
    <3>2. QED
      BY <1>2, <2>2, <3>1 DEF Read
  <2>3. QED
    BY <2>1, <2>2
<1>5. ASSUME NEW j \in 1 .. Len(b), NEW k \in Nat, k = ToRead + j
      PROVE  Read(k)' = b[j]
  <2>1. k = Len(rx) + Len(down) + j
    BY <1>5 DEF ToRead
  <2>2. ~(k <= Len(rx)) /\ k - Len(rx) = Len(down) + j
    BY <1>1, <2>1, FifoLengths
  <2>3. Read(k)' = down'[Len(down) + j]
    BY <2>2 DEF Read
  <2>4. QED
    BY <1>2, <2>3
<1>6. ASSUME NEW k \in 1 .. ToRead', Read(k)' = StartChar
      PROVE  k + 3 <= ToRead' /\ Read(k + 3)' \in SetPoints
  <2>1. CASE k <= ToRead
    <3>1. k \in 1 .. ToRead
      BY <1>3, <2>1
    <3>2. k + 3 <= ToRead /\ Read(k + 3) \in SetPoints
      BY <1>4, <1>6, <3>1 DEF Framed
    <3>3. k + 3 \in 1 .. ToRead
      BY <1>3, <3>1, <3>2
    <3>4. QED
      BY <1>1, <1>3, <1>4, <3>2, <3>3
  <2>2. CASE k > ToRead
    <3>1. PICK j \in 1 .. Len(b) : k = ToRead + j
      <4>1. k - ToRead \in 1 .. Len(b) /\ k = ToRead + (k - ToRead)
        BY <1>1, <1>3, <2>2
      <4>2. QED
        BY <4>1
    <3>2. j + 3 <= Len(b) /\ b[j + 3] \in SetPoints
      <4>1. k \in Nat
        BY <1>1, <1>3
      <4>2. b[j] = StartChar
        BY <1>5, <1>6, <3>1, <4>1
      <4>3. QED
        BY <1>1, <4>2
    <3>3. /\ j + 3 \in 1 .. Len(b) /\ k + 3 = ToRead + (j + 3)
          /\ k + 3 \in Nat
      BY <1>1, <1>3, <3>1, <3>2
    <3>4. Read(k + 3)' = b[j + 3]
      BY <1>5, <3>3
    <3>5. QED
      BY <1>1, <1>3, <3>1, <3>2, <3>4
  <2>3. QED
    BY <1>1, <1>3, <2>1, <2>2
<1>7. QED
  BY <1>6 DEF Framed, SetPoints

LEMMA AsSentSame ==
  ASSUME AsSentInv, rx' = rx, down' = down, W' = W, missed' = missed
  PROVE  AsSentInv'
  BY DEF AsSentInv, Framed, ToRead, Read, SetPoints

LEMMA AsSentPopped ==
  ASSUME LinkTypeOK, AsSentInv, down' = down, missed' = missed,
         W' \in {0, W}, rx' \in {rx, Popped(rx)}
  PROVE  AsSentInv'
<1>1. SUFFICES ASSUME ~missed PROVE W' \in {0} \cup SetPoints /\ Framed'
  BY DEF AsSentInv, SetPoints
<1>2. W' \in {0} \cup SetPoints /\ Framed
  BY <1>1 DEF AsSentInv
<1>3. PICK n \in 0 .. Len(rx) :
         /\ Len(rx') = Len(rx) - n
         /\ \A k \in 1 .. (Len(rx) - n) : rx'[k] = rx[k + n]
  <2>1. CASE rx' = Popped(rx)
    BY <2>1, PoppedElements
  <2>2. CASE rx' = rx
    <3>1. 0 \in 0 .. Len(rx) /\ Len(rx') = Len(rx) - 0
      BY <2>2, FifoLengths
    <3>2. \A k \in 1 .. (Len(rx) - 0) : rx'[k] = rx[k + 0]
      BY <2>2, FifoLengths
    <3>3. QED
      BY <3>1, <3>2
  <2>3. QED
    BY <2>1, <2>2
<1>4. Framed'
  BY <1>2, <1>3, FramedAfter
<1>5. QED
  BY <1>2, <1>4

LEMMA AsSentNext ==
  ASSUME NoStartByte, LinkTypeOK, Bounds, AsSentInv, [LinkNext]_linkAll
  PROVE  AsSentInv'
<1>1. CASE BoardStep
  <2>1. UNCHANGED << down, missed >>
    BY <1>1 DEF BoardStep, lineVars, mishaps
  <2>2. CASE Poll
    BY <2>1, <2>2, AsSentSame DEF Poll
  <2>3. CASE SeekInit
    BY <2>1, <2>3, AsSentPopped DEF SeekInit
  <2>4. CASE AwaitPacket
    BY <2>1, <2>4, AsSentPopped DEF AwaitPacket
  <2>5. CASE TakePacket
    <3>1. SUFFICES ASSUME ~missed PROVE W' \in {0} \cup SetPoints /\ Framed'
      BY <2>1 DEF AsSentInv, SetPoints
    <3>2. Framed
      BY <3>1 DEF AsSentInv
    <3>3. Len(rx) >= PacketLen /\ PacketLen = 4
      <4>1. avail >= PacketLen /\ avail <= Len(rx)
        BY <2>5 DEF TakePacket, PacketReady, Bounds
      <4>2. avail \in Nat
        BY NanoBoardAssumption DEF LinkTypeOK, TypeOK
      <4>3. QED
        BY <4>1, <4>2, FifoLengths DEF PacketLen
    <3>4. rx[1] = StartChar /\ W' = rx[4] /\ rx' = Drop(rx, PacketLen)
      BY <2>5, <3>3, FifoLengths DEF TakePacket, ByteAt
    <3>5. 1 \in 1 .. ToRead /\ Read(1) = StartChar /\ Read(4) = rx[4]
      BY <3>3, <3>4, FifoLengths DEF ToRead, Read
    <3>6. Read(1 + 3) \in SetPoints
      BY <3>2, <3>5 DEF Framed
    <3>7. W' \in SetPoints
      BY <3>4, <3>5, <3>6
    <3>8. PacketLen \in 0 .. Len(rx)
      BY <3>3, FifoLengths
    <3>9. Framed'
      BY <2>1, <3>2, <3>3, <3>4, <3>8, DropElements, FramedAfter
    <3>10. QED
      BY <3>7, <3>9
  <2>6. QED
    BY <1>1, <2>2, <2>3, <2>4, <2>5 DEF BoardStep
<1>2. CASE BoardWrites
  BY <1>2, AsSentPopped DEF BoardWrites, WriteByte
<1>3. CASE ToBoard
  <2>1. /\ down # << >> /\ down' = Tail(down) /\ W' = W
        /\ rx' = IF Len(rx) < RxDepth THEN Append(rx, Head(down)) ELSE rx
        /\ missed' = (missed \/ Len(rx) = RxDepth)
    BY <1>3 DEF ToBoard, LineIn
  <2>2. SUFFICES ASSUME ~missed' PROVE W' \in {0} \cup SetPoints /\ Framed'
    BY DEF AsSentInv, SetPoints
  <2>3. ~missed /\ Len(rx) # RxDepth
    BY <2>1, <2>2
  <2>4. W' \in {0} \cup SetPoints /\ Framed
    BY <2>1, <2>3 DEF AsSentInv
  <2>5. Len(rx) < RxDepth /\ rx' = Append(rx, Head(down))
    <3>1. Len(rx) <= RxDepth /\ RxDepth \in Nat
      BY NanoBoardAssumption DEF LinkTypeOK, TypeOK
    <3>2. QED
      BY <2>1, <2>3, <3>1, FifoLengths
  <2>6. /\ Len(down') = Len(down) - 1 /\ Len(down) >= 1
        /\ Head(down) = down[1] /\ Head(down) \in Byte
        /\ \A k \in 1 .. (Len(down) - 1) : down'[k] = down[k + 1]
    BY <2>1, FifoLengths, HeadTailProperties, EmptySeq
  <2>7. /\ Len(rx') = Len(rx) + 1
        /\ \A k \in 1 .. Len(rx) : rx'[k] = rx[k]
        /\ rx'[Len(rx) + 1] = down[1]
    BY <2>5, <2>6, FifoLengths, AppendProperties
  <2>8. ToRead' = ToRead /\ ToRead \in Nat
    BY <2>6, <2>7, FifoLengths DEF ToRead
  <2>9. ASSUME NEW k \in 1 .. ToRead PROVE Read(k)' = Read(k)
    <3>1. CASE k <= Len(rx)
      BY <2>7, <3>1, FifoLengths DEF Read
    <3>2. CASE k = Len(rx) + 1
      BY <2>7, <3>2, FifoLengths DEF Read
    <3>3. CASE k > Len(rx) + 1
      <4>1. /\ k - Len(rx') \in 1 .. (Len(down) - 1)
            /\ k - Len(rx') + 1 = k - Len(rx)
            /\ ~(k <= Len(rx')) /\ ~(k <= Len(rx))
        BY <2>7, <2>8, <3>3, FifoLengths DEF ToRead
      <4>2. QED
        BY <2>6, <4>1 DEF Read
    <3>4. QED
      BY <2>8, <3>1, <3>2, <3>3, FifoLengths
  <2>10. ASSUME NEW k \in 1 .. ToRead', Read(k)' = StartChar
         PROVE  k + 3 <= ToRead' /\ Read(k + 3)' \in SetPoints
    <3>1. k + 3 <= ToRead /\ Read(k + 3) \in SetPoints
      BY <2>4, <2>8, <2>9, <2>10 DEF Framed
    <3>2. k + 3 \in 1 .. ToRead
      BY <2>8, <3>1
    <3>3. QED
      BY <2>8, <2>9, <3>1, <3>2
  <2>11. QED
    BY <2>4, <2>10 DEF Framed, SetPoints
<1>4. ASSUME UNCHANGED vars, missed' = missed,
             down' = down \/ SendPacket \/ Say(<< InitChar >>)
      PROVE  AsSentInv'
  <2>1. rx' = rx /\ W' = W
    BY <1>4 DEF vars, linkVars
  <2>2. CASE down' = down
    BY <1>4, <2>1, <2>2, AsSentSame
  <2>3. CASE SendPacket \/ Say(<< InitChar >>)
    BY <1>4, <2>1, <2>3, FramedSaid DEF AsSentInv, SetPoints
  <2>4. QED
    BY <1>4, <2>2, <2>3
<1>5. ASSUME NEW n, Recv(n)
      PROVE  UNCHANGED vars /\ (down' = down \/ SendPacket)
  BY <1>5
  DEF Recv, OnFrame, OnVersion, OnEcho, OnWrongVersion, OnWrongData,
      ToNobody, Reads, serverVars
<1>6. CASE ServerRecv \/ SplitUp
  BY <1>4, <1>5, <1>6 DEF ServerRecv, SplitUp
<1>7. CASE Reconnect
  BY <1>4, <1>7 DEF Reconnect, mishaps
<1>8. CASE LoseDown
  BY <1>8 DEF LoseDown, AsSentInv
<1>9. CASE BoardControls \/ Late
  BY <1>9, AsSentSame DEF BoardControls, Late, Control, lineVars, mishaps
<1>10. CASE FromBoard \/ LoseUp
  BY <1>10, AsSentSame DEF FromBoard, LoseUp, LineOut, lineVars, mishaps
<1>11. CASE Watch \/ Deaf \/ UNCHANGED linkAll
  BY <1>4, <1>11 DEF Watch, Deaf, GiveUp, mishaps, lineVars, linkAll
<1>12. QED
  BY <1>1, <1>2, <1>3, <1>6, <1>7, <1>8, <1>9, <1>10, <1>11
  DEF LinkNext, Fault

(* The motor follows only set points that were sent (AsSent of CarLink),   *)
(* for all payloads without an 'S' in them and all lengths and depths.     *)
THEOREM AsSentHolds ==
  ASSUME NoStartByte
  PROVE  LinkSpec => []AsSent
<1>1. LinkInit => AsSentInv
  <2> SUFFICES ASSUME LinkInit PROVE AsSentInv
    OBVIOUS
  <2>1. rx = << >> /\ down = << InitChar >> /\ W = 0
    BY DEF LinkInit, Init
  <2>2. ToRead = 1 /\ Read(1) = InitChar
    BY <2>1, EmptySeq DEF ToRead, Read
  <2>3. InitChar # StartChar
    BY DEF InitChar, StartChar
  <2>4. QED
    BY <2>1, <2>2, <2>3 DEF AsSentInv, Framed
<1>2. AsSentInv => AsSent
  BY DEF AsSentInv, AsSent, SetPoints
<1>3. LinkTypeOK /\ Bounds /\ AsSentInv /\ [LinkNext]_linkAll => AsSentInv'
  BY AsSentNext
<1>4. QED
  BY <1>1, <1>2, <1>3, LinkTypeCorrect, PTL DEF LinkSpec

-----------------------------------------------------------------------------
(* The server.  As long as nothing is garbled the wire holds whole         *)
(* answers, the last one up to where the board is.                         *)

(* The byte at k and those before it in its answer are all there.          *)
PartOf(k) ==
  LET off == FullLen(wire[k][1]) - wire[k][2]
  IN  /\ off \in 0 .. (k - 1)
      /\ \A j \in (k - off) .. k :
           wire[j] = << wire[k][1], wire[k][2] + (k - j) >>

Starting(k) == wire[k][2] = FullLen(wire[k][1])

(* The board is in the middle of an answer.                                *)
Midway == pc = "write" /\ left < FullLen(answer)

WireOK ==
  /\ \A k \in 1 .. Len(wire) : PartOf(k)
  /\ \A k \in 1 .. (Len(wire) - 1) : Starting(k + 1) => wire[k][2] = 1
  /\ IF Midway THEN wire # << >> /\ wire[Len(wire)] = << answer, left + 1 >>
               ELSE wire # << >> => wire[Len(wire)][2] = 1

LeftOK == pc = "write" => left \in 1 .. FullLen(answer)

ServerInv == LeftOK /\ (~garbled => WireOK /\ run)

LEMMA FullLens ==
  \A a \in {"version", "response"} :
    FullLen(a) \in Nat /\ FullLen(a) > 0 /\ FullLen(a) <= VersionLen + ResponseLen
  BY LinkFacts DEF FullLen

LEMMA WireFacts ==
  ASSUME LinkTypeOK
  PROVE  /\ wire \in Seq(Tag) /\ Len(wire) \in Nat
         /\ tx \in Nat /\ tx <= Len(wire)
         /\ \A k \in 1 .. Len(wire) :
              /\ wire[k][1] \in {"version", "response"}
              /\ wire[k][2] \in Nat /\ wire[k][2] > 0
              /\ wire[k] = << wire[k][1], wire[k][2] >>
<1>1. wire \in Seq(Tag) /\ Len(wire) \in Nat /\ tx \in Nat /\ tx <= Len(wire)
  BY LenProperties, LinkFacts DEF LinkTypeOK, TypeOK
<1>2. ASSUME NEW k \in 1 .. Len(wire)
      PROVE  /\ wire[k][1] \in {"version", "response"}
             /\ wire[k][2] \in Nat /\ wire[k][2] > 0
             /\ wire[k] = << wire[k][1], wire[k][2] >>
  <2>1. wire[k] \in Tag
    BY <1>1, ElementOfSeq
  <2>2. QED
    BY <2>1, LinkFacts DEF Tag
<1>3. QED
  BY <1>1, <1>2

(* A chunk in which no second answer starts is a whole answer. *)
LEMMA ChunkWhole ==
  ASSUME LinkTypeOK, WireOK, NEW n \in Packed, ~RunTogether(n)
  PROVE  \E a \in {"version", "response"} : Whole(Chunk(n), a)
<1>1. n \in 1 .. (Len(wire) - tx) /\ Pause(n)
  BY DEF Packed
<1>2. n \in 1 .. Len(wire)
  BY <1>1, WireFacts
<1> DEFINE a == wire[n][1]
           off == FullLen(a) - wire[n][2]
<1>3. a \in {"version", "response"} /\ FullLen(a) \in Nat
  BY <1>2, WireFacts, FullLens
<1>4. wire[n][2] = 1
  <2>1. CASE n = Len(wire) /\ tx = 0 /\ pc # "write"
    BY <1>2, <2>1, WireFacts, EmptySeq DEF WireOK, Midway
  <2>2. CASE n < Len(wire) /\ wire[n + 1][2] = FullLen(wire[n + 1][1])
    BY <1>2, <2>2, WireFacts DEF WireOK, Starting
  <2>3. QED
    BY <1>1, <2>1, <2>2 DEF Pause
<1>5. /\ off \in 0 .. (n - 1) /\ off = FullLen(a) - 1
      /\ \A j \in (n - off) .. n : wire[j] = << a, 1 + (n - j) >>
  BY <1>2, <1>4 DEF WireOK, PartOf
<1> HIDE DEF off, a
<1>6. off = n - 1
  <2>1. SUFFICES ASSUME off < n - 1 PROVE FALSE
    BY <1>1, <1>2, <1>5, WireFacts
  <2>2. /\ n - off \in (n - off) .. n /\ n - off - 1 \in 1 .. n - 1
        /\ (n - off - 1) + 1 = n - off /\ 1 + (n - (n - off)) = FullLen(a)
    BY <1>1, <1>2, <1>3, <1>5, <2>1, WireFacts
  <2>3. wire[n - off] = << a, FullLen(a) >>
    BY <1>5, <2>2
  <2>4. wire[(n - off - 1) + 1][2] = FullLen(wire[(n - off - 1) + 1][1])
    BY <2>2, <2>3
  <2>5. QED
    BY <2>2, <2>4 DEF RunTogether
<1>7. Len(Chunk(n)) = n /\ \A k \in 1 .. n : Chunk(n)[k] = wire[k]
  BY <1>2, WireFacts, SubSeqProperties DEF Chunk
<1>8. FullLen(a) = n
  BY <1>2, <1>3, <1>5, <1>6, WireFacts
<1>9. ASSUME NEW k \in 1 .. n PROVE Chunk(n)[k] = << a, n - k + 1 >>
  <2>1. k \in (n - off) .. n /\ 1 + (n - k) = n - k + 1
    BY <1>2, <1>6, WireFacts
  <2>2. QED
    BY <1>5, <1>7, <2>1
<1>10. Whole(Chunk(n), a)
  BY <1>7, <1>8, <1>9 DEF Whole
<1>11. QED
  BY <1>3, <1>10

(* What is left behind a chunk is a wire again.                            *)
LEMMA WireAfter ==
  ASSUME LinkTypeOK, WireOK, NEW n \in Packed, wire' = After(n),
         UNCHANGED << pc, left, answer >>
  PROVE  WireOK'
<1>1. /\ n \in 1 .. Len(wire)
      /\ n = Len(wire) => pc # "write"
      /\ n < Len(wire) => wire[n + 1][2] = FullLen(wire[n + 1][1])
  BY WireFacts DEF Packed, Pause
<1>2. /\ Len(wire') = Len(wire) - n
      /\ \A k \in 1 .. (Len(wire) - n) : wire'[k] = wire[k + n]
  BY <1>1, WireFacts, AfterElements DEF After
<1>3. ASSUME NEW k \in 1 .. Len(wire') PROVE PartOf(k)'
  <2> DEFINE m == k + n
             off == FullLen(wire[m][1]) - wire[m][2]
  <2>1. m \in 1 .. Len(wire) /\ m > n /\ n < Len(wire) /\ wire'[k] = wire[m]
    BY <1>1, <1>2, WireFacts
  <2>2. /\ off \in 0 .. (m - 1)
        /\ \A j \in (m - off) .. m :
             wire[j] = << wire[m][1], wire[m][2] + (m - j) >>
    BY <2>1 DEF WireOK, PartOf
  <2>3. wire[m][2] \in Nat /\ FullLen(wire[m][1]) \in Nat
    BY <2>1, WireFacts, FullLens
  <2>4. off \in Int /\ off = FullLen(wire[m][1]) - wire[m][2]
    BY <2>3
  <2> HIDE DEF off
  <2>5. off <= k - 1
    <3>1. SUFFICES ASSUME off > k - 1 PROVE FALSE
      BY <1>1, <1>2, <2>4, WireFacts
    <3>2. n + 1 \in (m - off) .. m
      BY <1>1, <1>2, <2>1, <2>2, <3>1, WireFacts
    <3>3. wire[n + 1] = << wire[m][1], wire[m][2] + (m - (n + 1)) >>
      BY <2>2, <3>2
    <3>4. wire[m][2] + (m - (n + 1)) = FullLen(wire[m][1])
      BY <1>1, <2>1, <3>3
    <3>5. m - (n + 1) = k - 1
      BY <1>1, <1>2, WireFacts
    <3>6. QED
      BY <1>1, <1>2, <2>3, <2>4, <3>1, <3>4, <3>5, WireFacts
  <2>6. ASSUME NEW j \in (k - off) .. k
        PROVE  wire'[j] = << wire[m][1], wire[m][2] + (k - j) >>
    <3>1. /\ j \in 1 .. (Len(wire) - n) /\ j + n \in (m - off) .. m
          /\ m - (j + n) = k - j
      <4>1. k \in Nat /\ n \in Nat /\ k <= Len(wire) - n /\ Len(wire) \in Nat
        BY <1>1, <1>2, WireFacts
      <4>2. off \in Int /\ off <= k - 1
        BY <2>4, <2>5
      <4>3. j \in Int /\ j >= k - off /\ j <= k
        BY <4>1, <4>2
      <4>4. QED
        BY <4>1, <4>2, <4>3
    <3>2. QED
      BY <1>2, <2>2, <3>1
  <2>7. off \in 0 .. (k - 1)
    BY <1>1, <1>2, <2>2, <2>4, <2>5, WireFacts
  <2>8. QED
    BY <2>1, <2>4, <2>6, <2>7 DEF PartOf, FullLen
<1>4. ASSUME NEW k \in 1 .. (Len(wire') - 1), Starting(k + 1)'
      PROVE  wire'[k][2] = 1
  <2>1. /\ wire'[k] = wire[k + n] /\ wire'[k + 1] = wire[k + n + 1]
        /\ k + n \in 1 .. (Len(wire) - 1)
    <3>1. /\ k \in 1 .. (Len(wire) - n) /\ k + 1 \in 1 .. (Len(wire) - n)
          /\ k + 1 + n = k + n + 1 /\ k + n \in 1 .. (Len(wire) - 1)
      BY <1>1, <1>2, WireFacts
    <3>2. QED
      BY <1>2, <3>1
  <2>2. Starting(k + n + 1)
    BY <1>4, <2>1 DEF Starting, FullLen
  <2>3. QED
    BY <2>1, <2>2 DEF WireOK
<1>5. IF Midway' THEN wire' # << >> /\ wire'[Len(wire')] = << answer', left' + 1 >>
                 ELSE wire' # << >> => wire'[Len(wire')][2] = 1
  <2>1. Midway' = Midway
    BY DEF Midway, FullLen
  <2>2. CASE n = Len(wire)
    <3>1. Len(wire') = 0
      BY <1>2, <2>2, WireFacts
    <3>2. wire' = << >>
      BY <3>1, <1>1, <2>2, WireFacts, AfterElements, EmptySeq DEF After
    <3>3. QED
      BY <1>1, <2>1, <2>2, <3>2 DEF Midway
  <2>3. CASE n < Len(wire)
    <3>1. /\ Len(wire') \in 1 .. (Len(wire) - n)
          /\ Len(wire') + n = Len(wire)
      BY <1>1, <1>2, <2>3, WireFacts
    <3>2. wire'[Len(wire')] = wire[Len(wire)] /\ wire' # << >> /\ wire # << >>
      <4>1. wire'[Len(wire')] = wire[Len(wire)]
        BY <1>2, <3>1
      <4>2. Len(<< >>) = 0
        OBVIOUS
      <4>3. Len(wire') # 0 /\ Len(wire) # 0
        BY <1>1, <2>3, <3>1, WireFacts
      <4>4. QED
        BY <4>1, <4>2, <4>3
    <3>3. QED
      BY <2>1, <3>2 DEF WireOK
  <2>4. QED
    BY <1>1, <2>2, <2>3, WireFacts
<1>6. QED
  BY <1>3, <1>4, <1>5 DEF WireOK

(* A byte the board writes continues the wire.                             *)
LEMMA WireAppend ==
  ASSUME LinkTypeOK, LeftOK, WireOK, WriteByte, pc = "write",
         wire' = Append(wire, << answer, left >>)
  PROVE  WireOK'
<1> DEFINE L == Len(wire)
           full == FullLen(answer)
<1>1. /\ L \in Nat /\ answer \in {"version", "response"}
      /\ full \in Nat /\ left \in 1 .. full
  BY WireFacts, FullLens DEF LinkTypeOK, TypeOK, LeftOK
<1>2. /\ Len(wire') = L + 1 /\ wire'[L + 1] = << answer, left >>
      /\ \A k \in 1 .. L : wire'[k] = wire[k]
  BY <1>1, WireFacts, LinkFacts, FullLens, AppendProperties DEF Tag
<1>3. left < full => L > 0 /\ wire[L] = << answer, left + 1 >>
  <2>1. wire # << >> => Len(wire) # 0
    BY WireFacts, EmptySeq
  <2>2. QED
    BY <1>1, <2>1 DEF WireOK, Midway
<1>4. left = full /\ L > 0 => wire[L][2] = 1
  <2>1. Len(<< >>) = 0
    OBVIOUS
  <2>2. QED
    BY <1>1, <2>1 DEF WireOK, Midway
<1>5. ASSUME NEW k \in 1 .. Len(wire') PROVE PartOf(k)'
  <2>1. CASE k \in 1 .. L
    <3>1. PartOf(k) /\ wire'[k] = wire[k]
      BY <1>2, <2>1 DEF WireOK
    <3>2. wire[k][2] \in Nat /\ FullLen(wire[k][1]) \in Nat
      BY <2>1, WireFacts, FullLens
    <3>3. ASSUME FullLen(wire[k][1]) - wire[k][2] \in 0 .. (k - 1),
                 NEW j \in (k - (FullLen(wire[k][1]) - wire[k][2])) .. k
          PROVE  wire'[j] = wire[j]
      BY <1>1, <1>2, <2>1, <3>2, <3>3
    <3>4. QED
      BY <3>1, <3>3 DEF PartOf, FullLen
  <2>2. CASE k = L + 1 /\ left = full
    <3>1. wire'[k] = << answer, full >>
      BY <1>2, <2>2
    <3>2. full - full \in 0 .. (k - 1) /\ \A j \in (k - (full - full)) .. k : j = k
      BY <1>1, <2>2
    <3>3. full + (k - k) = full
      BY <1>1, <2>2
    <3>4. QED
      BY <3>1, <3>2, <3>3 DEF PartOf, FullLen
  <2>3. CASE k = L + 1 /\ left < full
    <3>1. L \in 1 .. L /\ wire[L] = << answer, left + 1 >>
      BY <1>1, <1>3, <2>3
    <3>2. /\ full - (left + 1) \in 0 .. (L - 1)
          /\ \A j \in (L - (full - (left + 1))) .. L :
               wire[j] = << answer, left + 1 + (L - j) >>
      BY <3>1 DEF WireOK, PartOf
    <3>3. full - left \in 0 .. (k - 1)
      BY <1>1, <2>3, <3>2
    <3>4. ASSUME NEW j \in (k - (full - left)) .. k
          PROVE  wire'[j] = << answer, left + (k - j) >>
      <4>1. CASE j = k
        <5>1. left + (k - j) = left
          BY <1>1, <2>3, <4>1
        <5>2. QED
          BY <1>2, <2>3, <4>1, <5>1
      <4>2. CASE j # k
        <5>1. /\ j \in (L - (full - (left + 1))) .. L /\ j \in 1 .. L
              /\ left + 1 + (L - j) = left + (k - j)
          <6>1. j \in Int /\ j >= L + 1 - (full - left) /\ j <= L
            BY <1>1, <2>3, <4>2
          <6>2. full - (left + 1) <= L - 1
            BY <1>1, <3>2
          <6> HIDE DEF L, full
          <6>3. QED
            BY <1>1, <2>3, <6>1, <6>2
        <5>2. QED
          BY <1>2, <3>2, <5>1
      <4>3. QED
        BY <4>1, <4>2
    <3>5. wire'[k] = << answer, left >>
      BY <1>2, <2>3
    <3>6. QED
      BY <3>3, <3>4, <3>5 DEF PartOf, FullLen
  <2>4. QED
    BY <1>1, <1>2, <2>1, <2>2, <2>3
<1>6. ASSUME NEW k \in 1 .. (Len(wire') - 1), Starting(k + 1)'
      PROVE  wire'[k][2] = 1
  <2>1. CASE k + 1 \in 1 .. L
    <3>1. /\ k \in 1 .. (L - 1) /\ k \in 1 .. L
          /\ wire'[k] = wire[k] /\ wire'[k + 1] = wire[k + 1]
      BY <1>1, <1>2, <2>1
    <3>2. QED
      BY <1>6, <3>1 DEF WireOK, Starting, FullLen
  <2>2. CASE k = L
    <3>1. wire'[k + 1] = << answer, left >> /\ wire'[k] = wire[k] /\ L > 0
      BY <1>1, <1>2, <2>2
    <3>2. left = full
      BY <1>6, <3>1 DEF Starting, FullLen
    <3>3. QED
      BY <1>4, <2>2, <3>1, <3>2
  <2>3. QED
    BY <1>1, <1>2, <2>1, <2>2
<1>7. /\ wire' # << >> /\ wire'[Len(wire')] = << answer, left >>
  <2>1. Len(<< >>) = 0
    OBVIOUS
  <2>2. QED
    BY <1>1, <1>2, <2>1
<1>8. left' = left - 1 /\ (left = 1 => pc' = "control")
      /\ (left # 1 => pc' = "write" /\ answer' = answer)
  BY DEF WriteByte, LastByte
<1>9. IF Midway' THEN wire' # << >> /\ wire'[Len(wire')] = << answer', left' + 1 >>
                 ELSE wire' # << >> => wire'[Len(wire')][2] = 1
  <2>1. CASE left = 1
    BY <1>7, <1>8, <2>1 DEF Midway
  <2>2. CASE left # 1
    <3>1. Midway'
      BY <1>1, <1>8, <2>2 DEF Midway, FullLen
    <3>2. left' + 1 = left /\ answer' = answer
      BY <1>1, <1>8, <2>2
    <3>3. QED
      BY <1>7, <3>1, <3>2
  <2>3. QED
    BY <2>1, <2>2
<1>10. QED
  BY <1>5, <1>6, <1>9 DEF WireOK

LEMMA LeftNext ==
  ASSUME LinkTypeOK, LeftOK, [Next]_vars
  PROVE  LeftOK'
<1>1. CASE SeekInit
  BY <1>1, LinkFacts DEF SeekInit, LeftOK, FullLen
<1>2. CASE TakePacket
  BY <1>2, LinkFacts DEF TakePacket, LeftOK, FullLen
<1>3. CASE WriteByte
  <2>1. left \in 1 .. FullLen(answer) /\ FullLen(answer) \in Nat
    BY <1>3, FullLens DEF WriteByte, LeftOK, LinkTypeOK, TypeOK
  <2>2. left' = left - 1 /\ (left = 1 => pc' = "control")
        /\ (left # 1 => answer' = answer)
    BY <1>3 DEF WriteByte, LastByte
  <2>3. QED
    BY <2>1, <2>2 DEF LeftOK, FullLen
<1>4. CASE Poll \/ AwaitPacket \/ Control
  BY <1>4 DEF Poll, AwaitPacket, Control, LeftOK
<1>5. CASE Line \/ UNCHANGED vars
  <2>1. UNCHANGED << pc, left, answer >>
    BY <1>5 DEF Line, LineIn, LineOut, vars, linkVars
  <2>2. QED
    BY <2>1 DEF LeftOK, FullLen
<1>6. QED
  BY <1>1, <1>2, <1>3, <1>4, <1>5 DEF Next, Loop

LEMMA WireSame ==
  ASSUME WireOK, wire' = wire, Midway' <=> Midway,
         Midway => UNCHANGED << left, answer >>
  PROVE  WireOK'
<1>1. \A k \in 1 .. Len(wire) : PartOf(k)'
  BY DEF WireOK, PartOf, FullLen
<1>2. \A k \in 1 .. (Len(wire) - 1) : Starting(k + 1)' => wire[k][2] = 1
  BY DEF WireOK, Starting, FullLen
<1>3. QED
  BY <1>1, <1>2 DEF WireOK

LEMMA ServerNext ==
  ASSUME LinkTypeOK, Bounds, ServerInv, [LinkNext]_linkAll
  PROVE  ServerInv'
<1>1. LeftOK'
  BY BoardSteps, LeftNext DEF ServerInv
<1> DEFINE Good == ~garbled' => WireOK' /\ run'
<1>2. ASSUME wire' = wire, garbled' = garbled, run' = run, Midway' <=> Midway,
             Midway => UNCHANGED << left, answer >>
      PROVE  Good
  BY <1>2, WireSame DEF ServerInv
<1>3. ASSUME BoardStep \/ BoardControls \/ Late PROVE Good
  <2>1. wire' = wire /\ garbled' = garbled /\ run' = run
    BY <1>3
    DEF BoardStep, BoardControls, Late, serverVars, lineVars, mishaps
  <2>2. pc # "write" /\ (pc' = "write" => left' = FullLen(answer'))
    BY <1>3
    DEF BoardStep, BoardControls, Late, Poll, SeekInit, TakePacket,
        AwaitPacket, Control, FullLen
  <2>3. FullLen(answer)' = FullLen(answer')
    BY DEF FullLen
  <2>4. answer' \in {"version", "response"}
    BY LinkTypeNext DEF LinkTypeOK, TypeOK
  <2>5. ~Midway /\ ~Midway'
    BY <2>2, <2>3, <2>4, FullLens DEF Midway
  <2>6. QED
    BY <1>2, <2>1, <2>5
<1>4. ASSUME BoardWrites PROVE Good
  <2>1. /\ WriteByte /\ pc = "write" /\ run' = run
        /\ garbled' = (garbled \/ tx = TxDepth)
        /\ wire' = IF tx < TxDepth THEN Append(wire, << answer, left >>)
                                   ELSE wire
    BY <1>4 DEF BoardWrites, WriteByte, serverVars
  <2>2. SUFFICES ASSUME ~garbled' PROVE WireOK' /\ run'
    OBVIOUS
  <2>3. ~garbled /\ tx # TxDepth
    BY <2>1, <2>2
  <2>4. tx < TxDepth
    BY <2>3, LinkFacts DEF LinkTypeOK, TypeOK
  <2>5. WireOK'
    BY <2>1, <2>3, <2>4, WireAppend DEF ServerInv
  <2>6. QED
    BY <2>1, <2>3, <2>5 DEF ServerInv
<1>5. ASSUME UNCHANGED << wire, garbled, run, pc, left, answer >>
      PROVE  Good
  BY <1>2, <1>5 DEF Midway, FullLen
<1>6. ASSUME ToBoard \/ FromBoard PROVE Good
  BY <1>5, <1>6
  DEF ToBoard, FromBoard, LineIn, LineOut, serverVars, lineVars, mishaps
<1>7. ASSUME ServerRecv PROVE Good
  <2>1. PICK n \in Packed :
           Recv(n) /\ garbled' = (garbled \/ RunTogether(n))
    BY <1>7 DEF ServerRecv
  <2>2. SUFFICES ASSUME ~garbled' PROVE WireOK' /\ run'
    OBVIOUS
  <2>3. ~garbled /\ ~RunTogether(n) /\ WireOK /\ run
    BY <2>1, <2>2 DEF ServerInv
  <2>4. wire' = After(n) /\ UNCHANGED << pc, left, answer >>
    <3>1. n \in 1 .. (Len(wire) - tx)
      BY DEF Packed
    <3>2. QED
      BY <2>1, <3>1, RecvTypes DEF vars, linkVars
  <2>5. WireOK'
    BY <2>3, <2>4, WireAfter
  <2>6. PICK a \in {"version", "response"} : Whole(Chunk(n), a)
    BY <2>3, ChunkWhole
  <2>7. ~OnWrongVersion(n)
    BY <2>6 DEF OnWrongVersion, Odd
  <2>8. run' = run
    BY <2>1, <2>7
    DEF Recv, OnFrame, OnVersion, OnEcho, OnWrongData, ToNobody, serverVars
  <2>9. QED
    BY <2>3, <2>5, <2>8
<1>8. ASSUME Watch \/ Deaf \/ Reconnect PROVE Good
  <2>1. /\ UNCHANGED << garbled, run, pc, left, answer >>
        /\ wire' = wire \/ \E n \in Packed : wire' = After(n)
    BY <1>8
    DEF Watch, Deaf, Reconnect, Unread, GiveUp, vars, linkVars, mishaps
  <2>2. QED
    BY <1>5, <2>1, WireAfter DEF ServerInv
<1>9. ASSUME LoseDown PROVE Good
  BY <1>5, <1>9 DEF LoseDown, serverVars, vars, linkVars
<1>10. ASSUME LoseUp \/ SplitUp PROVE Good
  BY <1>10 DEF LoseUp, SplitUp
<1>11. ASSUME UNCHANGED linkAll PROVE Good
  BY <1>5, <1>11
  DEF linkAll, vars, linkVars, serverVars, lineVars, mishaps
<1>12. Good
  BY <1>3, <1>4, <1>6, <1>7, <1>8, <1>9, <1>10, <1>11 DEF LinkNext, Fault
<1>13. QED
  BY <1>1, <1>12 DEF ServerInv

(* Only a garbled answer ends the server (ServerSurvives of CarLink), for  *)
(* every length of version and response, even when they agree.             *)
THEOREM ServerSurvivesHolds == LinkSpec => []ServerSurvives
<1>1. LinkInit => ServerInv
  <2> SUFFICES ASSUME LinkInit PROVE ServerInv
    OBVIOUS
  <2>1. wire = << >> /\ Len(wire) = 0 /\ pc = "poll" /\ run
    BY DEF LinkInit, Init
  <2>2. QED
    BY <2>1 DEF ServerInv, LeftOK, WireOK, Midway
<1>2. ServerInv => ServerSurvives
  BY DEF ServerInv, ServerSurvives
<1>3. LinkTypeOK /\ Bounds /\ ServerInv /\ [LinkNext]_linkAll => ServerInv'
  BY ServerNext
<1>4. QED
  BY <1>1, <1>2, <1>3, LinkTypeCorrect, PTL DEF LinkSpec

-----------------------------------------------------------------------------
(* Room for the answers.  A round that is not late finds the write FIFO    *)
(* empty before its motor section, and so what piles up there is what late *)
(* rounds left behind, with the answer of the round itself.                *)

Longest == IF VersionLen >= ResponseLen THEN VersionLen ELSE ResponseLen

(* What the write FIFO holds or is about to be given.                      *)
ToWrite == IF pc = "write" THEN tx + left ELSE tx

(* r rounds were late: r answers are left, and the one of this round.      *)
PiledUp(r) ==
  ToWrite <= IF pc \in {"write", "control"} THEN (r + 1) * Longest
                                            ELSE r * Longest

PiledInv == PiledUp(MaxFaults - faults)

LEMMA LongestFacts ==
  /\ Longest \in Nat \ {0}
  /\ VersionLen <= Longest /\ ResponseLen <= Longest
  /\ \A r \in Nat : /\ r * Longest \in Nat /\ (r + 1) * Longest \in Nat
                    /\ (r + 1) * Longest = r * Longest + Longest
<1>1. /\ Longest \in Nat \ {0}
      /\ VersionLen <= Longest /\ ResponseLen <= Longest
  BY LinkFacts DEF Longest
<1> HIDE DEF Longest
<1>2. \A r, l \in Nat : /\ r * l \in Nat /\ (r + 1) * l \in Nat
                       /\ (r + 1) * l = r * l + l
  OBVIOUS
<1>3. QED
  BY <1>1, <1>2

(* One round more leaves room for what fitted before.                      *)
LEMMA PiledMore ==
  ASSUME LinkTypeOK, NEW r \in Nat, PiledUp(r)
  PROVE  PiledUp(r + 1)
<1>1. ToWrite \in Nat
  BY LinkFacts DEF LinkTypeOK, TypeOK, ToWrite
<1> DEFINE a == r * Longest
           b == (r + 1) * Longest
           c == (r + 2) * Longest
<1>2. /\ a \in Nat /\ b \in Nat /\ c \in Nat
      /\ b = a + Longest /\ c = b + Longest /\ Longest \in Nat
  <2>1. (r + 1) + 1 = r + 2 /\ r + 1 \in Nat
    OBVIOUS
  <2>2. c = ((r + 1) + 1) * Longest
    BY <2>1
  <2>3. QED
    BY <2>1, <2>2, LongestFacts
<1>3. ToWrite <= IF pc \in {"write", "control"} THEN b ELSE a
  BY DEF PiledUp
<1>4. (r + 1) + 1 = r + 2
  OBVIOUS
<1> HIDE DEF a, b, c
<1>5. ToWrite <= IF pc \in {"write", "control"} THEN c ELSE b
  BY <1>1, <1>2, <1>3
<1>6. QED
  BY <1>4, <1>5 DEF PiledUp, b, c

(* A step of the board's program or its line, in a round that is not late. *)
InTime ==
  \/ Poll \/ SeekInit \/ TakePacket \/ AwaitPacket \/ WriteByte \/ LineOut
  \/ Control /\ tx = 0
  \/ UNCHANGED << pc, tx, left >>

LEMMA PiledBoard ==
  ASSUME LinkTypeOK, Bounds, NEW r \in Nat, PiledUp(r),
         InTime
  PROVE  PiledUp(r)'
<1> DEFINE a == r * Longest
           b == (r + 1) * Longest
           full == pc \in {"write", "control"}
<1>1. /\ a \in Nat /\ b \in Nat /\ b = a + Longest /\ Longest \in Nat
      /\ VersionLen \in Nat /\ VersionLen <= Longest
      /\ ResponseLen \in Nat /\ ResponseLen <= Longest
  BY LongestFacts, LinkFacts
<1>2. /\ tx \in Nat /\ tx <= TxDepth /\ TxDepth \in Nat /\ left \in Nat
      /\ pc \in {"poll", "link", "write", "control"}
      /\ pc = "write" => left >= 1
  BY LinkFacts DEF LinkTypeOK, TypeOK, Bounds
<1>3. ToWrite <= IF full THEN b ELSE a
  BY DEF PiledUp
<1> SUFFICES ToWrite' <= IF full' THEN b ELSE a
  BY DEF PiledUp, Longest
<1> HIDE DEF a, b
<1>4. CASE Poll
  BY <1>2, <1>3, <1>4 DEF Poll, ToWrite
<1>5. CASE SeekInit
  <2>1. /\ pc = "link" /\ tx' = tx
        /\ \/ pc' = "write" /\ left' = VersionLen
           \/ pc' = "control"
    BY <1>5 DEF SeekInit
  <2>2. QED
    BY <1>1, <1>2, <1>3, <2>1 DEF ToWrite
<1>6. CASE TakePacket
  <2>1. pc = "link" /\ tx' = tx /\ pc' = "write" /\ left' = ResponseLen
    BY <1>6 DEF TakePacket
  <2>2. QED
    BY <1>1, <1>2, <1>3, <2>1 DEF ToWrite
<1>7. CASE AwaitPacket
  <2>1. pc = "link" /\ tx' = tx /\ pc' = "control"
    BY <1>7 DEF AwaitPacket
  <2>2. QED
    BY <1>1, <1>2, <1>3, <2>1 DEF ToWrite
<1>8. CASE WriteByte
  <2>1. /\ pc = "write" /\ left' = left - 1 /\ pc' \in {"write", "control"}
        /\ tx' \in {tx, tx + 1}
    BY <1>8 DEF WriteByte, LastByte
  <2>2. ToWrite = tx + left /\ ToWrite <= b
    BY <1>2, <1>3, <2>1 DEF ToWrite
  <2>3. tx' \in Nat /\ tx' <= tx + 1 /\ left \in Nat /\ left >= 1
    BY <1>2, <2>1
  <2>4. CASE pc' = "write"
    <3>1. ToWrite' = tx' + (left - 1)
      BY <2>1, <2>4 DEF ToWrite
    <3>2. \A x, y, l, m \in Nat :
            y <= x + 1 /\ x + l <= m => y + (l - 1) <= m
      OBVIOUS
    <3>3. tx' + (left - 1) <= b
      BY <1>1, <1>2, <2>2, <2>3, <3>2
    <3>4. QED
      BY <2>4, <3>1, <3>3
  <2>5. CASE pc' = "control"
    <3>1. ToWrite' = tx'
      BY <2>5 DEF ToWrite
    <3>2. QED
      BY <1>1, <1>2, <2>2, <2>3, <2>5, <3>1
  <2>6. QED
    BY <2>1, <2>4, <2>5
<1>9. CASE LineOut
  <2>1. tx > 0 /\ tx' = tx - 1 /\ UNCHANGED << pc, left >>
    BY <1>9 DEF LineOut
  <2>2. QED
    BY <1>1, <1>2, <1>3, <2>1 DEF ToWrite
<1>10. CASE Control /\ tx = 0
  <2>1. pc' = "poll" /\ tx' = 0
    BY <1>10 DEF Control
  <2>2. QED
    BY <1>1, <2>1 DEF ToWrite
<1>11. CASE UNCHANGED << pc, tx, left >>
  BY <1>3, <1>11 DEF ToWrite
<1>12. QED
  BY <1>4, <1>5, <1>6, <1>7, <1>8, <1>9, <1>10, <1>11 DEF InTime

(* A late round leaves its answer behind; no other step adds to the pile.  *)
LEMMA PiledStep ==
  ASSUME LinkTypeOK, Bounds, NEW r \in Nat, PiledUp(r), [LinkNext]_linkAll
  PROVE  PiledUp(r)' \/ (Late /\ faults' = faults - 1 /\ PiledUp(r + 1)')
<1>1. CASE BoardStep
  <2>1. InTime
    BY <1>1 DEF BoardStep, InTime
  <2>2. QED
    BY <2>1, PiledBoard
<1>2. CASE BoardControls
  <2>1. InTime
    BY <1>2 DEF BoardControls, Arrived, InTime
  <2>2. QED
    BY <2>1, PiledBoard
<1>3. CASE BoardWrites
  <2>1. InTime
    BY <1>3 DEF BoardWrites, InTime
  <2>2. QED
    BY <2>1, PiledBoard
<1>4. CASE FromBoard \/ LoseUp
  <2>1. InTime
    BY <1>4 DEF FromBoard, LoseUp, InTime
  <2>2. QED
    BY <2>1, PiledBoard
<1>5. CASE ToBoard
  <2>1. UNCHANGED << pc, tx, left >>
    BY <1>5 DEF ToBoard, LineIn
  <2>2. QED
    BY <2>1, PiledBoard DEF InTime
<1>6. CASE ServerRecv \/ SplitUp
  <2>1. PICK n \in 1 .. (Len(wire) - tx) : Recv(n)
    BY <1>6 DEF ServerRecv, SplitUp, Packed
  <2>2. UNCHANGED << pc, tx, left >>
    BY <2>1, RecvTypes DEF vars, linkVars
  <2>3. QED
    BY <2>2, PiledBoard DEF InTime
<1>7. CASE Watch \/ Deaf \/ Reconnect \/ LoseDown \/ UNCHANGED linkAll
  <2>1. UNCHANGED << pc, tx, left >>
    BY <1>7
    DEF Watch, Deaf, GiveUp, Reconnect, LoseDown, linkAll, vars, linkVars
  <2>2. QED
    BY <2>1, PiledBoard DEF InTime
<1>8. CASE Fault /\ Late
  <2>1. pc = "control" /\ pc' = "poll" /\ tx' = tx
    BY <1>8 DEF Late, Control
  <2>2. tx <= (r + 1) * Longest
    BY <2>1 DEF PiledUp, ToWrite
  <2>3. PiledUp(r + 1)'
    BY <2>1, <2>2 DEF PiledUp, ToWrite, Longest
  <2>4. QED
    BY <1>8, <2>3 DEF Fault
<1>9. QED
  BY <1>1, <1>2, <1>3, <1>4, <1>5, <1>6, <1>7, <1>8 DEF LinkNext, Fault

LEMMA PiledInit == LinkInit => PiledUp(0)
<1> SUFFICES ASSUME LinkInit PROVE PiledUp(0)
  OBVIOUS
<1>1. pc = "poll" /\ tx = 0
  BY DEF LinkInit, Init
<1>2. 0 * Longest \in Nat
  BY LongestFacts
<1>3. QED
  BY <1>1, <1>2 DEF PiledUp, ToWrite

LEMMA PiledNext ==
  ASSUME LinkTypeOK, Bounds, PiledInv, [LinkNext]_linkAll
  PROVE  PiledInv'
<1>1. PICK r \in Nat : r = MaxFaults - faults
  BY LinkFacts DEF LinkTypeOK
<1>2. faults \in Nat /\ MaxFaults \in Nat
  BY LinkFacts DEF LinkTypeOK
<1>3. PiledUp(r)' \/ (faults' = faults - 1 /\ PiledUp(r + 1)')
  <2>1. PiledUp(r)
    BY <1>1 DEF PiledInv
  <2>2. QED
    BY <2>1, PiledStep
<1>4. faults' = faults \/ faults' = faults - 1
  BY DEF LinkNext, BoardStep, BoardControls, BoardWrites, ToBoard,
         FromBoard, ServerRecv, Watch, Reconnect, Fault, lineVars, linkAll
<1>5. PiledUp(r)' => PiledUp(r + 1)'
  BY LinkTypeNext, PiledMore, PTL
<1>6. CASE faults' = faults
  <2>1. MaxFaults - faults' = r
    BY <1>1, <1>6
  <2>2. PiledUp(r)'
    BY <1>2, <1>3, <1>6
  <2>3. QED
    BY <2>1, <2>2 DEF PiledInv, PiledUp
<1>7. CASE faults' = faults - 1
  <2>1. MaxFaults - faults' = r + 1
    BY <1>1, <1>2, <1>7
  <2>2. PiledUp(r + 1)'
    BY <1>3, <1>5
  <2>3. QED
    BY <2>1, <2>2 DEF PiledInv, PiledUp
<1>8. QED
  BY <1>4, <1>6, <1>7

(* No byte of a response is lost for want of space (AnswersWhole of        *)
(* CarLink), if the write FIFO has room for one answer more than there may *)
(* be faults: whatever else the faults are, it takes a late round for each *)
(* answer that is still there when the next one is written.                *)
THEOREM AnswersWholeHolds ==
  ASSUME TxDepth >= (MaxFaults + 1) * Longest
  PROVE  LinkSpec => []AnswersWhole
<1>1. LinkInit => PiledInv
  <2>1. LinkInit => MaxFaults - faults = 0
    BY LinkFacts DEF LinkInit
  <2>2. QED
    BY <2>1, PiledInit DEF PiledInv
<1>2. LinkTypeOK /\ Bounds /\ PiledInv => AnswersWhole
  <2> SUFFICES ASSUME LinkTypeOK, Bounds, PiledInv, pc = "write"
               PROVE  tx < TxDepth
    BY DEF AnswersWhole
  <2>1. /\ tx \in Nat /\ left \in Nat /\ left >= 1 /\ TxDepth \in Nat
        /\ faults \in Nat /\ MaxFaults - faults \in Nat /\ MaxFaults \in Nat
    BY LinkFacts DEF LinkTypeOK, TypeOK, Bounds
  <2>2. tx + left <= (MaxFaults - faults + 1) * Longest
    BY DEF PiledInv, PiledUp, ToWrite
  <2>3. (MaxFaults - faults + 1) * Longest <= (MaxFaults + 1) * Longest
    <3>1. \A m, f, l \in Nat : f <= m => (m - f + 1) * l <= (m + 1) * l
      OBVIOUS
    <3>2. QED
      BY <2>1, <3>1, LongestFacts
  <2>4. (MaxFaults + 1) * Longest \in Nat
        /\ (MaxFaults - faults + 1) * Longest \in Nat
    BY <2>1, LongestFacts
  <2>5. QED
    BY <2>1, <2>2, <2>3, <2>4
<1>3. LinkTypeOK /\ Bounds /\ PiledInv /\ [LinkNext]_linkAll => PiledInv'
  BY PiledNext
<1>4. QED
  BY <1>1, <1>2, <1>3, LinkTypeCorrect, PTL DEF LinkSpec

(* The other faults need no room at all: as long as no round is late, a    *)
(* FIFO that holds one answer loses nothing, however many bytes are lost,  *)
(* answers split and connections given up and opened again.                *)
THEOREM PunctualAnswersWhole ==
  ASSUME TxDepth >= Longest
  PROVE  LinkSpec /\ [][~Late]_linkAll => []AnswersWhole
<1>1. LinkTypeOK /\ Bounds /\ PiledUp(0) => AnswersWhole
  <2> SUFFICES ASSUME LinkTypeOK, Bounds, PiledUp(0), pc = "write"
               PROVE  tx < TxDepth
    BY DEF AnswersWhole
  <2>1. /\ tx \in Nat /\ left \in Nat /\ left >= 1 /\ TxDepth \in Nat
        /\ Longest \in Nat
    BY LinkFacts, LongestFacts DEF LinkTypeOK, TypeOK, Bounds
  <2>2. tx + left <= (0 + 1) * Longest
    BY DEF PiledUp, ToWrite
  <2>3. (0 + 1) * Longest = Longest
    BY <2>1
  <2>4. QED
    BY <2>1, <2>2, <2>3
<1>2. LinkTypeOK /\ Bounds /\ PiledUp(0) /\ [LinkNext]_linkAll
        /\ [~Late]_linkAll => PiledUp(0)'
  <2>1. UNCHANGED linkAll => ~Late
    <3>1. UNCHANGED linkAll => pc' = pc
      BY DEF linkAll, vars, linkVars
    <3>2. QED
      BY <3>1 DEF Late, Control
  <2>2. QED
    BY <2>1, PiledStep
<1>3. QED
  BY <1>1, <1>2, PiledInit, LinkTypeCorrect, PTL DEF LinkSpec
-----------------------------------------------------------------------------
(* After the end of the server.  What StopsWithServer rests on: nothing is *)
(* added to what the board has still to read, and every link section in    *)
(* contact, or that opens the link, uses up some of it or of the timeout.  *)

(* The rounds until contact is lost, if nothing is taken.                  *)
ContactLeft == IF connBroken THEN 0 ELSE UartTimeout - uart_timeout

Less == \/ ToRead' < ToRead
        \/ ToRead' = ToRead /\ ContactLeft' < ContactLeft
Same == ToRead' = ToRead /\ ContactLeft' = ContactLeft
Ebbs == Less \/ Same

(* Once the server has ended (carserver.c, line 380) it says nothing more, *)
(* and the pair of what is left to read and of the contact that is left    *)
(* never grows; it gets less in every round in which the board takes a     *)
(* packet, opens the link or is in contact (main.c, lines 187-256).  Such  *)
(* rounds come to an end, and in the others the set point is 0.            *)
ContactEnds ==
  [][ ~run =>
        /\ ~run' /\ Ebbs
        /\ TakePacket \/ AwaitPacket => Less
        /\ SeekInit => W' = 0 /\ (Less \/ connBroken') ]_linkAll

LEMMA EbbFacts ==
  ASSUME LinkTypeOK, Bounds
  PROVE  /\ rx \in Seq(Byte) /\ Len(rx) \in Nat
         /\ down \in Seq(Byte) /\ Len(down) \in Nat
         /\ UartTimeout \in Nat /\ uart_timeout \in Nat
         /\ uart_timeout < UartTimeout
         /\ avail \in Nat /\ connBroken \in BOOLEAN
  BY FifoLengths, NanoBoardAssumption
  DEF LinkTypeOK, TypeOK, Bounds

(* What reads take out of the FIFO. *)
LEMMA ReadLengths ==
  ASSUME NEW S, NEW s \in Seq(S)
  PROVE  /\ Len(Popped(s)) <= Len(s) /\ Len(Popped(s)) \in Nat
         /\ Len(s) > 0 => Len(Popped(s)) < Len(s)
         /\ Len(s) >= PacketLen => /\ Len(Drop(s, PacketLen)) \in Nat
                                   /\ Len(Drop(s, PacketLen)) < Len(s)
<1>1. Len(s) \in Nat /\ PacketLen = 4
  BY LenProperties DEF PacketLen
<1>2. CASE s = << >>
  BY <1>1, <1>2, EmptySeq DEF Popped
<1>3. CASE s # << >>
  <2>1. Len(Tail(s)) = Len(s) - 1 /\ Len(s) > 0
    BY <1>1, <1>3, HeadTailProperties, EmptySeq
  <2>2. Len(s) > PacketLen => Len(SubSeq(s, PacketLen + 1, Len(s))) = Len(s) - 4
    BY <1>1, AfterElements
  <2>3. Len(<< >>) = 0
    OBVIOUS
  <2>4. QED
    BY <1>1, <1>3, <2>1, <2>2, <2>3 DEF Popped, Drop
<1>4. QED
  BY <1>2, <1>3

LEMMA BoardEbbs ==
  ASSUME LinkTypeOK, Bounds, BoardStep
  PROVE  /\ Less \/ Same
         /\ TakePacket \/ AwaitPacket => Less
         /\ SeekInit => W' = 0 /\ (Less \/ connBroken')
<1>1. down' = down
  BY DEF BoardStep, lineVars
<1>2. CASE Poll
  BY <1>1, <1>2
  DEF Poll, TakePacket, AwaitPacket, SeekInit, Same, ToRead, ContactLeft
<1>3. CASE SeekInit
  <2>1. pc = "link" /\ connBroken /\ W' = 0
    BY <1>3 DEF SeekInit
  <2>2. ~TakePacket /\ ~AwaitPacket
    BY <2>1 DEF TakePacket, AwaitPacket
  <2>3. CASE ByteReady
    <3>1. Len(rx) > 0 /\ rx' = Popped(rx)
      BY <1>3, <2>1, <2>3, EbbFacts DEF SeekInit, ByteReady, Bounds
    <3>2. Less
      BY <1>1, <3>1, ReadLengths, EbbFacts DEF Less, ToRead
    <3>3. QED
      BY <2>1, <2>2, <3>2
  <2>4. CASE ~ByteReady
    <3>1. rx' = rx /\ connBroken'
      BY <1>3, <2>4 DEF SeekInit
    <3>2. Same
      BY <1>1, <2>1, <3>1 DEF Same, ToRead, ContactLeft
    <3>3. QED
      BY <2>1, <2>2, <3>1, <3>2
  <2>5. QED
    BY <2>3, <2>4
<1>4. CASE TakePacket
  <2>1. Len(rx) >= PacketLen /\ rx' = Drop(rx, PacketLen) /\ ~connBroken
    BY <1>4, EbbFacts DEF TakePacket, PacketReady, Bounds, PacketLen
  <2>2. Less
    BY <1>1, <2>1, ReadLengths, EbbFacts DEF Less, ToRead
  <2>3. QED
    BY <2>1, <2>2 DEF SeekInit
<1>5. CASE AwaitPacket
  <2>1. ~connBroken /\ connBroken' = TimesOut /\ uart_timeout' = RoundTimeout
    BY <1>5 DEF AwaitPacket
  <2>2. CASE PacketReady
    <3>1. Len(rx) > 0 /\ rx' = Popped(rx)
      BY <1>5, <2>2, EbbFacts DEF AwaitPacket, PacketReady, Bounds, PacketLen
    <3>2. QED
      BY <1>1, <2>1, <3>1, ReadLengths, EbbFacts DEF Less, ToRead, SeekInit
  <2>3. CASE ~PacketReady
    <3>1. rx' = rx
      BY <1>5, <2>3 DEF AwaitPacket
    <3>2. ContactLeft' < ContactLeft
      <4>1. ContactLeft = UartTimeout - uart_timeout
        BY <2>1 DEF ContactLeft
      <4>2. CASE TimesOut
        <5>1. ContactLeft' = 0
          BY <2>1, <4>2 DEF ContactLeft
        <5>2. QED
          BY <4>1, <5>1, EbbFacts
      <4>3. CASE ~TimesOut
        <5>1. uart_timeout' = uart_timeout + 1 /\ ~connBroken'
          BY <2>1, <4>3 DEF RoundTimeout
        <5>2. ContactLeft' = UartTimeout - (uart_timeout + 1)
          BY <5>1 DEF ContactLeft
        <5>3. QED
          BY <4>1, <5>2, EbbFacts
      <4>4. QED
        BY <4>2, <4>3
    <3>3. QED
      BY <1>1, <2>1, <3>1, <3>2 DEF Less, ToRead, SeekInit
  <2>4. QED
    BY <2>2, <2>3
<1>6. QED
  BY <1>2, <1>3, <1>4, <1>5 DEF BoardStep

(* And what is not a step of the link section. *)
LEMMA RestEbbs ==
  ASSUME LinkTypeOK, Bounds, LinkTypeOK', [LinkNext]_linkAll, ~run, ~BoardStep
  PROVE  Ebbs /\ ~TakePacket /\ ~AwaitPacket /\ ~SeekInit
<1> DEFINE Quiet == UNCHANGED << connBroken, uart_timeout >>
           Others == ~TakePacket /\ ~AwaitPacket /\ ~SeekInit
<1>1. Len(rx') \in Nat /\ Len(down') \in Nat
  BY LenProperties DEF LinkTypeOK, TypeOK
<1>2. ASSUME Quiet, Len(rx') <= Len(rx), Len(down') <= Len(down)
      PROVE  Ebbs
  <2>1. ContactLeft' = ContactLeft
    BY <1>2 DEF ContactLeft
  <2>2. ToRead' < ToRead \/ ToRead' = ToRead
    BY <1>1, <1>2, EbbFacts DEF ToRead
  <2>3. QED
    BY <2>1, <2>2 DEF Ebbs, Less, Same
<1>3. ASSUME UNCHANGED pc PROVE Others
  BY <1>3 DEF TakePacket, AwaitPacket, SeekInit
<1>4. ASSUME UNCHANGED vars PROVE Quiet /\ rx' = rx /\ Others
  BY <1>3, <1>4 DEF vars, linkVars
<1>5. CASE BoardControls
  BY <1>2, <1>5, EbbFacts
  DEF BoardControls, Control, lineVars, TakePacket, AwaitPacket, SeekInit
<1>6. CASE BoardWrites
  <2>1. /\ pc = "write" /\ rx' = Popped(rx) /\ down' = down /\ Quiet
    BY <1>6 DEF BoardWrites, WriteByte
  <2>2. Len(rx') <= Len(rx)
    BY <2>1, ReadLengths, EbbFacts
  <2>3. QED
    BY <1>2, <2>1, <2>2, EbbFacts DEF TakePacket, AwaitPacket, SeekInit
<1>7. CASE ToBoard
  <2>1. /\ down # << >> /\ down' = Tail(down) /\ UNCHANGED pc /\ Quiet
        /\ rx' \in {rx, Append(rx, Head(down))}
    BY <1>7 DEF ToBoard, LineIn
  <2>2. Len(down') = Len(down) - 1
    BY <2>1, HeadTailProperties, EbbFacts
  <2>3. Len(rx') <= Len(rx) + 1
    <3>1. Head(down) \in Byte
      BY <2>1, HeadTailProperties, EbbFacts
    <3>2. Len(Append(rx, Head(down))) = Len(rx) + 1
      BY <3>1, AppendProperties, EbbFacts
    <3>3. QED
      BY <2>1, <3>2, EbbFacts
  <2>4. Ebbs
    <3>1. ContactLeft' = ContactLeft
      BY <2>1 DEF ContactLeft
    <3>2. ToRead' < ToRead \/ ToRead' = ToRead
      BY <1>1, <2>2, <2>3, EbbFacts DEF ToRead
    <3>3. QED
      BY <3>1, <3>2 DEF Ebbs, Less, Same
  <2>5. QED
    BY <1>3, <2>1, <2>4
<1>8. CASE FromBoard
  BY <1>2, <1>3, <1>8, EbbFacts DEF FromBoard, LineOut, lineVars
<1>9. ASSUME NEW n, Recv(n) PROVE Ebbs /\ Others
  <2>1. UNCHANGED vars /\ down' = down
    BY <1>9
    DEF Recv, OnFrame, OnVersion, OnEcho, OnWrongVersion, OnWrongData,
        ToNobody, Reads
  <2>2. QED
    BY <1>2, <1>4, <2>1, EbbFacts
<1>10. CASE ServerRecv
  BY <1>9, <1>10 DEF ServerRecv
<1>11. ~Watch /\ ~Deaf /\ ~Reconnect
  BY DEF Watch, Deaf, GiveUp, Reconnect, MayReconnect
<1>12. CASE Fault
  <2>1. CASE LoseDown
    <3>1. UNCHANGED vars /\ Len(down') = Len(down) - 1
      BY <2>1, HeadTailProperties, EbbFacts DEF LoseDown
    <3>2. QED
      BY <1>2, <1>4, <3>1, EbbFacts
  <2>2. CASE LoseUp
    BY <1>2, <1>3, <2>2, EbbFacts DEF LoseUp, LineOut
  <2>3. CASE SplitUp
    BY <1>9, <2>3 DEF SplitUp
  <2>4. CASE Late
    BY <1>2, <2>4, EbbFacts
    DEF Late, Control, TakePacket, AwaitPacket, SeekInit
  <2>5. QED
    BY <1>11, <1>12, <2>1, <2>2, <2>3, <2>4 DEF Fault
<1>13. CASE UNCHANGED linkAll
  BY <1>2, <1>4, <1>13, EbbFacts DEF linkAll, lineVars
<1>14. QED
  BY <1>5, <1>6, <1>7, <1>8, <1>10, <1>11, <1>12, <1>13 DEF LinkNext

(* When the server has ended the board is in contact, or gets it back from *)
(* what is left over, in finitely many rounds only, for every timeout and  *)
(* whatever lies in the FIFO and on the line (ContactEnds above, the       *)
(* variant behind StopsWithServer).                                        *)
THEOREM ContactEndsHolds == LinkSpec => ContactEnds
<1> DEFINE Step == ~run =>
                     /\ ~run' /\ Ebbs
                     /\ TakePacket \/ AwaitPacket => Less
                     /\ SeekInit => W' = 0 /\ (Less \/ connBroken')
<1>1. ASSUME LinkTypeOK, Bounds, LinkTypeOK', [LinkNext]_linkAll, ~run
      PROVE  /\ ~run' /\ Ebbs
             /\ TakePacket \/ AwaitPacket => Less
             /\ SeekInit => W' = 0 /\ (Less \/ connBroken')
  <2>1. ~run'
    BY <1>1
    DEF LinkNext, BoardStep, BoardControls, BoardWrites, ToBoard, FromBoard,
        ServerRecv, Recv, OnFrame, OnVersion, OnEcho, OnWrongVersion,
        OnWrongData, ToNobody, Watch, Reconnect, Fault, LoseDown, LoseUp,
        SplitUp, Late, Deaf, GiveUp, serverVars, linkAll
  <2>2. CASE BoardStep
    BY <1>1, <2>1, <2>2, BoardEbbs DEF Ebbs
  <2>3. CASE ~BoardStep
    BY <1>1, <2>1, <2>3, RestEbbs
  <2>4. QED
    BY <2>2, <2>3
<1>2. LinkTypeOK /\ Bounds /\ LinkTypeOK' /\ [LinkNext]_linkAll
        => [Step]_linkAll
  BY <1>1
<1>3. QED
  BY <1>2, LinkTypeCorrect, PTL DEF LinkSpec, ContactEnds
=============================================================================
