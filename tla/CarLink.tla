------------------------------- MODULE CarLink -------------------------------
(***************************************************************************)
(* The link between the car server and one motor board, end to end: the    *)
(* board of module NanoBoard, the converter between its serial line and    *)
(* TCP, and what the server does with that board (carserver.c, lines       *)
(* 242-285 and 353-418).  It is a conversation: the server opens with 'I', *)
(* the board answers with its version, and from then on each waits for the *)
(* other, a packet for a response and a response for a packet.  Nothing    *)
(* numbers, acknowledges or checks what is said.                           *)
(*                                                                         *)
(* Faults: the line loses a byte, either way; TCP delivers an answer in    *)
(* pieces; the server gives the board up while an answer is on its way,    *)
(* because it was held up elsewhere.  There are at most MaxFaults of them. *)
(*                                                                         *)
(* The converter is not part of the repository.  It keeps bytes in order,  *)
(* packs what arrives without a pause, keeps what is on its way when the   *)
(* server reconnects, serves whoever connected last, and drops the board's *)
(* bytes when nobody is connected.  The other boards stay connected, so    *)
(* that the loss of this one does not end the server (line 395).           *)
(***************************************************************************)
EXTENDS NanoBoard

CONSTANTS
  Payload,       \* what the server may send: the three bytes of an indat
  MaxFaults,     \* bound on the faults of a behaviour
  MaxDown        \* bound on the bytes the converter holds for the board

ASSUME CarLinkAssumption ==
  /\ Payload \subseteq Byte \X Byte \X Byte
  /\ MaxFaults \in Nat
  /\ MaxDown \in Nat /\ MaxDown >= PacketLen + 1

VARIABLES
  run,           \* the server's loop goes on
  conn,          \* the server holds a connection to the board
  init,          \* nano[i].init: the version string is expected
  up,            \* its bit in conn_boards
  due,           \* not up, but frames came for so long that the board is
                 \* to be connected again
  down,          \* bytes on their way to the board
  wire,          \* bytes on their way to the server, those of the board's
                 \* write FIFO, the last tx of them, included
  faults,        \* faults that may still happen
  \* history variables: no step reads them
  missed,        \* a byte never got into the board's read FIFO
  garbled        \* an answer lost a byte or was delivered in pieces

serverVars == << run, conn, init, up, due >>
lineVars   == << down, wire, faults >>
mishaps    == << missed, garbled >>
linkAll    == << vars, serverVars, lineVars, mishaps >>

(* A byte of an answer: of which one, and how many of it were left. *)
Tag == {"version", "response"} \X (1 .. (VersionLen + ResponseLen))

LinkTypeOK ==
  /\ TypeOK
  /\ run \in BOOLEAN /\ conn \in BOOLEAN /\ init \in BOOLEAN
  /\ up \in BOOLEAN /\ due \in BOOLEAN
  /\ down \in Seq(Byte) /\ Len(down) <= MaxDown
  /\ wire \in Seq(Tag) /\ tx <= Len(wire)
  /\ faults \in 0 .. MaxFaults
  /\ missed \in BOOLEAN /\ garbled \in BOOLEAN

(* The server has connected and said 'I' (lines 188-206).                  *)
LinkInit ==
  /\ Init
  /\ run = TRUE /\ conn = TRUE /\ init = TRUE /\ up = TRUE /\ due = FALSE
  /\ down = << InitChar >> /\ wire = << >>
  /\ faults = MaxFaults
  /\ missed = FALSE /\ garbled = FALSE

-----------------------------------------------------------------------------
(* The board and the serial line. *)

BoardStep ==
  /\ Poll \/ SeekInit \/ TakePacket \/ AwaitPacket
  /\ UNCHANGED << serverVars, lineVars, mishaps >>

(* The motor section waits for delay(5000), longer than anything that is   *)
(* under way needs to arrive and to be answered by the server.             *)
Arrived == down = << >> /\ tx = 0 /\ wire = << >>

BoardControls ==
  /\ Arrived /\ Control
  /\ UNCHANGED << serverVars, lineVars, mishaps >>

BoardWrites ==
  /\ WriteByte
  /\ wire' = IF tx < TxDepth THEN Append(wire, << answer, left >>) ELSE wire
  /\ garbled' = (garbled \/ tx = TxDepth)
  /\ UNCHANGED << serverVars, down, faults, missed >>

ToBoard ==
  /\ down # << >>
  /\ LineIn(Head(down))
  /\ down' = Tail(down)
  /\ missed' = (missed \/ Len(rx) = RxDepth)
  /\ UNCHANGED << serverVars, wire, faults, garbled >>

FromBoard == LineOut /\ UNCHANGED << serverVars, lineVars, mishaps >>

-----------------------------------------------------------------------------
(* The server. *)

FullLen(ans) == IF ans = "version" THEN VersionLen ELSE ResponseLen

(* The first n bytes of the wire are packed together: a pause follows.     *)
Pause(n) ==
  \/ n = Len(wire) /\ tx = 0 /\ pc # "write"
  \/ n < Len(wire) /\ wire[n + 1][2] = FullLen(wire[n + 1][1])

(* What one recv can return. *)
Packed == {n \in 1 .. (Len(wire) - tx) : Pause(n)}

Chunk(n) == SubSeq(wire, 1, n)
After(n) == SubSeq(wire, n + 1, Len(wire))

(* Mutant of Whole: a byte more expected than there is. *)
WholeLong(c, ans) ==
  /\ Len(c) = FullLen(ans) + 1
  /\ \A k \in 1 .. Len(c) : c[k] = << ans, Len(c) - k + 1 >>

Whole(c, ans) ==
  /\ Len(c) = FullLen(ans)
  /\ \A k \in 1 .. Len(c) : c[k] = << ans, Len(c) - k + 1 >>

(* A piece may start with 'I' or 'R' if its first byte is of a response.   *)
MayEcho(c)  == c[1][1] = "response"
MustEcho(c) == c[1] = << "response", ResponseLen >>

Say(bytes) ==
  /\ Len(down) + Len(bytes) <= MaxDown
  /\ down' = down \o bytes

(* Mutant of SendPacket: the start byte not counted, a byte is missing. *)
SendPacketShort == \E p \in Payload : Say(<< StartChar, p[1], p[2] >>)

(* Lines 405-410: the next indat. *)
SendPacket == \E p \in Payload : Say(<< StartChar, p[1], p[2], p[3] >>)

Reads(n) == wire' = After(n) /\ UNCHANGED vars

(* A whole frame, whether or not the version was seen; lines 400-418.      *)
(* Without the version the bit of the board stays off, and a second later  *)
(* line 260 finds a board to be reconnected.                               *)
OnFrame(n) ==
  /\ run /\ conn /\ Whole(Chunk(n), "response")
  /\ Reads(n) /\ SendPacket
  /\ due' = ~up
  /\ UNCHANGED << run, conn, init, up >>

(* The version that is expected; lines 369-384. *)
OnVersion(n) ==
  /\ run /\ conn /\ init /\ Whole(Chunk(n), "version")
  /\ Reads(n) /\ SendPacket
  /\ init' = FALSE /\ up' = TRUE /\ due' = FALSE
  /\ UNCHANGED << run, conn >>

Odd(c) == ~Whole(c, "response") /\ ~(init /\ Whole(c, "version"))

(* Lines 375-378: it starts with 'I' or 'R' and is ignored. *)
OnEcho(n) ==
  /\ run /\ conn /\ init /\ Odd(Chunk(n)) /\ MayEcho(Chunk(n))
  /\ Reads(n)
  /\ UNCHANGED << serverVars, down >>

(* Lines 379-380: a wrong version ends the server, after this pass. *)
OnWrongVersion(n) ==
  /\ run /\ conn /\ init /\ Odd(Chunk(n)) /\ ~MustEcho(Chunk(n))
  /\ Reads(n) /\ SendPacket
  /\ run' = FALSE /\ conn' = FALSE /\ init' = FALSE
  /\ UNCHANGED << up, due >>

(* Lines 386-399: wrong data drops the board. *)
OnWrongData(n) ==
  /\ run /\ conn /\ ~init /\ Odd(Chunk(n))
  /\ Reads(n)
  /\ conn' = FALSE /\ up' = FALSE /\ due' = FALSE
  /\ UNCHANGED << run, init, down >>

(* Nobody is connected: the converter drops what the board says. *)
ToNobody(n) ==
  /\ ~conn
  /\ Reads(n)
  /\ UNCHANGED << serverVars, down >>

Recv(n) ==
  \/ OnFrame(n) \/ OnVersion(n) \/ OnEcho(n) \/ OnWrongVersion(n)
  \/ OnWrongData(n) \/ ToNobody(n)

(* The answers of a chunk run together: another one starts inside it.      *)
RunTogether(n) == \E k \in 1 .. n - 1 : wire[k + 1][2] = FullLen(wire[k + 1][1])

ServerRecv ==
  /\ \E n \in Packed : Recv(n) /\ garbled' = (garbled \/ RunTogether(n))
  /\ UNCHANGED << faults, missed >>

(* Mutant of Silent: the server's second is over before the board's rounds. *)
SilentSoon == down = << >> /\ wire = << >> /\ pc # "write"

(* Nothing is on its way and the board, out of contact, has nothing to     *)
(* answer.  Its UartTimeout rounds are over long before the second in      *)
(* which the server counts messages.                                       *)
Silent ==
  /\ down = << >> /\ wire = << >>
  /\ pc # "write" /\ connBroken
  /\ \A k \in 1 .. Len(rx) : rx[k] # InitChar

GiveUp ==
  /\ run /\ conn
  /\ conn' = FALSE /\ up' = FALSE /\ due' = FALSE
  /\ UNCHANGED << vars, run, init, down, wire >>

(* The watchdog, lines 243-255. *)
Watch == Silent /\ GiveUp /\ UNCHANGED << faults, mishaps >>

MayReconnect == run /\ ~up /\ (conn => due)

(* What the old connection brought and nobody has read. *)
Unread ==
  \/ wire' = wire
  \/ conn /\ \E n \in Packed : wire' = After(n)

(* Mutant of Reconnect: the version is not expected again. *)
ReconnectAsBefore ==
  /\ MayReconnect
  /\ Say(<< InitChar >>) /\ Unread
  /\ conn' = TRUE /\ due' = FALSE
  /\ UNCHANGED << vars, run, init, up, faults, mishaps >>

(* Lines 259-285.  A board that talks, but whose bit is off, is connected  *)
(* a second time, over the connection it has.                              *)
Reconnect ==
  /\ MayReconnect
  /\ Say(<< InitChar >>) /\ Unread
  /\ conn' = TRUE /\ init' = TRUE /\ due' = FALSE
  /\ UNCHANGED << vars, run, up, faults, mishaps >>

-----------------------------------------------------------------------------
(* Faults.  SplitUp: TCP delivers a part of what was packed.  Late: a round *)
(* goes by before everything has arrived.  Deaf: the server, held up, finds *)
(* the second over and gives the board up.                                 *)

Without(s, k) == SubSeq(s, 1, k - 1) \o SubSeq(s, k + 1, Len(s))

LoseDown ==
  /\ down # << >>
  /\ down' = Tail(down)
  /\ missed' = TRUE
  /\ UNCHANGED << vars, serverVars, wire, garbled >>

LoseUp ==
  /\ LineOut
  /\ wire' = Without(wire, Len(wire) - tx + 1)
  /\ garbled' = TRUE
  /\ UNCHANGED << serverVars, down, missed >>

SplitUp ==
  /\ \E n \in 1 .. (Len(wire) - tx) : n \notin Packed /\ Recv(n)
  /\ garbled' = TRUE
  /\ UNCHANGED missed

Late ==
  /\ ~Arrived /\ Control
  /\ UNCHANGED << serverVars, down, wire, mishaps >>

Deaf == ~Silent /\ GiveUp /\ UNCHANGED mishaps

Fault ==
  /\ faults > 0
  /\ faults' = faults - 1
  /\ \/ LoseDown \/ LoseUp \/ SplitUp \/ Late \/ Deaf

-----------------------------------------------------------------------------

LinkNext ==
  \/ BoardStep \/ BoardControls \/ BoardWrites \/ ToBoard \/ FromBoard
  \/ ServerRecv \/ Watch \/ Reconnect \/ Fault

LinkSpec == LinkInit /\ [][LinkNext]_linkAll

(* Board and server keep running, the line and TCP keep moving what is     *)
(* under way, and the clock of the server goes on.                         *)
LinkFairSpec ==
  /\ LinkSpec
  /\ WF_linkAll(BoardStep \/ BoardControls \/ BoardWrites)
  /\ WF_linkAll(ToBoard) /\ WF_linkAll(FromBoard)
  /\ WF_linkAll(ServerRecv) /\ WF_linkAll(Watch) /\ WF_linkAll(Reconnect)

-----------------------------------------------------------------------------
(* Safety. *)

(* Packets have no checksum and no length (main.c, lines 228-240), a board *)
(* that lost contact reads on in the middle of whatever is there, and its  *)
(* answers discard input.  As long as every byte gets into the read FIFO,  *)
(* and no payload holds an 'S', the motor still never follows a set point  *)
(* the server did not send, whatever was late, discarded, given up or      *)
(* opened again, and also when an 'I' in a payload opened the link.        *)
AsSent == ~missed => W \in {0} \cup {p[3] : p \in Payload}

(* A response is written without a look at the space of the write FIFO     *)
(* (main.c, lines 250-254), in a FIFO that holds a version and a response. *)
(* It takes more than MaxFaults faults to have more than these under way:  *)
(* the server speaks only when it was answered, and a stale response or a  *)
(* second version starts at most one more conversation.                    *)
AnswersWhole == pc = "write" /\ answer = "response" => tx < TxDepth

(* A wrong version ends the server (carserver.c, line 380), and with it    *)
(* the other boards.  Neither a reconnection in the middle of an answer    *)
(* nor a frame ahead of the version is taken for one: the server ends only *)
(* over answers that lost bytes, came in pieces or ran together.           *)
ServerSurvives == ~run => garbled

-----------------------------------------------------------------------------
(* Liveness. *)

(* Every fault is got over: after the last one server and board exchange   *)
(* packets and responses again and again, unless the fault ended the       *)
(* server.  Each side waits for the other to speak; what breaks the        *)
(* silence is the board's timeout (main.c, lines 219-226), after which it  *)
(* listens for 'I' again, with the server's watchdog and reconnection.     *)
Recovers == []<>(~run \/ (pc = "write" /\ answer = "response"))

(* When the server ends the motor comes to rest for good: nothing that is  *)
(* still under way or left over in a FIFO keeps the board in contact.      *)
StopsWithServer == ~run ~> [](W = 0)
=============================================================================
