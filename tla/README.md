# A TLA+ model of the LEGO car (lego_ss2014)

The repository builds a car with four driven wheels. Every wheel has a *motor
board* (an Altera FPGA with a Nios II processor) that regulates its motor and
reads sensors. A small Linux computer on the car runs the *car server*, which
keeps a TCP connection to each of the boards through network-to-serial
converters and a local socket to a *web client*; a browser or an Android
application posts the position of a joystick to the web client.

    browser --HTTP--> client.py --local socket--> carserver --TCP--> converter --RS232--> board (x4)
    Android camera view <--MJPEG over HTTP-- a camera

The modules here model the boards' firmware, the car server and the link
between them, the two parts that decide whether the car moves; and the way of
the user's command to them, with the two user interfaces. TLC checks them on
small instances and TLAPS proves the safety properties, and the variants behind
the liveness properties, for every value of the constants.

## 1. Inventory

Paths are relative to `src/`. "State" names the program's variables.

### Motor board main loop - `Nanoboard/Nanoboard/main.c`
* State: `connBroken`, `uart_timeout`, `indat` (flags and set point of the last
  packet, not initialised), `outdat.values.W`, the two FIFOs of the serial port.
* Operations: look for `'I'` when there is no contact and answer it with the
  version string; take a packet `'S'`+`indat` and answer it with `'R'`+`outdat`;
  count the rounds without a packet and give up contact after 50; read battery,
  distance and acceleration; run the motor section.
* Interaction: bytes to and from the serial line at any time; reads `indat` in
  the motor section.
* Hard: the number of bytes in the FIFO is measured once a round; the driver's
  `alt_up_rs232_write_data` itself reads (and so discards) input; `write_string`
  waits inside the loop that controls the motor; the timeout may expire in the
  round that takes a packet.
* Correct when: a set point does not outlive the contact (dead man); nothing is
  regulated from uninitialised data; a packet is read only when it is there; a
  lost contact can always be re-established; the loop never hangs.

### Motor controller - `Nanoboard/Nanoboard/main.c:284-370`
* State: `I`, `prevW`, `X`, `duty`, `enMotorController`, `setEnMotorwasoff`,
  `connection_broken_counter`, `outdat.values.connBroken`.
* Operations: a round enabled (PID law in machine integers, dead zone, clamp,
  stall counter) or disabled (motor off, wait for `setEn` off and on again).
* Hard: wrap-around of the integral, `abs` of the least integer, a stall counter
  that is frozen while its enabling flag is off.
* Correct when: a stalled wheel is switched off and comes back only after
  `setEn` was seen off; every enabling starts from a cleared controller.

### RS232 driver - `Nanoboard/Nanoboard_bsp/new_Uart_bsp/drivers/src/altera_up_avalon_rs232.c`
* State: the FIFOs in hardware. Operations: read, write, used and free space.
* Hard: reading the data register is a side effect, and the write does it too.

### Ultrasound and acceleration sensors - `Nanoboard/Nanoboard/Ultrasound_interface.h`, `.../ultrasoundExample/ultrasound/Ultrasound_interface.v`, `.../Accelerometer_interface.h`
* State: the FPGA's measuring machine and its register; sums of samples in
  shorts. Operations: trigger, poll, convert; calibrate, sample, hand out.
* Hard: the state register is read some clocks after the trigger; the machine
  waits for an echo without a timeout; the sums wrap when packets stay away.

### Car server event loop - `carserver/carserver/src/carserver.c`
* State: `nano[i].sd`, `nano[i].init`, `conn_boards`, `conn_ctr`, `conn_timer`,
  `last_conn_attempt`, `sd_dom`, `sd_dom_srv`, the descriptor sets, `run`.
* Operations: startup; watchdog; reconnection; `select`; accept; a client's
  command; a board's frame and its answer; shutdown; a signal.
* Interaction: calls `handle_car` and `parse_command`; sockets to the peers.
* Hard: one thread serves all; descriptor numbers are kept after `close`, closed
  again and given away anew; `recv` blocks; `SIGPIPE`; failure of one step of
  several; boards that fall silent; failing connects.
* Correct when: `select` gets exactly the open descriptors the loop uses; no
  board is forgotten; a silent board is noticed; a signal ends the process; what
  arrives from board i is answered to board i.

### Car handler - `carserver/carserver/src/car_handler.c`
* State: `struct car` (speeds, batteries, distances), `indat.values.W` of each
  board, the configuration's switches.
* Operations: `parse_command`, `battery_handler`, `dist_handler`, `handle_car`.
* Hard: signs (backward, mirrored wheels, -1 for "no obstacle"), the order of
  the handlers, the values before the first frame, and that set points are
  computed at the top of a pass and sent at its end.
* Correct when: handlers only slow the car down; an obstacle stops it in its
  direction; an unknown battery keeps it still; a stop takes effect.

### Web client server - `carserver/carserver/client.py`, `start_carserver.sh`
* State: `sock`, the socket to the car server; the file `carserver_socket`,
  which the two share.
* Operations: connect at the start, or remove a file nobody answers on; a post:
  two numbers to two speeds, send, receive; on an error a new socket and a
  second try.
* Hard: the car server may end and start again at any moment; the file may be
  one of a server that is gone; both sides remove it; `recv` waits.
* Correct when: an answer belongs to the command that was sent; after a restart
  of the car server the commands get there again.

### Browser remote control - `carserver/carserver/remoter/custom.js`
* State: `dx_prev`, `dy_prev`, `n`. Operations: sample the joystick 30 times a
  second; post its position when it changed, and every 30th sample while it is
  held; posts run beside each other, and a failed one is forgotten.
* Correct when: the car follows a joystick that is held, and stops when it is
  let go.

### Android app - `android_app/src/com/camera/simplemjpeg/`
* State: `JoyStickClass`: position and `touch_state`. `MjpegActivity`:
  `suspending`. `MjpegView`: `mRun`, `surfaceDone`, `suspending`, `mIn`,
  `thread`. `ImageProc.c`: the buffer `rgb`.
* Operations: a touch posts (`DoPost`, an `AsyncTask`); the life cycle of the
  activity; `DoRead` connects to the camera in the background; the surface comes
  and goes; a thread reads frames and draws them.
* Hard: three kinds of threads on unlocked fields; `thread.join` in callbacks;
  a connection that comes up when the activity has moved on; a position read in
  two steps.
* Correct when: nothing is drawn, read or freed that is gone, and the picture
  comes back.

### The other parts
| part | what it is | here |
|---|---|---|
| network-to-serial converter | bytes between a socket and the line; no code in the repository | external, in CarLink |
| `carserver/car_handler.c` | a later car handler, outside the build, that blinks LEDs | not modelled |
| `.../Accelerometer_interface.h` | sums for the display | not modelled |
| `carserver/carserver/nanosim.py`, `src/test.c` | test aids | not modelled |
| `SettingsActivity.java` | forms | not modelled |
| libjpeg, Altera board support, jQuery, Bootstrap, virtual joystick | third-party or generated | not modelled |

PROJECT.json lists all of them under "components" and, under "hazards", every
place in the code where something can go wrong that a test would hardly reach.

## 2. The modules

### MotorLatch, the abstract motor section
What the motor section promises, with the control law reduced to the class of
the duty it asks for (`off`, `some`, `max`): `Regulate` is a round with the
controller enabled, `Rest` one with it disabled. It is used twice: NanoBoard
takes its actions as its motor step, and MotorController implements it.

### MotorController, the motor section with its arithmetic
`Regulate(x)` and `Rest(x)` are the two branches at main.c:285 and :349, with
`Integral`, `Sum`, `Clamp`, `StallCount` and `Trips` for lines 300-342 in `int`
arithmetic of width 2·HalfRange (`Wrap`, `AbsInt`). `Receive` is the link section
seen from here: it may replace the command between two rounds. The wheel's speed
`x` is anything the encoder can read. `ImplementsLatch` is the refinement, with
`pwm <- DutyOf(duty)`.

### NanoBoard, the main loop
One round is `Poll` (line 186), one of `SeekInit` (187-205), `TakePacket`
(228-256) and `AwaitPacket`, then `WriteByte` once for each byte of an answer,
then `Control` (the motor section). `LineIn` and `LineOut` are the serial line,
between any two of these. `WriteByte` takes a byte of input away because the
driver does. A packet is `'S'` and three bytes: the payload of the code has more
bytes, which are treated alike. `Byte` includes the characters `'I'` and `'S'`,
so that payloads and garbage look like the start of something.

History variables: `age` (rounds since the last packet was taken, bounded by
`AgeBound` = UartTimeout+1), `fed` (a packet was taken), `tripped` (a stall
tripped and `setEn` was not seen off since).

### CarServer, the event loop
One action for each thing a pass can do, named in the module's head. The kernel's
descriptor table `sock` says who has which number (`NextFd` is the lowest free
one, as POSIX demands), whether the peer is there, and which input is unread:
`recv` takes all of it, so one chunk per connection is enough, and its kinds are
those the code tells apart. `StartBoard` .. `OpenListener` are lines 160-237,
`Watch` 241-255, `Reconnect` 259-285 (a board at a step, since `connect` may
block), `Select` 287-295, `Accept` 298-312, `ClientStep` 315-352, `BoardStep`
354-419 (a board at a step), `Shutdown` 421-432, `Signal` the handler. A blocking
`recv` is a step that is not enabled. Peers, clock and signals act between any
two steps; MCCarServer lets them act where the program can notice them
(before `select`, while `recv` blocks, where `time()` is read), which its head
justifies, to keep the state space small.

Times are kept as their distance from now, capped where the code's comparisons
no longer change (`WatchMax`, `TryMax`). A message counter is capped at
`MIN_MSGS`, the value it is compared with.

Where the code passes -1 to `FD_SET`, `FD_CLR` or `FD_ISSET` (after a failed
`socket` or `accept`) the C library's macros touch bit 63 of the first word of
the set, so that this matters only to a descriptor 63; the model treats it as no
effect.

### CarHandler, what the server computes
`HandleCar` is `handle_car`; `AfterBattery`, `AfterFront`, `AfterRear` are the
three handlers in the order of lines 150-171; `MAX` and `MIN` are translated as
they are defined, and `MIN` has the body of `MAX`. `ParseCommand`, `NoCommand`
and `ClientGone` are the client's part of a pass, `Frame`, `Greeted` and
`NoFrame` that of each board. The switches of the configuration are chosen once,
at `Init`. Numbers are fixed-point: `Unit` stands for 1.0.

History variables: `heard` (which battery boards have reported), `late` (answers
other than 0 after a command to stop, capped at `LateBound` = 2).

### Ultrasound, the distance sensor
One step is one clock. `Machine` is the state machine of Ultrasound_interface.v
(`Idle`, `Trigger`, `WaitFeedback`, `MeasureOn` and `MeasureEnds` are its four
states), `Sample` the synchronisers for the control bit and the echo, and
`Access` the driver `handle_measuredis`, which makes one register access in a
clock or none (`NoAccess`), and at least `Gap` clocks pass between two calls.
The echo is any signal at all. The blocking `measuredis` is not called anywhere
and not modelled. History variables: `echo` and `lastEcho` (how long the input
has been, or was, high, capped at `EchoBound` = Limit+1), `fresh` (a measurement
ended since the last trigger).

### CarLink, server and board in conversation
EXTENDS NanoBoard: the board's variables and actions are those of NanoBoard, one
by one, and to them come the server's part for one board and what lies between.
`down` and `wire` are the bytes on their way; a byte of an answer is known by
its answer and its place (`Tag`), which is all the server's comparisons with
`sizeof(outdata)+1` and with the version string tell apart. `Recv(n)` is one
pass of carserver.c:354-419 over what one `recv` returned: `OnFrame`,
`OnVersion`, `OnEcho`, `OnWrongVersion`, `OnWrongData`. `Watch` is the watchdog,
`Reconnect` lines 259-285, also the second connection that is opened over a first
one which carries frames but never brought the version (`up`, `due`).

The timing of the system is kept by what has to be over before a step: a motor
section waits until nothing is under way (`Arrived`; it contains `delay(5000)`),
and the server's second is over when the board is out of contact (`Silent`; 50
rounds against a second). Where either is too strong a *fault* breaks it: `Late`
is a round that does not wait, `Deaf` a server that gives up early because it was
held up; the others are a byte lost either way and an answer delivered in pieces.

Of the converter, which is not in the repository, the module assumes: order is
kept; what comes without a pause is packed together; what is on its way survives
a reconnection; the last connection is served; without one, bytes are dropped.
The other boards stay connected (their loss would end the server, line 395).

History variables: `missed` (a byte never got into the board's FIFO), `garbled`
(an answer lost a byte, came in pieces, or ran together with another).

### RemoteControl, from the stick to the speeds
`Sample` is the timer function of custom.js, `Touch` and `DoPost` (`GetX`, `GetY`)
those of the app; which device holds the stick is chosen at `Init`. `Web` is
client.py, an action for each call that can fail or wait: `Looks`, `Connect`,
`Remove` at its start, `Take`, `SendTo`, `RecvAnswer`, `RecvNothing`,
`FirstFails`, `Look`, `Dial`, `SecondFails` for a post. `Starts` and `Command` are
the car server seen from there (`open_dom` in its three system calls). The app's
tasks run one after the other (`AsyncTask` with targetSdkVersion 19), so a post
is read from the stick when the one before is over. Positions are in half
pixels: one with a fraction is skipped by `int(t)` and the post fails. Speeds are
kept as (dx - dy, -(dx + dy)), from which the code's angles and lengths follow.
Faults: the car server ends, in order or not; a post is lost; a post overtakes
another.

### Posts, what the way from the stick promises
The abstract specification RemoteControl implements (`ImplementsPosts`): a queue of
posts, the one that is served (`current`) and the speeds. Posts are served in the
order of the queue, each is `Followed` at most once, and one that is `GivenUp`
leaves a car that stands; posts may be lost or overtake each other while they
wait, and when the car server has `Ended` the car stands. The mapping is
`queue <- posts`, and `current` is client.py's post while it has had no effect
(`Underway`): the sockets, the file, both attempts of client.py and the start and
end of the car server between them do not show.

### MjpegPlayer, the app's picture
Callbacks and results are steps of the UI thread, one at a time, `ui` says
whether it waits in `stopPlayback`; `Connected` is the background; `Loop`,
`ReadMjpegFrame` and `Draw` are the drawing thread, which sees the fields later
than they are written (`sees`, `Refresh`). Every exception the code does not
catch is a step that sets `crashed`: a second `start`, a `null` stream, a `null`
canvas. There may be more threads than one (`Thread`); that there are not is a
result. RestartApp ends this activity and begins another, which is a behaviour
from the start.

The MC modules give the constants small values and, for CarServer, the restricted
environment. MCClients puts RemoteControl and MjpegPlayer side by side; they share
no variable, and `half` lets a behaviour move only one of them, so that a run
visits the sum of their states and not the product. The modules `*Proofs` hold
the theorems.

### How they fit together
CarServer decides *when* commands and frames move; CarHandler decides *what* is
computed from them, and its passes are those of CarServer with the descriptors
left out: every pass that reaches "boards" visits all four in order, and a client
that leaves cuts it short. NanoBoard is the other end of a board's connection,
and CarLink composes it with the server's half of the conversation. RemoteControl
is the other end of the client's connection.

## 3. The runs

| run | question | instance |
|---|---|---|
| NanoBoard | dead man (`Deadman`), no use of uninitialised flags (`NoUninitialisedRead`), a stall stays off across any traffic (`TripLatch`), packets are whole (`PacketWhole`), an `'I'` in the FIFO is found (`HandshakeHeard`), the loop goes on (`LoopProgress`) | timeout 2 rounds, stall limit 1, read FIFO 4 bytes, write FIFO 1, answers of 1 and 2 bytes |
| NanoBoardDiscard | violated: input leaves the FIFO only where the program reads | as NanoBoard |
| MotorController | `ImplementsLatch`; a stalled wheel is switched off (`StallEndsDrive`); a fresh start (`FreshStart`) | an int of 6 bits (HalfRange 32), clamp 7, dead zone 2, stall limit 2 |
| CarServerBoards | the descriptor sets (`SelectSetOpen`, `LiveIsWatched`, `ListenerOpen`) | two boards, no client, 3 descriptors |
| CarServerClient | liveness, with a client: `Retried`, `SilentDropped`, `StopEnds` | one board, clients, 3 descriptors |
| CarServerCrossed | violated: the input read for board i is board i's | one board, clients |
| CarServerLeak | violated: there is a descriptor to reconnect with | one board, 5 descriptors |
| CarHandler | `OnlySlower`, `RearObstacleStops`, `FreeRearUnlimited`, `NoDriveUnheard`, `StopSoon` | all eight switch settings, sensors as in carserver.cfg |
| CarHandlerFront | violated: an obstacle in front stops the car | the same |
| Ultrasound | a reading is that of the driver's own trigger (`FreshReading`) and exactly the echo (`EchoExact`); readings go on (`MeasuresOn`) | pulse 2, limit 3, gap 2 clocks |
| CarLink | the motor follows only what was sent (`AsSent`); answers fit into the write FIFO (`AnswersWhole`); the server survives (`ServerSurvives`); the conversation comes back (`Recovers`); the motor stops with the server (`StopsWithServer`) | 3 faults, read FIFO 6, write FIFO 3, version 1 byte, response 2, a packet whose set point is `'I'` |
| Clients | `ImplementsPosts`: posts are followed in order and at most once; `HeldFollowed`, `FollowsOrStops`: the car follows the stick; `NeverCrashes`, `PictureComesBack`: the app's picture | 3 positions, held posts every 2 samples, 3 posts, 3 faults; 2 drawing threads |

Why the bounds are enough:
* *NanoBoard.* Every comparison of a counter with its limit is passed from both
  sides; the read FIFO holds a packet, so that the rest of one packet
  precedes the next; an answer of 2 bytes discards input in two steps and
  overflows a write FIFO of 1. The theorems of section 4 remove the bounds for
  the safety properties.
* *MotorController.* The integral grows to the clamp in a few rounds and to the
  end of the integer range when the wheel turns but too slowly, so overflow
  happens; the least integer is reached. The theorems hold for every width.
* *CarServer.* Three descriptors for two boards and the listener (or for a
  board, the listener and a client) are exactly what the program needs, so every
  extra one exhausts the table and every freed number is soon given away again.
  `Grace` = 0 drops the three seconds without reconnection, which only delay the
  first attempt. Two boards are enough for one board's step to disturb another.
  The client and the second board are in separate runs for the size of the state
  space: with both, and the listener, a run is out of reach. The safety properties
  are run with the two boards only; the theorems have them for any number of
  boards and with clients.
* *CarHandler.* Commands -1, -1/2, 0, 1 and one out of range; a distance in each
  region of the rule, and -1. All four boards.

* *Ultrasound.* Echoes shorter than, equal to and longer than the limit, echoes
  that are on at the trigger, and calls at any pace from the gap on. The theorems
  hold for all lengths; the gap of 2 is the least they allow, and the least the
  code allows: with a gap of 1 the driver can read "ready" before the machine
  has seen its trigger.
* *CarLink.* The write FIFO holds a version and a response and no byte more, as
  the claim of `AnswersWhole` needs; the read FIFO a packet, an `'I'` and a byte.
  Three faults are enough to give a board up, open it again and meet the old
  answer, to open it a second time over the first, and to hurt the result once
  more. `MaxDown` = 13 bytes under way are
  more than ever are (10), so that this bound excludes nothing. The set point that
  looks like `'I'` lets a payload open the link. `ServerSurvives`, `AsSent`,
  `AnswersWhole` and the types are theorems without the bounds (`AnswersWhole` for
  FIFOs that are larger than this one, see section 4).
* *Clients.* Two positions besides the centre, one of which client.py cannot
  read; posts are repeated, overtake each other and fill the queue (3); 3 faults
  are a server that ends twice and a lost post. Two threads show that no second
  one is started.

CHECK_DEADLOCK is off for CarServer (the process ends, and a `recv` on a crossed
descriptor may wait for ever), for CarLink (the server may end) and for Clients
(nobody has to touch the stick, and the activity ends).

Each property has in PROJECT.json a *mutant*, a plausible bug in
one definition under which the same run finds the property violated.

### Fairness
* NanoBoard, `FairSpec`: `WF(Loop)`, the processor runs its loop;
  `WF(LineOut)`, the line shifts out what the FIFO holds (there is no flow
  control). Input owes nothing.
* MotorController: `WF(Round)`, for the same reason. `StallEndsDrive` has its own
  premise (the wheel stands, the set point stays, the counter is on).
* CarServer, `MCFairSpec`: `WF(Serve)`, the process is scheduled and `connect`
  returns in the end; `SF(MCTick)`, the clock runs on: the model admits a tick
  at two places of the pass only, and the real clock does not depend on the
  program being there. Peers, clients and signals owe nothing.
* Ultrasound, `FairSpec`: `WF(Next)`, the clock runs; `WF(Clock /\ Access)`, the
  main loop calls the driver again and again (its loop does not end). `MeasuresOn`
  has its own premise, that echoes come: `wait_feedback` has no timeout.
* CarLink, `LinkFairSpec`: the board's loop, the line in both directions, the
  server's `recv`, watchdog and reconnection go on. Faults owe nothing and are
  finitely many in a behaviour, which is what "after the last fault" means.
* Clients, `MCFairSpec`: the page's timer, the app's executor, client.py and a
  car server that runs go on; the UI thread and background get on; the camera
  answers or its socket times out (5 s, MjpegActivity.java:263); a field that was
  written is seen by the other thread some day, which the Java memory model does
  not promise of plain fields and virtual machines do. Nobody has to move the
  stick, start a car server or bring the activity back.
* `HeldFollowed` and `FollowsOrStops` assume `[]~CutOff`: client.py, which starts
  beside the car server, may remove the new server's file or die over its absence
  (client.py:71-75). `FollowsOrStops` also needs that no post is lost or
  overtaken: the post of the stick let go is never repeated. `PictureComesBack`
  needs that every connection comes up, and while the activity is resumed: one
  that comes up in a pause is stopped with the surface without a note to start
  again.
* The three liveness properties of CarServer assume `[]~Crossed`: on a crossed
  number `recv` may wait for a peer that sends nothing (see the findings).

### What the runs found
* **A write discards input** (NanoBoardDiscard). The driver reads the data
  register before every byte it writes, and says itself that this "will discard
  the data". While a board writes an answer of 49 bytes, what arrives is lost.
  It works because the server waits for an answer before it sends again.
* **Crossed descriptors** (CarServerCrossed). A dropped board's `nano[i].sd`
  keeps the number; the next `socket` or `accept` may give the number to a client
  or another board, and `nano[i]` then reads the new owner's input, and answers
  it with board i's set point.
* **A descriptor lost at every failed connect** (CarServerLeak). The `continue`
  after a failed `connect` skips `close`; a board that is off uses up the
  descriptor table in time.
* **`MIN` is `MAX`** (CarHandlerFront). The front distance handler raises the
  speed to its limit instead of lowering it. `OnlySlower` and `FreeRearUnlimited`
  therefore exclude the front handler; the rear one is right.

Noticed on the way, without a run: a packet has no checksum, so that an `'S'`
inside a payload, or a byte lost on the line, can turn other bytes into a set
point (excluded in `AsSent`); `parse_command`'s speeds stay in force when the
client or the post of the released stick is lost (the boards' dead man does not
help, since the server goes on sending); the start of client.py can cut off a
car server that starts beside it (`CutOff`); the picture of the app stays away
after a connection that came up in a pause; the configuration numbers the boards
clockwise from the front left, while `handle_car` gives boards 0 and 1 the right
speed and 2 and 3 the left one; the unused `measuredis` halves its -1, so that it
returns -0.5 for "no obstacle" (`handle_measuredis` does not); `SIGPIPE` ends the server when it answers a client that has left.

## 4. The proofs

All from the named assumptions of the modules (`NanoBoardAssumption`,
`StallLimitAssumption`, `ControllerAssumption`, `CarHandlerAssumption`,
`CarServerAssumption`, `UltrasoundAssumption`, `CarLinkAssumption`,
`RemoteControlAssumption`, `MjpegPlayerAssumption`), which say that limits are
naturals (positive where the code divides or counts by them),
that the character values are bytes, that a payload is three bytes, that the
stick's positions are pairs of offsets with the centre among them, and that
there is a thread.
Four theorems assume more, and say so in their statement: `AsSentHolds`, that no
byte of a payload is `'S'`; `AnswersWholeHolds` and `PunctualAnswersWhole`, how much
room the write FIFO has; `StallNearsHolds`, that the controller has an integral
part (`KI > 0`, which is so in main.c). `NeverBlocksHolds` and `SilentUnheardHolds`
are about behaviours in which no descriptor number is crossed, as the liveness
properties of CarServer are, and `PunctualAnswersWhole` about those without a late
round.

Liveness under fairness is out of the prover's reach. What it rests on is not:
that every step of a process, however the others interleave, brings what is
waited for nearer (a *variant*, stated as an action property), and that nothing
is in a state from which it cannot come. The theorems under "What the liveness
properties rest on" say this for all but one of them, for every value of the
constants; that TLC's fairness then does the rest is checked on the runs.

* **NanoBoardProofs.** `TypeCorrect` (with `Bounds`: an answer in progress has
  bytes left, the timeout counter is below the timeout, the FIFO holds at least
  what was measured). `DeadmanHolds`: `Deadman` is not inductive, because it only
  speaks of the motor section; `SetPointAge` relates the age of the set point to
  `uart_timeout` at every step of a round, and allows the one round that times
  out while it takes a packet. `NoUninitialisedReadHolds` from `FirstPacket`:
  before the first packet `setEn` may be garbage only until the first search for
  an `'I'`, which clears it before the first motor round. `TripLatchHolds` from
  `LatchInv`: a trip happens with `setEnMotorwasoff` off and it stays off.
  `PacketWholeHolds` from `Bounds`.
* **MotorControllerProofs.** `TypeCorrect` for every gain, clamp and integer
  width (`WrapRange`, `ClampRange`); `Refinement`, `Spec => Latch!MotorSpec`,
  action by action; `FreshStartHolds` from `CounterAtRest`: the counter is 0
  whenever the controller is off.
* **CarHandlerProofs.** `TypeCorrect` (set points never exceed the maximum);
  `OnlySlowerHolds` and `RearObstacleStopsHolds` by cases on the sign of the
  command, for every braking rule and placement of the sensors;
  `NoDriveUnheardHolds` from `HeardInv`: a battery not taken for empty has been
  reported, *and* the set points in `W` were computed from such batteries;
  `FreeRearUnlimitedHolds`, since -1 is tested before the comparisons it would
  pass;
  `StopSoonHolds` from `StopInv`: with the car told to stop, either all set
  points are 0 already, or the boards still to be answered in this pass have not
  had an old one.

* **UltrasoundProofs.** `TypeCorrect` with `EchoInv`: while it measures, `tri_count`
  is one behind the clocks the input has been high; `EchoExactHolds` follows.
  `FreshReadingHolds` from `FreshInv`: between a trigger and its measurement the
  trigger is in one of four places (`OnItsWay`), and in the three where the state
  register still says "ready" too few clocks have passed for the next call; and
  while nothing is measured, no edge of the control bit is under way (`Settled`).

* **CarServerProofs.** For any number of boards, any size of the descriptor table
  and peers, clock and signals between any two steps (more than the MC module
  lets in). `SelectSetOpenHolds`, `LiveIsWatchedHolds` and `ListenerOpenHolds`
  from `TableInv`: set and table agree on *every* descriptor but a board's whose
  connect failed (`Watched`; the named ones alone are not inductive, since a
  number may get its name back); no number the program may close is that of the
  listening socket (`Listening`); during startup numbers are given out in order
  (`Starting`), which rests on `LeastFd`, that there is a lowest free number.
  The actions are sorted by what they do to the table (`TableSame`,
  `TableForget`, `TableGiven`, `TableEnd`). `NeverBlocksHolds`: as long as no number
  is crossed, no `accept` and no `recv` of a pass blocks on what `select` reported.
  It needs `FoundInv`: what was found and not read yet can still be read (`Found`),
  whatever sockets the steps before it closed and opened, because a number that
  is given away anew was free and so was not reported; and up to `select` set and
  table agree also in the pass in which a signal came (`Synced`), so that `select`
  never reports all of the set after an error.

* **CarLinkProofs.** `Refinement`, `LinkSpec => Spec` of NanoBoard: every step of
  the composition is a step of the board, or of its line, or leaves the board
  alone; so `BoardSafe` follows from the theorems of NanoBoardProofs. `AsSentHolds`
  from `AsSentInv`: as long as nothing was missed, every `'S'` in what the board
  has still to read, FIFO and line taken as one sequence, is followed by a whole
  packet (`Framed`); taking any number of bytes from the front keeps that, which
  is why discarded input and reconnections do no harm. `ServerSurvivesHolds` from
  `ServerInv`: while nothing is garbled the wire is a sequence of whole answers
  and the part written of the next (`WireOK`), and so what the server takes in one
  piece is one whole answer (`ChunkWhole`); a version is then never a wrong one.
  `AnswersWholeHolds` from `PiledInv`: the write FIFO and what is still to be
  written hold at most one longest answer more than rounds were late, since the
  motor section otherwise waits until the FIFO is empty. This does not look at the
  conversation at all, and so needs `TxDepth >= (MaxFaults + 1) * Longest`: the
  board's FIFO of 128 bytes against answers of 49 allows one late round, and with
  punctual rounds one longest answer is enough (`PunctualAnswersWhole`). The run
  has a tighter FIFO and more faults, where the property rests on who speaks when;
  that stays with TLC.
* **RemoteControlProofs.** `TypeCorrect`; `OneAtATimeHolds`: a command that waits,
  or an answer, belongs to the post being served, so that an answer is never
  taken for that of another command, over all restarts and second tries.
  `Refinement`, `Spec => ImplementsPosts`, from `RestInv`: a socket that is not up
  belongs to a car that stands (`Disconnected`), a command that waits is that of the
  post (`PostsCommand`), so that a post client.py gives up leaves a standing car.
  `RestsRightHolds`: when nothing that was posted or touched is still to have an
  effect, the car has the speeds of the stick as it is now, or stands. Its
  invariant says what the *last* of all posts under way is (`LastPost`) and that the
  app's last task reads the stick as it is (`LastTask`).
* **MjpegPlayerProofs.** `ViewTypeCorrect`; `NeverCrashesHolds` from `PlayerInv`:
  there is no thread but the one in `thread` (`OneThread`); while a result is to
  come that one was never started (`Reading`); after `stopPlayback` there is none
  (`Stopping`); while it runs its stream is open, `mRun` is on unless the UI thread
  waits for it, and the surface it has seen is still there (`Running`).

### What the liveness properties rest on

| property | theorem | what it says |
|---|---|---|
| `LoopProgress` | `RoundShortensHolds` | each step of the board brings its motor section nearer (`StepsLeft`), the line never puts it off, and a byte shifted out ends the wait for space |
| `HandshakeHeard` | `InitNearerHolds` | out of contact, an `'I'` in the FIFO comes nearer with every step (`StepsTo`), or one before it is found |
| `StallEndsDrive` | `StallNearsHolds` | a wheel that stands under a command brings the sum nearer to the clamp (`Far`), and from there every round counts |
| `MeasuresOn` | `CycleTurnsHolds` | driver and machine go round one cycle of stages, skip none and never go back; only echoes are waited for |
| `Retried` | `RetryNearsHolds` | a board that is due is nearer to its attempt with every step of the server (`Way`), and nothing else resets its date |
| `SilentDropped` | `SilentUnheardHolds`, with `NeverBlocksHolds` | a silent board neither counts as heard nor is connected again, and the second elapsed second finds it so |
| `StopEnds` | `PassShortensHolds`, with `NeverBlocksHolds` | a pass has an end (`PassLeft`), and with `run` off no other begins |
| `StopsWithServer` | `ContactEndsHolds` | without a server what the board can read, and then its rounds in contact, only get less |
| `HeldFollowed` | `ServedWhileUpHolds` | while the server is up client.py is done with a post in six steps (`ServeLeft`), and the car follows it, but for one post that an earlier end of the server cut |
| `FollowsOrStops` | `RestsRightHolds` | at rest the car has the speeds of the stick, or stands |
| `PictureComesBack` | `PictureUnderWayHolds`, `JoinEndsHolds` | in a resumed activity the picture is there or on its way; `stopPlayback` waits for one look at `mRun` and three steps |

The variants are bounded below by their type or by `PassBounded` and `WayBounded`.
`StallNearsHolds` speaks of rounds in which integral and sum fit an int (`Roomy`):
in main.c a standing wheel reaches the clamp long before they do not, but with
small integers or large gains they may not, and the run, whose int is that small,
has the overflowing rounds as well.

`SilentUnheardHolds` needs a fact of its own, that a board not yet reached by the
startup has no number (`Unstarted`); everything else in it is `FoundInv`: what
another step of the pass read or closed never makes a silent board readable.
`ServedWhileUpHolds` is from `AnswerComes`: at a connected socket client.py waits
for an answer that comes, and when it came the car has the speeds of that post.

Only model-checked: the liveness properties themselves; of `Recovers`, where two
programs, a timeout and a watchdog take turns, also the argument; and
`AnswersWhole` in the tight FIFO of its run.

## 5. Not modelled

* *Third-party and generated code*: libjpeg (`android_app/jni/jpeg8d`, most of the
  lines of the repository), the Altera board support package, terasic_lib,
  jQuery, Bootstrap, the virtual joystick. It is not this program's logic; where
  the modelled code depends on it (the UART's FIFOs, `accept`, `AsyncTask`) its
  part is modelled from how it is used and marked external.
* *The accelerometer*: its sums are displayed and nothing acts on them; they are
  `short`s, reset by every answer, and wrap when answers stay away.
* *The LED variant of the car handler*: nothing compiles it, and but for the LEDs
  it is the handler that is modelled.
* *Displays and forms*: `dataHandler` of custom.js, the settings, the drawing of
  the stick and the scaling of the picture.
* *JPEG decoding*: a conversion of data; only the life of its buffer is modelled.
* *Test aids*: nanosim.py and test.c.

Two compositions would be worth having and are out of the model checker's reach
with a useful instance: four boards of CarLink under one CarServer, and
RemoteControl over CarHandler. Their interfaces are the properties above: what
holds for every line, every peer and every client holds for those.

## 6. Running it

    tlc -workers 2 -config NanoBoard.cfg MCNanoBoard.tla
    tlapm NanoBoardProofs.tla

PROJECT.json pairs each run with its module and configuration and maps every
definition to the lines it translates.
