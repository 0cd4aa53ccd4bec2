------------------------------ MODULE CarServer ------------------------------
(***************************************************************************)
(* The event loop of the car server (carserver/src/carserver.c, main): one *)
(* thread that keeps a TCP connection to every motor board and a local one *)
(* to the web client.  One pass of while(run) is the steps                 *)
(*                                                                         *)
(*   "watch"      count the messages of the last second, drop the silent   *)
(*   "reconnect"  one board after the other: a new connection if it is due *)
(*   "select"     which descriptors are readable                           *)
(*   "accept"     a new client                                             *)
(*   "client"     a command of the client and its answer                   *)
(*   "boards"     one board after the other: a frame and its answer        *)
(*                                                                         *)
(* with the peers, the clock and the signals between any two of them.      *)
(*                                                                         *)
(* Descriptors are the numbers the kernel gives them: socket() and         *)
(* accept() return the lowest free one, close() frees it, and the program  *)
(* keeps the number it closed.  A descriptor's unread input is one chunk,  *)
(* because recv takes all of it: a whole outdat frame, the version string, *)
(* a piece that starts with 'I' or 'R', or anything else ("noise").        *)
(*                                                                         *)
(* Times are kept as their distance from now, up to the second from which  *)
(* the code's comparisons no longer change.                                *)
(***************************************************************************)
EXTENDS Integers, FiniteSets

CONSTANTS
  NBoards,       \* 4
  MaxFd,         \* size of the descriptor table
  MIN_MSGS,      \* messages a board must send in a second
  Grace          \* 3: seconds after the start without reconnecting

ASSUME CarServerAssumption ==
  /\ NBoards \in Nat \ {0}
  /\ MaxFd \in Nat /\ MaxFd > NBoards
  /\ MIN_MSGS \in Nat \ {0}
  /\ Grace \in Nat

Boards == 1 .. NBoards
Client == NBoards + 1     \* who a socket was opened for, besides a board
Listen == NBoards + 2
Nobody == 0               \* the descriptor is free

Fd   == 1 .. MaxFd
NoFd == 0                 \* -1 in the code

VARIABLES
  \* the program
  pc, idx,        \* the step, and i of the loops over the boards
  run,            \* the loop goes on
  conn_boards,    \* the boards taken to be connected
  sd,             \* nano[i].sd
  init,           \* nano[i].init: the version string is expected
  conn_ctr,       \* messages of this second, up to MIN_MSGS
  sd_dom,         \* the client's descriptor
  sd_dom_srv,     \* the listening descriptor
  rfds,           \* the descriptors to select
  rfd,            \* the descriptors select found readable
  \* the clock
  watchAge,       \* now - conn_timer
  tryAge,         \* now - nano[i].last_conn_attempt
  \* the kernel and the peers
  sock,           \* the descriptor table
  backlog         \* a client waits to be accepted

server == << run, conn_boards, sd, init, conn_ctr, sd_dom, sd_dom_srv, rfds,
             rfd >>
clock  == << watchAge, tryAge >>
vars   == << pc, idx, server, clock, sock, backlog >>

Chunk == {"none", "frame", "version", "echo", "noise"}

(* "new": connect failed or was not called; "gone": the peer closed. *)
Socket   == [owner : {Nobody, Client, Listen} \cup Boards,
             link : {"new", "up", "gone"}, chunk : Chunk]
FreeSock == [owner |-> Nobody, link |-> "new", chunk |-> "none"]
NewSock(o)  == [FreeSock EXCEPT !.owner = o]
OpenSock(o) == [NewSock(o) EXCEPT !.link = "up"]

IsOpen(f) == f # NoFd /\ sock[f].owner # Nobody

WatchMax == 1   \* conn_timer < now
TryMax   == 2   \* last_conn_attempt + 1 < now

TypeOK ==
  /\ pc \in {"startup", "watch", "reconnect", "select", "accept", "client",
             "boards", "shutdown", "stopped", "killed"}
  /\ idx \in 1 .. (NBoards + 1)
  /\ run \in BOOLEAN
  /\ conn_boards \subseteq Boards
  /\ sd \in [Boards -> Fd \cup {NoFd}]
  /\ init \in [Boards -> BOOLEAN]
  /\ conn_ctr \in [Boards -> 0 .. MIN_MSGS]
  /\ sd_dom \in Fd \cup {NoFd}
  /\ sd_dom_srv \in Fd \cup {NoFd}
  /\ rfds \subseteq Fd /\ rfd \subseteq Fd
  /\ watchAge \in -1 .. WatchMax
  /\ tryAge \in [Boards -> -Grace .. TryMax]
  /\ sock \in [Fd -> Socket]
  /\ backlog \in BOOLEAN

Init ==
  /\ pc = "startup" /\ idx = 1
  /\ run = TRUE
  /\ conn_boards = {}
  /\ sd = [i \in Boards |-> NoFd]
  /\ init = [i \in Boards |-> FALSE]
  /\ conn_ctr = [i \in Boards |-> 0]
  /\ sd_dom = NoFd /\ sd_dom_srv = NoFd
  /\ rfds = {} /\ rfd = {}
  /\ watchAge = -1
  /\ tryAge = [i \in Boards |-> -Grace]
  /\ sock = [f \in Fd |-> FreeSock]
  /\ backlog = FALSE

-----------------------------------------------------------------------------
(* The kernel's descriptor table. *)

FreeFds == {f \in Fd : sock[f].owner = Nobody}
NextFd  == CHOOSE f \in FreeFds : \A g \in FreeFds : f <= g

Closed(s, fds) == [f \in Fd |-> IF f \in fds THEN FreeSock ELSE s[f]]

(* Mutants of Forget: FD_CLR forgotten, and the listening socket closed    *)
(* with every other.                                                       *)
ForgetOnly(fds) == rfds' = rfds /\ sock' = Closed(sock, fds)
ForgetAndListener(fds) ==
  /\ rfds' = rfds \ (fds \cup {sd_dom_srv})
  /\ sock' = Closed(sock, fds \cup {sd_dom_srv})

(* FD_CLR and close(), of whatever has these numbers now. *)
Forget(fds) == rfds' = rfds \ fds /\ sock' = Closed(sock, fds)

(* Mutant of Register: FD_SET forgotten. *)
RegisterUnwatched(fd, who) ==
  rfds' = rfds /\ sock' = [sock EXCEPT ![fd] = OpenSock(who)]

(* A connection that is set up, and FD_SET. *)
Register(fd, who) ==
  rfds' = rfds \cup {fd} /\ sock' = [sock EXCEPT ![fd] = OpenSock(who)]

Drained(s, f)  == [s EXCEPT ![f].chunk = "none"]

(* The process ends: the kernel closes everything it holds. *)
Exit(how) ==
  /\ pc' = how /\ idx' = 1
  /\ sock' = [f \in Fd |-> FreeSock]
  /\ rfds' = {} /\ rfd' = {}
  /\ backlog' = FALSE

Alive == pc \notin {"stopped", "killed"}

-----------------------------------------------------------------------------
(* The peers, the clock and the signals. *)

(* More input on a connection; what is still unread becomes part of it. *)
PeerSends(f, c) ==
  /\ sock[f].owner \in Boards \cup {Client} /\ sock[f].link = "up"
  /\ sock[f].owner = Client => c = "noise" /\ sock[f].chunk = "none"
  /\ sock' = [sock EXCEPT ![f].chunk = IF @ = "none" THEN c ELSE "noise"]
  /\ UNCHANGED << pc, idx, server, clock, backlog >>

PeerCloses(f) ==
  /\ sock[f].owner \in Boards \cup {Client} /\ sock[f].link = "up"
  /\ sock' = [sock EXCEPT ![f].link = "gone"]
  /\ UNCHANGED << pc, idx, server, clock, backlog >>

ClientConnects ==
  /\ sd_dom_srv # NoFd /\ Alive /\ ~backlog
  /\ backlog' = TRUE
  /\ UNCHANGED << pc, idx, server, clock, sock >>

Tick ==
  /\ Alive /\ pc # "startup"
  /\ watchAge' = IF watchAge < WatchMax THEN watchAge + 1 ELSE watchAge
  /\ tryAge' = [i \in Boards |->
                  IF tryAge[i] < TryMax THEN tryAge[i] + 1 ELSE tryAge[i]]
  /\ clock' # clock
  /\ UNCHANGED << pc, idx, server, sock, backlog >>

(* cleanup(), lines 69-74. *)
Signal ==
  /\ Alive /\ run
  /\ run' = FALSE
  /\ UNCHANGED << pc, idx, conn_boards, sd, init, conn_ctr, sd_dom,
                  sd_dom_srv, rfds, rfd, clock, sock, backlog >>

-----------------------------------------------------------------------------
(* Startup, lines 160-237.  A connect that fails is followed by a send on  *)
(* the unconnected socket, and that raises SIGPIPE, which the program does *)
(* not handle.                                                             *)

StartBoard ==
  /\ pc = "startup" /\ idx \in Boards /\ run
  /\ sd' = [sd EXCEPT ![idx] = NextFd]
  /\ Register(NextFd, idx)
  /\ init' = [init EXCEPT ![idx] = TRUE]
  /\ conn_boards' = conn_boards \cup {idx}
  /\ idx' = idx + 1
  /\ UNCHANGED << pc, run, conn_ctr, sd_dom, sd_dom_srv, rfd, clock, backlog >>

StartFails ==
  /\ pc = "startup" /\ idx \in Boards /\ run
  /\ Exit("killed")
  /\ run' = FALSE
  /\ UNCHANGED << conn_boards, sd, init, conn_ctr, sd_dom, sd_dom_srv, clock >>

OpenListener ==
  /\ pc = "startup" /\ (idx = NBoards + 1 \/ ~run)
  /\ sd_dom_srv' = NextFd
  /\ Register(NextFd, Listen)
  /\ pc' = IF run THEN "watch" ELSE "shutdown"
  /\ idx' = 1
  /\ UNCHANGED << run, conn_boards, sd, init, conn_ctr, sd_dom, rfd, clock,
                  backlog >>

-----------------------------------------------------------------------------
(* The watchdog, lines 243-255.  Every board that was too quiet is closed, *)
(* also one whose descriptor was closed before.                            *)

Quiet == {i \in Boards : conn_ctr[i] < MIN_MSGS}

(* Mutants of NextCtr: the counter kept, and reduced by what was demanded. *)
NextCtrKept(i)    == conn_ctr[i]
NextCtrReduced(i) == conn_ctr[i] - MIN_MSGS

NextCtr(i) == 0

Watch ==
  /\ pc = "watch"
  /\ pc' = "reconnect" /\ idx' = 1
  /\ IF watchAge >= WatchMax
     THEN /\ conn_boards' = conn_boards \ Quiet
          /\ Forget({sd[i] : i \in Quiet})
          /\ conn_ctr' = [i \in Boards |-> NextCtr(i)]
          /\ watchAge' = 0
     ELSE UNCHANGED << conn_boards, rfds, sock, conn_ctr, watchAge >>
  /\ rfd' = {}    \* not read again before select sets it
  /\ UNCHANGED << run, sd, init, sd_dom, sd_dom_srv, tryAge, backlog >>

-----------------------------------------------------------------------------
(* Reconnecting, lines 259-285, one board at a step: connect may block.    *)

(* Mutant of Due: due in one second only. *)
DueOnce(i) == i \notin conn_boards /\ tryAge[i] = TryMax - 1

Due(i) == i \notin conn_boards /\ tryAge[i] >= TryMax

NextIdx(next) ==
  /\ idx' = IF idx = NBoards THEN 1 ELSE idx + 1
  /\ pc' = IF idx = NBoards THEN next ELSE pc

NotDue ==
  /\ pc = "reconnect" /\ ~Due(idx)
  /\ NextIdx("select")
  /\ UNCHANGED << server, clock, sock, backlog >>

Attempt(fd) ==
  /\ pc = "reconnect" /\ Due(idx)
  /\ tryAge' = [tryAge EXCEPT ![idx] = 0]
  /\ sd' = [sd EXCEPT ![idx] = fd]
  /\ NextIdx("select")
  /\ UNCHANGED << run, conn_boards, conn_ctr, sd_dom, sd_dom_srv, rfd,
                  watchAge, backlog >>

(* No descriptor is left, lines 263-266. *)
NoSocket ==
  /\ FreeFds = {}
  /\ Attempt(NoFd)
  /\ UNCHANGED << init, rfds, sock >>

(* connect fails, lines 268-271: the socket stays open. *)
ConnectFails ==
  /\ FreeFds # {}
  /\ Attempt(NextFd)
  /\ sock' = [sock EXCEPT ![NextFd] = NewSock(idx)]
  /\ UNCHANGED << init, rfds >>

(* The send of 'I' fails, lines 274-278: the socket is closed again. *)
GreetingFails ==
  /\ FreeFds # {}
  /\ Attempt(NextFd)
  /\ UNCHANGED << init, rfds, sock >>

Connects ==
  /\ FreeFds # {}
  /\ Attempt(NextFd)
  /\ Register(NextFd, idx)
  /\ init' = [init EXCEPT ![idx] = TRUE]

Reconnect == NotDue \/ NoSocket \/ ConnectFails \/ GreetingFails \/ Connects

-----------------------------------------------------------------------------
(* select, lines 287-295.  The timeout is set once, before the loop, and   *)
(* Linux counts it down: after the first second select does not wait.  A   *)
(* closed descriptor in the set is an error, and rfd is then all of rfds.  *)

Readable(f) ==
  \/ sock[f].owner = Listen /\ backlog
  \/ sock[f].owner # Listen /\ (sock[f].chunk # "none" \/ sock[f].link = "gone")

Select ==
  /\ pc = "select"
  /\ pc' = "accept" /\ idx' = 1
  /\ IF \E f \in rfds : ~IsOpen(f)
     THEN run' = FALSE /\ rfd' = rfds
     ELSE rfd' = {f \in rfds : Readable(f)} /\ UNCHANGED run
  /\ UNCHANGED << conn_boards, sd, init, conn_ctr, sd_dom, sd_dom_srv, rfds,
                  clock, sock, backlog >>

(* A signal ends the wait: back to the top, lines 291-292. *)
Interrupted ==
  /\ pc = "select" /\ ~run
  /\ pc' = "shutdown" /\ idx' = 1
  /\ UNCHANGED << server, clock, sock, backlog >>

-----------------------------------------------------------------------------
(* A new client, lines 298-312: the descriptor of an earlier one is        *)
(* forgotten, not closed.                                                  *)

Accept ==
  /\ pc = "accept"
  /\ pc' = "client" /\ idx' = 1
  /\ IF sd_dom_srv \notin rfd
     THEN UNCHANGED << run, sd_dom, rfds, sock, backlog >>
     ELSE /\ backlog
          /\ backlog' = FALSE
          /\ IF FreeFds = {}
             THEN /\ sd_dom' = NoFd /\ run' = FALSE
                  /\ UNCHANGED << rfds, sock >>
             ELSE /\ sd_dom' = NextFd
                  /\ Register(NextFd, Client)
                  /\ UNCHANGED run
  /\ UNCHANGED << conn_boards, sd, init, conn_ctr, sd_dom_srv, rfd, clock >>

-----------------------------------------------------------------------------
(* The client's command, lines 315-352.  `continue' goes to the top of     *)
(* while(run) and leaves the boards for the next pass.                     *)

(* Mutant of AtTop: the condition of the loop not looked at. *)
AtTopAlways(r) == pc' = "watch" /\ idx' = 1

AtTop(r) == pc' = (IF r THEN "watch" ELSE "shutdown") /\ idx' = 1

ClientReadable == sd_dom # NoFd /\ sd_dom \in rfd

NoCommand ==
  /\ pc = "client" /\ ~ClientReadable
  /\ pc' = "boards" /\ idx' = 1
  /\ UNCHANGED << server, clock, sock, backlog >>

DropClient ==
  /\ Forget({sd_dom})
  /\ sd_dom' = NoFd
  /\ AtTop(run)
  /\ UNCHANGED << run, conn_boards, sd, init, conn_ctr, sd_dom_srv, rfd, clock,
                  backlog >>

(* recv returns 0 or an error, or the send of the answer returns one: a    *)
(* client that left with an answer unread resets the connection.           *)
ClientGone ==
  /\ pc = "client" /\ ClientReadable
  /\ ~IsOpen(sd_dom) \/ sock[sd_dom].link = "gone"
  /\ DropClient

Command ==
  /\ pc = "client" /\ ClientReadable
  /\ IsOpen(sd_dom) /\ sock[sd_dom].chunk # "none"
  /\ sock[sd_dom].owner = Client => sock[sd_dom].link = "up"
  /\ sock' = Drained(sock, sd_dom)
  /\ pc' = "boards" /\ idx' = 1
  /\ UNCHANGED << server, clock, backlog >>

(* The answer goes to a client that has left: SIGPIPE. *)
ClientPipe ==
  /\ pc = "client" /\ ClientReadable
  /\ IsOpen(sd_dom) /\ sock[sd_dom].chunk # "none"
  /\ sock[sd_dom].link = "gone"
  /\ Exit("killed")
  /\ run' = FALSE
  /\ UNCHANGED << conn_boards, sd, init, conn_ctr, sd_dom, sd_dom_srv, clock >>

-----------------------------------------------------------------------------
(* A board's frame and its answer, lines 354-419.  What the step reads is  *)
(* what hangs on the descriptor number nano[i].sd, whoever it belongs to.  *)
(* recv blocks when nothing is there.                                      *)

Mine == sd[idx]

BoardReadable == Mine # NoFd /\ Mine \in rfd
BoardInput    == pc = "boards" /\ BoardReadable

AfterBoard(r) ==
  IF idx = NBoards THEN AtTop(r) ELSE idx' = idx + 1 /\ UNCHANGED pc

Heard == conn_ctr' = [conn_ctr EXCEPT ![idx] =
                        IF @ < MIN_MSGS THEN @ + 1 ELSE @]

NoFrame ==
  /\ pc = "boards" /\ ~BoardReadable
  /\ AfterBoard(run)
  /\ UNCHANGED << server, clock, sock, backlog >>

Read ==
  /\ Heard
  /\ UNCHANGED << sd, sd_dom, sd_dom_srv, rfd, clock, backlog >>

HasChunk(c) == IsOpen(Mine) /\ sock[Mine].chunk = c
AtEof == IsOpen(Mine) /\ sock[Mine].link = "gone" /\ sock[Mine].chunk = "none"

(* recv fails, lines 359-364. *)
ReadFails ==
  /\ BoardInput
  /\ ~IsOpen(Mine) \/ AtEof
  /\ Read
  /\ conn_boards' = conn_boards \ {idx}
  /\ Forget({Mine})
  /\ AfterBoard(run)
  /\ UNCHANGED << run, init >>

(* Lines 375-378: a piece that starts with 'I' or 'R' is ignored while the *)
(* version string is expected.                                             *)
IgnoreEcho ==
  /\ BoardInput
  /\ HasChunk("echo") /\ init[idx]
  /\ Read
  /\ sock' = Drained(sock, Mine)
  /\ AfterBoard(run)
  /\ UNCHANGED << run, conn_boards, init, rfds >>

(* Lines 386-399: neither a frame nor the version string that is expected. *)
WrongData ==
  /\ BoardInput
  /\ (HasChunk("version") \/ HasChunk("echo") \/ HasChunk("noise") \/ AtEof)
  /\ ~init[idx]
  /\ Read
  /\ conn_boards' = conn_boards \ {idx}
  /\ Forget({Mine})
  /\ run' = (run /\ conn_boards' # {})
  /\ AfterBoard(run')
  /\ UNCHANGED init

(* Lines 403 and 369-384: the input that is answered with the next indat:  *)
(* a whole frame, whether or not the version string came before it, the    *)
(* version string, or a wrong version, which also ends the loop.           *)
FrameSeen    == HasChunk("frame")
VersionSeen  == HasChunk("version") /\ init[idx]
VersionWrong == (HasChunk("noise") \/ AtEof) /\ init[idx]

Judge ==
  /\ BoardInput
  /\ FrameSeen \/ VersionSeen \/ VersionWrong
  /\ init' = IF FrameSeen THEN init ELSE [init EXCEPT ![idx] = FALSE]
  /\ conn_boards' = IF VersionSeen THEN conn_boards \cup {idx} ELSE conn_boards

Answer ==
  /\ Judge
  /\ Read
  /\ sock' = Drained(sock, Mine)
  /\ run' = (run /\ ~VersionWrong)
  /\ AfterBoard(run')
  /\ UNCHANGED rfds

(* The send fails, lines 411-417: the client leaves the set, not the       *)
(* board, and the loop ends.                                               *)
AnswerFails ==
  /\ Judge
  /\ sock[Mine].link = "gone"
  /\ Read
  /\ rfds' = rfds \ {sd_dom}
  /\ sock' = Closed(sock, {Mine})
  /\ run' = FALSE
  /\ AfterBoard(FALSE)

(* Or it raises SIGPIPE. *)
BoardPipe ==
  /\ BoardInput
  /\ FrameSeen \/ VersionSeen \/ VersionWrong
  /\ sock[Mine].link = "gone"
  /\ Exit("killed")
  /\ run' = FALSE
  /\ UNCHANGED << conn_boards, sd, init, conn_ctr, sd_dom, sd_dom_srv, clock >>

BoardStep ==
  \/ NoFrame \/ ReadFails \/ IgnoreEcho \/ WrongData
  \/ Answer \/ AnswerFails \/ BoardPipe

-----------------------------------------------------------------------------
(* Lines 421-432. *)
Shutdown ==
  /\ pc = "shutdown"
  /\ Exit("stopped")
  /\ UNCHANGED << run, conn_boards, sd, init, conn_ctr, sd_dom, sd_dom_srv,
                  clock >>

-----------------------------------------------------------------------------

Startup == StartBoard \/ StartFails \/ OpenListener

ClientStep == NoCommand \/ ClientGone \/ Command \/ ClientPipe

Serve ==
  \/ Startup \/ Watch \/ Reconnect \/ Select \/ Interrupted \/ Accept
  \/ ClientStep \/ BoardStep \/ Shutdown

Peers ==
  \/ \E f \in Fd : PeerCloses(f) \/ \E c \in Chunk \ {"none"} : PeerSends(f, c)
  \/ ClientConnects

Next == Serve \/ Peers \/ Tick \/ Signal

Spec == Init /\ [][Next]_vars

(* The process is scheduled and the clock runs; a connect returns.  Peers  *)
(* and signals owe nothing.                                                *)
FairSpec == Spec /\ WF_vars(Serve) /\ WF_vars(Tick)

-----------------------------------------------------------------------------

(* A descriptor number that is used for one peer and open for another:     *)
(* numbers of closed sockets are kept, closed again and given away anew.   *)
Crossed ==
  \/ \E i \in Boards : IsOpen(sd[i]) /\ sock[sd[i]].owner # i
  \/ IsOpen(sd_dom) /\ sock[sd_dom].owner # Client

(* Safety. *)

(* select never gets a closed descriptor: every one of the many close()    *)
(* calls, also those on numbers closed before and given away again, goes   *)
(* with the FD_CLR of the same number (lines 247-248, 319-320, 362-363,    *)
(* 386-394).  Otherwise the loop would end with "select() failed".         *)
SelectSetOpen == run => \A f \in rfds : IsOpen(f)

(* And select gets every open one the loop still uses: while it runs, no   *)
(* FD_CLR of another board or of the client takes a live connection out of *)
(* the set, where its input would never be read again.                     *)
LiveIsWatched ==
  run /\ pc # "startup" =>
    /\ \A i \in Boards :
          IsOpen(sd[i]) /\ sock[sd[i]].owner = i /\ sock[sd[i]].link # "new"
            => sd[i] \in rfds
    /\ IsOpen(sd_dom) /\ sock[sd_dom].owner = Client => sd_dom \in rfds

(* No stale number ever closes the listening socket: as long as the server *)
(* runs, a new client can be accepted.                                     *)
ListenerOpen ==
  pc \notin {"startup", "stopped", "killed"}
    => sd_dom_srv \in rfds /\ sock[sd_dom_srv].owner = Listen

-----------------------------------------------------------------------------
(* Liveness, as long as no number is crossed: recv on a crossed number     *)
(* waits for a peer that owes nothing, and everything waits with it.       *)

(* "if one board is disconnected, try to reconnect it" (line 258): no      *)
(* dropped board is forgotten, whatever the others, the client and the     *)
(* clock do.                                                               *)
Retried ==
  []~Crossed =>
    \A i \in Boards :
      (pc # "startup" /\ i \notin conn_boards)
         ~> (tryAge[i] = 0 \/ i \in conn_boards \/ ~Alive)

(* "make sure that all nanoboards stay connected" (line 242): a board from *)
(* which nothing more arrives does not stay in conn_boards.                *)
SilentDropped ==
  []~Crossed =>
    \A i \in Boards :
      <>[](IsOpen(sd[i]) /\ sock[sd[i]].chunk = "none" /\ sock[sd[i]].link # "gone")
         => []<>(i \notin conn_boards \/ ~Alive)

(* After a signal, a wrong version or the loss of the last board the loop  *)
(* ends and the process with it (lines 69-74, 239).                        *)
StopEnds == []~Crossed => ((~run) ~> ~Alive)

-----------------------------------------------------------------------------
(* What the comments promise and the code does not keep. *)

(* "Read from a NanoBoard" and "copy indat to buffer" (lines 353 and 405): *)
(* the i-th input is that of the i-th board and its answer goes back to    *)
(* it.                                                                     *)
CommandsReachTheirBoard ==
  BoardInput /\ IsOpen(Mine) => sock[Mine].owner = idx

=============================================================================
