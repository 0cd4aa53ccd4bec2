--------------------------- MODULE CarServerProofs ---------------------------
(***************************************************************************)
(* The descriptor table of CarServer for any number of boards and any size *)
(* of the table, with the peers free to act between any two steps.         *)
(***************************************************************************)
EXTENDS CarServer, WellFoundedInduction, TLAPS

Owner == {Nobody, Client, Listen} \cup Boards

(* The numbers of the boards, and Client, Listen and Nobody, differ. *)
LEMMA Owners ==
  /\ NBoards \in Nat \ {0}
  /\ Boards \subseteq Nat \ {0}
  /\ Nobody # Client /\ Nobody # Listen /\ Client # Listen
  /\ \A i \in Boards : i # Nobody /\ i # Client /\ i # Listen
  /\ NoFd \notin Fd /\ Fd \subseteq Nat \ {0}
BY CarServerAssumption DEF Boards, Nobody, Client, Listen, NoFd, Fd

LEMMA LeastFd ==
  ASSUME FreeFds # {}
  PROVE  /\ NextFd \in Fd
         /\ sock[NextFd].owner = Nobody
         /\ \A f \in Fd : sock[f].owner = Nobody => NextFd <= f
<1> DEFINE R == {ss \in Nat \X Nat : ss[1] < ss[2]}
<1>1. \E f \in FreeFds : \A g \in FreeFds : ~ (<<g, f>> \in R)
  <2>1. IsWellFoundedOn(R, Nat)
    BY NatLessThanWellFounded DEF OpToRel
  <2>2. FreeFds \subseteq Nat
    BY Owners DEF FreeFds
  <2> HIDE DEF R
  <2>3. QED
    BY <2>1, <2>2, WFMin
<1>2. ASSUME NEW f \in Nat, NEW g \in Nat, g < f PROVE <<g, f>> \in R
  <2>1. <<g, f>> \in Nat \X Nat
    OBVIOUS
  <2>2. <<g, f>>[1] = g /\ <<g, f>>[2] = f
    OBVIOUS
  <2>3. QED
    BY <1>2, <2>1, <2>2
<1>3. FreeFds \subseteq Nat
  BY Owners DEF FreeFds
<1> HIDE DEF R
<1>4. PICK f \in FreeFds : \A g \in FreeFds : ~ (<<g, f>> \in R)
  BY <1>1
<1>5. ASSUME NEW g \in FreeFds PROVE f <= g
  <2>1. f \in Nat /\ g \in Nat
    BY <1>3
  <2>2. ~ (g < f)
    BY <1>2, <1>4, <2>1
  <2>3. QED
    BY <2>1, <2>2
<1>6. NextFd \in FreeFds /\ \A g \in FreeFds : NextFd <= g
  BY <1>4, <1>5 DEF NextFd
<1>7. QED
  BY <1>6 DEF FreeFds

-----------------------------------------------------------------------------
(* The table after each of the program's changes. *)

LEMMA Sockets ==
  /\ FreeSock \in Socket /\ FreeSock.owner = Nobody
  /\ \A o \in Owner :
       /\ NewSock(o) \in Socket
       /\ NewSock(o).owner = o /\ NewSock(o).link = "new"
       /\ OpenSock(o) \in Socket
       /\ OpenSock(o).owner = o /\ OpenSock(o).link = "up"
BY DEF FreeSock, Socket, NewSock, OpenSock, Owner, Chunk

LEMMA ClosedEffect ==
  ASSUME TypeOK, NEW fds
  PROVE  /\ Closed(sock, fds) \in [Fd -> Socket]
         /\ \A f \in Fd : Closed(sock, fds)[f] =
                             IF f \in fds THEN FreeSock ELSE sock[f]
BY Sockets DEF TypeOK, Closed

LEMMA ForgetEffect ==
  ASSUME TypeOK, NEW fds, Forget(fds)
  PROVE  /\ sock' \in [Fd -> Socket] /\ rfds' \in SUBSET Fd
         /\ rfds' = rfds \ fds
         /\ \A f \in Fd : sock'[f] = IF f \in fds THEN FreeSock ELSE sock[f]
<1>1. rfds' = rfds \ fds /\ sock' = Closed(sock, fds)
  BY DEF Forget
<1>2. QED
  BY <1>1, ClosedEffect DEF TypeOK

LEMMA RegisterEffect ==
  ASSUME TypeOK, NEW fd \in Fd, NEW who \in Owner, Register(fd, who)
  PROVE  /\ sock' \in [Fd -> Socket] /\ rfds' \in SUBSET Fd
         /\ rfds' = rfds \cup {fd}
         /\ sock'[fd] = OpenSock(who)
         /\ \A f \in Fd \ {fd} : sock'[f] = sock[f]
BY Sockets DEF Register, TypeOK

LEMMA DrainedEffect ==
  ASSUME TypeOK, NEW fd \in Fd
  PROVE  /\ Drained(sock, fd) \in [Fd -> Socket]
         /\ \A f \in Fd : /\ Drained(sock, fd)[f].owner = sock[f].owner
                          /\ Drained(sock, fd)[f].link = sock[f].link
BY DEF Drained, TypeOK, Socket, Chunk

LEMMA ExitEffect ==
  ASSUME NEW how, Exit(how)
  PROVE  /\ sock' \in [Fd -> Socket] /\ \A f \in Fd : sock'[f] = FreeSock
         /\ pc' = how /\ idx' = 1 /\ rfds' = {} /\ rfd' = {} /\ backlog' = FALSE
BY Sockets DEF Exit

-----------------------------------------------------------------------------
(* Types. *)

LEMMA TypeInit == Init => TypeOK
<1> SUFFICES ASSUME Init PROVE TypeOK
  OBVIOUS
<1>1. sock \in [Fd -> Socket]
  BY Sockets DEF Init
<1>2. /\ idx \in 1 .. (NBoards + 1) /\ watchAge \in -1 .. WatchMax
      /\ tryAge \in [Boards -> -Grace .. TryMax]
      /\ conn_ctr \in [Boards -> 0 .. MIN_MSGS]
  BY CarServerAssumption DEF Init, WatchMax, TryMax
<1>3. QED
  BY <1>1, <1>2 DEF Init, TypeOK

(* Steps that leave the program's own state alone. *)
LEMMA TypePeers ==
  ASSUME TypeOK, Peers \/ Tick \/ Signal
  PROVE  TypeOK'
<1>1. ASSUME NEW f \in Fd, NEW c \in Chunk \ {"none"}, PeerSends(f, c)
      PROVE  TypeOK'
  <2>1. sock' \in [Fd -> Socket]
    BY <1>1 DEF PeerSends, TypeOK, Socket, Chunk
  <2>2. QED
    BY <1>1, <2>1 DEF PeerSends, TypeOK, server, clock
<1>2. ASSUME NEW f \in Fd, PeerCloses(f) PROVE TypeOK'
  <2>1. sock' \in [Fd -> Socket]
    BY <1>2 DEF PeerCloses, TypeOK, Socket
  <2>2. QED
    BY <1>2, <2>1 DEF PeerCloses, TypeOK, server, clock
<1>3. CASE ClientConnects
  BY <1>3 DEF ClientConnects, TypeOK, server, clock
<1>4. CASE Tick
  <2>1. watchAge' \in -1 .. WatchMax
    BY <1>4 DEF Tick, TypeOK, WatchMax
  <2>2. tryAge' \in [Boards -> -Grace .. TryMax]
    BY <1>4, CarServerAssumption DEF Tick, TypeOK, TryMax
  <2>3. QED
    BY <1>4, <2>1, <2>2 DEF Tick, TypeOK, server
<1>5. CASE Signal
  BY <1>5 DEF Signal, TypeOK, clock
<1>6. QED
  BY <1>1, <1>2, <1>3, <1>4, <1>5 DEF Peers

LEMMA TypeStartup ==
  ASSUME TypeOK, Startup, FreeFds # {}
  PROVE  TypeOK'
<1>1. CASE StartBoard
  <2>1. sock' \in [Fd -> Socket] /\ rfds' \in SUBSET Fd
    BY <1>1, LeastFd, RegisterEffect DEF StartBoard, Owner
  <2>2. idx' \in 1 .. (NBoards + 1)
    BY <1>1, CarServerAssumption DEF StartBoard, TypeOK, Boards
  <2>3. sd' \in [Boards -> Fd \cup {NoFd}] /\ init' \in [Boards -> BOOLEAN]
          /\ conn_boards' \subseteq Boards
    BY <1>1, LeastFd DEF StartBoard, TypeOK
  <2>4. QED
    BY <1>1, <2>1, <2>2, <2>3 DEF StartBoard, TypeOK, clock
<1>2. CASE StartFails
  <2>1. 1 \in 1 .. (NBoards + 1)
    BY CarServerAssumption
  <2>2. QED
    BY <1>2, <2>1, ExitEffect DEF StartFails, TypeOK, clock
<1>3. CASE OpenListener
  <2>1. sock' \in [Fd -> Socket] /\ rfds' \in SUBSET Fd
    BY <1>3, LeastFd, RegisterEffect DEF OpenListener, Owner
  <2>2. 1 \in 1 .. (NBoards + 1)
    BY CarServerAssumption
  <2>3. QED
    BY <1>3, <2>1, <2>2, LeastFd DEF OpenListener, TypeOK, clock
<1>4. QED
  BY <1>1, <1>2, <1>3 DEF Startup

LEMMA TypeWatch ==
  ASSUME TypeOK, Watch
  PROVE  TypeOK'
<1>1. 1 \in 1 .. (NBoards + 1) /\ 0 \in -1 .. WatchMax /\ 0 \in 0 .. MIN_MSGS
  BY CarServerAssumption DEF WatchMax
<1>2. CASE watchAge >= WatchMax
  <2>1. sock' \in [Fd -> Socket] /\ rfds' \in SUBSET Fd
    BY <1>2, ForgetEffect DEF Watch
  <2>2. conn_boards' \subseteq Boards /\ conn_ctr' \in [Boards -> 0 .. MIN_MSGS]
    BY <1>1, <1>2 DEF Watch, TypeOK, NextCtr
  <2>3. QED
    BY <1>1, <1>2, <2>1, <2>2 DEF Watch, TypeOK
<1>3. CASE ~(watchAge >= WatchMax)
  BY <1>1, <1>3 DEF Watch, TypeOK
<1>4. QED
  BY <1>2, <1>3

(* The part of a connection attempt that is the same for every outcome. *)
LEMMA TypeAttempt ==
  ASSUME TypeOK, idx \in Boards, NEW fd \in Fd \cup {NoFd}, Attempt(fd),
         sock' \in [Fd -> Socket], rfds' \in SUBSET Fd,
         init' \in [Boards -> BOOLEAN]
  PROVE  TypeOK'
<1>1. idx' \in 1 .. (NBoards + 1)
  BY CarServerAssumption DEF Attempt, NextIdx, TypeOK, Boards
<1>2. pc' \in {"select", "reconnect"}
  BY DEF Attempt, NextIdx
<1>3. tryAge' \in [Boards -> -Grace .. TryMax]
  <2>1. 0 \in -Grace .. TryMax
    BY CarServerAssumption DEF TryMax
  <2>2. QED
    BY <2>1 DEF Attempt, TypeOK
<1>4. sd' \in [Boards -> Fd \cup {NoFd}]
  BY DEF Attempt, TypeOK
<1>5. QED
  BY <1>1, <1>2, <1>3, <1>4 DEF Attempt, TypeOK

LEMMA TypeReconnect ==
  ASSUME TypeOK, idx \in Boards, Reconnect
  PROVE  TypeOK'
<1>1. CASE NotDue
  <2>1. idx' \in 1 .. (NBoards + 1) /\ pc' \in {"select", "reconnect"}
    BY <1>1, CarServerAssumption DEF NotDue, NextIdx, TypeOK, Boards
  <2>2. QED
    BY <1>1, <2>1 DEF NotDue, TypeOK, server, clock
<1>2. CASE NoSocket
  BY <1>2, TypeAttempt DEF NoSocket, TypeOK
<1>3. CASE ConnectFails
  <2>1. NextFd \in Fd
    BY <1>3, LeastFd DEF ConnectFails
  <2>2. idx \in Owner
    BY DEF Owner
  <2>3. sock' \in [Fd -> Socket]
    BY <1>3, <2>1, <2>2, Sockets DEF ConnectFails, TypeOK
  <2>4. QED
    BY <1>3, <2>1, <2>3, TypeAttempt DEF ConnectFails, TypeOK
<1>4. CASE GreetingFails
  BY <1>4, LeastFd, TypeAttempt DEF GreetingFails, TypeOK
<1>5. CASE Connects
  <2>1. NextFd \in Fd
    BY <1>5, LeastFd DEF Connects
  <2>2. idx \in Owner
    BY DEF Owner
  <2>3. sock' \in [Fd -> Socket] /\ rfds' \in SUBSET Fd
    BY <1>5, <2>1, <2>2, RegisterEffect DEF Connects
  <2>4. init' \in [Boards -> BOOLEAN]
    BY <1>5 DEF Connects, TypeOK
  <2>5. QED
    BY <1>5, <2>1, <2>3, <2>4, TypeAttempt DEF Connects
<1>6. QED
  BY <1>1, <1>2, <1>3, <1>4, <1>5 DEF Reconnect

LEMMA TypeSelect ==
  ASSUME TypeOK, Select \/ Interrupted \/ Accept, idx \in Boards
  PROVE  TypeOK'
<1>1. 1 \in 1 .. (NBoards + 1)
  BY CarServerAssumption
<1>2. CASE Select
  BY <1>1, <1>2 DEF Select, TypeOK, clock
<1>3. CASE Interrupted
  BY <1>1, <1>3 DEF Interrupted, TypeOK, server, clock
<1>4. CASE Accept /\ sd_dom_srv \notin rfd
  BY <1>1, <1>4 DEF Accept, TypeOK, clock
<1>5. CASE Accept /\ sd_dom_srv \in rfd /\ FreeFds = {}
  BY <1>1, <1>5 DEF Accept, TypeOK, clock
<1>6. CASE Accept /\ sd_dom_srv \in rfd /\ FreeFds # {}
  <2>1. NextFd \in Fd /\ Client \in Owner
    BY <1>6, LeastFd DEF Owner
  <2>2. sock' \in [Fd -> Socket] /\ rfds' \in SUBSET Fd
    BY <1>6, <2>1, RegisterEffect DEF Accept
  <2>3. QED
    BY <1>1, <1>6, <2>1, <2>2 DEF Accept, TypeOK, clock
<1>7. QED
  BY <1>2, <1>3, <1>4, <1>5, <1>6

LEMMA TypeClient ==
  ASSUME TypeOK, ClientStep
  PROVE  TypeOK'
<1>1. 1 \in 1 .. (NBoards + 1)
  BY CarServerAssumption
<1>2. CASE NoCommand
  BY <1>1, <1>2 DEF NoCommand, TypeOK, server, clock
<1>3. CASE ClientGone
  <2>1. sock' \in [Fd -> Socket] /\ rfds' \in SUBSET Fd
    BY <1>3, ForgetEffect DEF ClientGone, DropClient
  <2>2. QED
    BY <1>1, <1>3, <2>1 DEF ClientGone, DropClient, AtTop, TypeOK, clock
<1>4. CASE Command
  <2>1. sock' \in [Fd -> Socket]
    BY <1>4, DrainedEffect DEF Command, ClientReadable, TypeOK
  <2>2. QED
    BY <1>1, <1>4, <2>1 DEF Command, TypeOK, server, clock
<1>5. CASE ClientPipe
  BY <1>1, <1>5, ExitEffect DEF ClientPipe, TypeOK, clock
<1>6. QED
  BY <1>2, <1>3, <1>4, <1>5 DEF ClientStep

(* What a board's step leaves to its outcome: the table, the set, run, init *)
(* and conn_boards.                                                         *)
LEMMA TypeRead ==
  ASSUME TypeOK, idx \in Boards, Read, pc = "boards", NEW r, AfterBoard(r),
         sock' \in [Fd -> Socket], rfds' \in SUBSET Fd, run' \in BOOLEAN,
         init' \in [Boards -> BOOLEAN], conn_boards' \in SUBSET Boards
  PROVE  TypeOK'
<1>1. idx' \in 1 .. (NBoards + 1) /\ pc' \in {"boards", "watch", "shutdown"}
  BY CarServerAssumption DEF AfterBoard, AtTop, Boards
<1>2. conn_ctr' \in [Boards -> 0 .. MIN_MSGS]
  BY CarServerAssumption DEF Read, Heard, TypeOK
<1>3. QED
  BY <1>1, <1>2 DEF Read, TypeOK, clock

LEMMA TypeBoard ==
  ASSUME TypeOK, idx \in Boards, BoardStep
  PROVE  TypeOK'
<1>1. CASE NoFrame
  <2>1. idx' \in 1 .. (NBoards + 1) /\ pc' \in {"boards", "watch", "shutdown"}
    BY <1>1, CarServerAssumption DEF NoFrame, AfterBoard, AtTop, Boards
  <2>2. QED
    BY <1>1, <2>1 DEF NoFrame, TypeOK, server, clock
<1>2. CASE ReadFails
  BY <1>2, ForgetEffect, TypeRead DEF ReadFails, BoardInput, TypeOK
<1>3. CASE IgnoreEcho
  <2>1. sock' \in [Fd -> Socket]
    BY <1>3, DrainedEffect
       DEF IgnoreEcho, BoardInput, BoardReadable, Mine, TypeOK
  <2>2. QED
    BY <1>3, <2>1, TypeRead DEF IgnoreEcho, BoardInput, TypeOK
<1>4. CASE WrongData
  <2>1. run' \in BOOLEAN /\ conn_boards' \in SUBSET Boards
    BY <1>4 DEF WrongData, TypeOK
  <2>2. QED
    BY <1>4, <2>1, ForgetEffect, TypeRead DEF WrongData, BoardInput, TypeOK
<1>5. ASSUME Judge
      PROVE  init' \in [Boards -> BOOLEAN] /\ conn_boards' \in SUBSET Boards
  BY <1>5 DEF Judge, TypeOK
<1>6. CASE Answer
  <2>1. sock' \in [Fd -> Socket] /\ run' \in BOOLEAN
    BY <1>6, DrainedEffect
       DEF Answer, Judge, BoardInput, BoardReadable, Mine, TypeOK
  <2>2. QED
    BY <1>5, <1>6, <2>1, TypeRead DEF Answer, Judge, BoardInput, TypeOK
<1>7. CASE AnswerFails
  <2>1. sock' \in [Fd -> Socket] /\ rfds' \in SUBSET Fd
    BY <1>7, ClosedEffect DEF AnswerFails, TypeOK
  <2>2. QED
    BY <1>5, <1>7, <2>1, TypeRead DEF AnswerFails, Judge, BoardInput
<1>8. CASE BoardPipe
  <2>1. 1 \in 1 .. (NBoards + 1)
    BY CarServerAssumption
  <2>2. QED
    BY <1>8, <2>1, ExitEffect DEF BoardPipe, TypeOK, clock
<1>9. QED
  BY <1>1, <1>2, <1>3, <1>4, <1>6, <1>7, <1>8 DEF BoardStep

LEMMA TypeShutdown ==
  ASSUME TypeOK, Shutdown
  PROVE  TypeOK'
<1>1. 1 \in 1 .. (NBoards + 1)
  BY CarServerAssumption
<1>2. QED
  BY <1>1, ExitEffect DEF Shutdown, TypeOK, clock

-----------------------------------------------------------------------------
(* The descriptor table. *)

(* The loops over the boards end in time. *)
IdxInv == pc # "startup" => idx \in Boards

(* During startup the descriptors are given out in order. *)
Starting ==
  pc = "startup" =>
    /\ \A f \in Fd : sock[f].owner # Nobody <=> f < idx
    /\ \A i \in Boards : sd[i] < idx
    /\ sd_dom = NoFd

(* The set and the table agree but for a board's socket whose connect      *)
(* failed; an accepted one never is "new".  This is said of every          *)
(* descriptor, also of those the program has lost: which of them are still *)
(* named changes with every new connection.                                *)
Watched ==
  run => \A f \in Fd :
    /\ f \in rfds => sock[f].owner # Nobody
    /\ sock[f].owner # Nobody /\ (sock[f].link # "new" \/ sock[f].owner = Client)
         => f \in rfds

(* No number the program may close is that of the listening socket. *)
Listening ==
  pc \notin {"startup", "stopped", "killed"} =>
    /\ sd_dom_srv \in rfds
    /\ sock[sd_dom_srv].owner = Listen
    /\ \A i \in Boards : sd[i] # sd_dom_srv
    /\ sd_dom # sd_dom_srv

TableInv == IdxInv /\ Starting /\ Watched /\ Listening

(* The peers change neither owners nor what is "new". *)
LEMMA TableSame ==
  ASSUME TypeOK, TableInv,
         \A f \in Fd : /\ sock'[f].owner = sock[f].owner
                       /\ sock'[f].link = "new" <=> sock[f].link = "new",
         rfds' = rfds, run' => run,
         sd' = sd, sd_dom' = sd_dom, sd_dom_srv' = sd_dom_srv,
         \/ pc' = pc /\ idx' = idx
         \/ pc # "startup" /\ pc' # "startup" /\ idx' \in Boards
              /\ pc \notin {"stopped", "killed"}
  PROVE  TableInv'
<1>1. IdxInv' /\ Starting'
  BY DEF TableInv, IdxInv, Starting
<1>2. Watched'
  BY DEF TableInv, Watched
<1>3. Listening'
  BY DEF TableInv, Listening, TypeOK
<1>4. QED
  BY <1>1, <1>2, <1>3 DEF TableInv

LEMMA TableEnd ==
  ASSUME NEW how \in {"stopped", "killed"}, Exit(how)
  PROVE  TableInv'
<1>1. 1 \in Boards
  BY CarServerAssumption DEF Boards
<1>2. \A f \in Fd : sock'[f].owner = Nobody
  BY ExitEffect, Sockets
<1>3. QED
  BY <1>1, <1>2, ExitEffect
     DEF TableInv, IdxInv, Starting, Watched, Listening

(* FD_CLR with close(), of numbers of boards and of the client. *)
LEMMA TableForget ==
  ASSUME TypeOK, TableInv, NEW fds, Forget(fds),
         fds \subseteq {sd[i] : i \in Boards} \cup {sd_dom},
         sd' = sd, sd_dom' \in {sd_dom, NoFd}, sd_dom_srv' = sd_dom_srv,
         run' => run,
         pc \notin {"startup", "stopped", "killed"},
         pc' # "startup", idx' \in Boards
  PROVE  TableInv'
<1>1. IdxInv' /\ Starting'
  BY DEF IdxInv, Starting
<1>2. Watched'
  BY ForgetEffect, Sockets DEF TableInv, Watched
<1>3. sd_dom_srv \notin fds /\ sd_dom_srv \in Fd
  BY DEF TableInv, Listening, TypeOK
<1>4. Listening'
  BY <1>3, ForgetEffect, Owners DEF TableInv, Listening
<1>5. QED
  BY <1>1, <1>2, <1>4 DEF TableInv

(* A free number, or none, is given to a board or to the client. *)
LEMMA TableGiven ==
  ASSUME TypeOK, TableInv,
         pc \notin {"startup", "stopped", "killed"},
         pc' # "startup", idx' \in Boards,
         NEW fd \in Fd \cup {NoFd}, fd # NoFd => sock[fd].owner = Nobody,
         \/ sd_dom' = sd_dom /\ \E i \in Boards : sd' = [sd EXCEPT ![i] = fd]
         \/ sd' = sd /\ sd_dom' = fd,
         sd_dom_srv' = sd_dom_srv, run' => run,
         \/ rfds' = rfds /\ sock' = sock
         \/ /\ fd # NoFd /\ rfds' = rfds
            /\ \E o \in Boards : sock' = [sock EXCEPT ![fd] = NewSock(o)]
         \/ fd # NoFd /\ \E o \in Owner \ {Nobody} : Register(fd, o)
  PROVE  TableInv'
<1>1. IdxInv' /\ Starting'
  BY DEF IdxInv, Starting
<1>2. /\ \A f \in Fd \ {fd} : sock'[f] = sock[f] /\ (f \in rfds' <=> f \in rfds)
      /\ \/ sock' = sock /\ rfds' = rfds
         \/ /\ fd \in Fd /\ sock'[fd].owner # Nobody
            /\ \/ sock'[fd].link = "new" /\ sock'[fd].owner # Client
               \/ fd \in rfds'
  BY Sockets, Owners, RegisterEffect DEF TypeOK, Owner
<1>3. Watched'
  BY <1>2 DEF TableInv, Watched
<1>4. sd_dom_srv \in Fd /\ sd_dom_srv # fd
  BY Owners DEF TableInv, Listening, TypeOK
<1>5. Listening'
  <2>1. sd_dom_srv' \in rfds' /\ sock'[sd_dom_srv'].owner = Listen
    BY <1>2, <1>4 DEF TableInv, Listening
  <2>2. \A i \in Boards : sd'[i] # sd_dom_srv
    BY <1>4 DEF TableInv, Listening, TypeOK
  <2>3. sd_dom' # sd_dom_srv
    BY <1>4 DEF TableInv, Listening
  <2>4. QED
    BY <2>1, <2>2, <2>3 DEF Listening
<1>6. QED
  BY <1>1, <1>3, <1>5 DEF TableInv

LEMMA TableInit == Init => TableInv
<1> SUFFICES ASSUME Init PROVE TableInv
  OBVIOUS
<1>1. \A f \in Fd : sock[f].owner = Nobody /\ ~(f < 1)
  BY Sockets, Owners DEF Init
<1>2. \A i \in Boards : sd[i] < 1
  BY DEF Init, NoFd
<1>3. QED
  BY <1>1, <1>2 DEF Init, TableInv, IdxInv, Starting, Watched, Listening

(* The next descriptor of the startup is number idx. *)
LEMMA StartFd ==
  ASSUME TypeOK, TableInv, pc = "startup"
  PROVE  FreeFds # {} /\ NextFd = idx /\ idx \in Fd
<1>1. idx \in Fd
  BY CarServerAssumption DEF TypeOK, Fd
<1>2. sock[idx].owner = Nobody
  BY <1>1, Owners DEF TableInv, Starting
<1>3. FreeFds # {}
  BY <1>1, <1>2 DEF FreeFds
<1>4. NextFd <= idx /\ ~(NextFd < idx) /\ NextFd \in Nat
  BY <1>1, <1>2, <1>3, LeastFd, Owners DEF TableInv, Starting
<1>5. QED
  BY <1>1, <1>3, <1>4, Owners

LEMMA TableStartup ==
  ASSUME TypeOK, TableInv, Startup
  PROVE  TableInv'
<1>1. CASE StartBoard
  <2>1. NextFd = idx /\ idx \in Fd /\ idx \in Owner /\ idx # Nobody
    BY <1>1, StartFd, Owners DEF StartBoard, Owner
  <2>2. /\ sock'[idx].owner = idx /\ rfds' = rfds \cup {idx}
        /\ \A f \in Fd \ {idx} : sock'[f] = sock[f]
    BY <1>1, <2>1, RegisterEffect, Sockets DEF StartBoard
  <2>3. Starting'
    <3>1. \A f \in Fd : sock'[f].owner # Nobody <=> f < idx + 1
      BY <1>1, <2>1, <2>2, Owners DEF TableInv, Starting, StartBoard
    <3>2. \A i \in Boards : sd'[i] < idx + 1
      <4>1. \A i \in Boards : sd[i] < idx
        BY <1>1 DEF TableInv, Starting, StartBoard
      <4>2. sd' = [sd EXCEPT ![idx] = idx] /\ idx < idx + 1
        BY <1>1, <2>1, Owners DEF StartBoard
      <4>3. ASSUME NEW n \in Fd \cup {NoFd}, n < idx PROVE n < idx + 1
        BY <2>1, <4>3 DEF Fd, NoFd
      <4>4. QED
        BY <4>1, <4>2, <4>3 DEF TypeOK
    <3>3. QED
      BY <1>1, <3>1, <3>2 DEF TableInv, Starting, StartBoard
  <2>4. Watched'
    BY <1>1, <2>1, <2>2 DEF TableInv, Watched, StartBoard
  <2>5. IdxInv' /\ Listening'
    BY <1>1 DEF IdxInv, Listening, StartBoard
  <2>6. QED
    BY <2>3, <2>4, <2>5 DEF TableInv
<1>2. CASE StartFails
  BY <1>2, TableEnd DEF StartFails
<1>3. CASE OpenListener
  <2>1. NextFd = idx /\ idx \in Fd /\ Listen \in Owner /\ Listen # Nobody
    BY <1>3, StartFd, Owners DEF OpenListener, Owner
  <2>2. /\ sock'[idx].owner = Listen /\ rfds' = rfds \cup {idx}
        /\ \A f \in Fd \ {idx} : sock'[f] = sock[f]
    BY <1>3, <2>1, RegisterEffect, Sockets DEF OpenListener
  <2>3. IdxInv' /\ Starting'
    BY <1>3, CarServerAssumption DEF IdxInv, Starting, OpenListener, Boards
  <2>4. Watched'
    BY <1>3, <2>1, <2>2 DEF TableInv, Watched, OpenListener
  <2>5. Listening'
    <3>1. \A i \in Boards : sd[i] # idx
      BY <1>3, <2>1, Owners
         DEF TableInv, Starting, OpenListener, TypeOK, NoFd
    <3>2. sd_dom # idx
      BY <1>3, <2>1, Owners DEF TableInv, Starting, OpenListener
    <3>3. QED
      BY <1>3, <2>1, <2>2, <3>1, <3>2 DEF Listening, OpenListener
  <2>6. QED
    BY <2>3, <2>4, <2>5 DEF TableInv
<1>4. QED
  BY <1>1, <1>2, <1>3 DEF Startup

LEMMA TablePeers ==
  ASSUME TypeOK, TableInv, Peers \/ Tick \/ Signal
  PROVE  TableInv'
<1>1. ASSUME NEW f \in Fd, NEW c \in Chunk, PeerSends(f, c) PROVE TableInv'
  <2>1. \A g \in Fd : /\ sock'[g].owner = sock[g].owner
                      /\ sock'[g].link = sock[g].link
    BY <1>1 DEF PeerSends, TypeOK, Socket
  <2>2. QED
    BY <1>1, <2>1, TableSame DEF PeerSends, server
<1>2. ASSUME NEW f \in Fd, PeerCloses(f) PROVE TableInv'
  <2>1. \A g \in Fd : /\ sock'[g].owner = sock[g].owner
                      /\ sock'[g].link = "new" <=> sock[g].link = "new"
    BY <1>2 DEF PeerCloses, TypeOK, Socket
  <2>2. QED
    BY <1>2, <2>1, TableSame DEF PeerCloses, server
<1>3. CASE ClientConnects \/ Tick
  BY <1>3, TableSame DEF ClientConnects, Tick, server
<1>4. CASE Signal
  BY <1>4, TableSame DEF Signal
<1>5. QED
  BY <1>1, <1>2, <1>3, <1>4 DEF Peers

(* In the loop: the next step of a pass, and the next board. *)
LEMMA FirstBoard == 1 \in Boards
BY CarServerAssumption DEF Boards

LEMMA TableReconnect ==
  ASSUME TypeOK, TableInv, Watch \/ Reconnect
  PROVE  TableInv'
<1>1. CASE Watch /\ watchAge >= WatchMax
  <2>1. Forget({sd[i] : i \in Quiet})
    BY <1>1 DEF Watch
  <2>2. {sd[i] : i \in Quiet} \subseteq {sd[i] : i \in Boards} \cup {sd_dom}
    BY DEF Quiet
  <2>3. QED
    BY <1>1, <2>1, <2>2, TableForget, FirstBoard DEF Watch
<1>2. CASE Watch /\ ~(watchAge >= WatchMax)
  BY <1>2, TableSame, FirstBoard DEF Watch
<1>3. ASSUME NextIdx("select"), pc = "reconnect"
      PROVE  idx' \in Boards /\ pc' \in {"reconnect", "select"}
  BY <1>3, CarServerAssumption DEF TableInv, IdxInv, NextIdx, Boards
<1>4. CASE NotDue
  BY <1>3, <1>4, TableSame DEF NotDue, server
<1>5. ASSUME NEW fd, Attempt(fd)
      PROVE  /\ pc = "reconnect" /\ pc' # "startup"
             /\ idx \in Boards /\ idx' \in Boards
             /\ sd_dom' = sd_dom /\ sd' = [sd EXCEPT ![idx] = fd]
             /\ sd_dom_srv' = sd_dom_srv /\ run' = run
  BY <1>3, <1>5 DEF Attempt, TableInv, IdxInv
<1>6. CASE NoSocket
  BY <1>5, <1>6, TableGiven DEF NoSocket
<1>7. ASSUME FreeFds # {}, Attempt(NextFd)
      PROVE  NextFd \in Fd /\ sock[NextFd].owner = Nobody /\ NextFd # NoFd
               /\ idx \in Owner \ {Nobody}
  BY <1>5, <1>7, LeastFd, Owners DEF Owner
<1>8. CASE ConnectFails
  <2> DEFINE fd == NextFd
  <2>1. FreeFds # {} /\ Attempt(fd) /\ rfds' = rfds
          /\ sock' = [sock EXCEPT ![fd] = NewSock(idx)]
    BY <1>8 DEF ConnectFails
  <2>2. fd \in Fd /\ fd # NoFd /\ sock[fd].owner = Nobody
    BY <1>7, <2>1
  <2>3. idx \in Owner \ {Nobody}
    BY <1>7, <2>1
  <2>4. /\ pc = "reconnect" /\ pc' # "startup"
        /\ idx \in Boards /\ idx' \in Boards
        /\ sd_dom' = sd_dom /\ sd' = [sd EXCEPT ![idx] = fd]
        /\ sd_dom_srv' = sd_dom_srv /\ run' = run
    BY <1>5, <2>1
  <2> HIDE DEF fd
  <2>5. QED
    BY <2>1, <2>2, <2>3, <2>4, TableGiven
<1>9. CASE GreetingFails
  BY <1>5, <1>7, <1>9, TableGiven DEF GreetingFails
<1>10. CASE Connects
  BY <1>5, <1>7, <1>10, TableGiven DEF Connects
<1>11. QED
  BY <1>1, <1>2, <1>4, <1>6, <1>8, <1>9, <1>10 DEF Reconnect

LEMMA TableSelect ==
  ASSUME TypeOK, TableInv, Select \/ Interrupted \/ Accept \/ Shutdown
  PROVE  TableInv'
<1>1. CASE Select
  <2>1. run' => run
    BY <1>1 DEF Select
  <2>2. QED
    BY <1>1, <2>1, TableSame, FirstBoard DEF Select
<1>2. CASE Interrupted
  BY <1>2, TableSame, FirstBoard DEF Interrupted, server
<1>3. CASE Accept /\ sd_dom_srv \notin rfd
  BY <1>3, TableSame, FirstBoard DEF Accept
<1>4. CASE Accept /\ sd_dom_srv \in rfd /\ FreeFds = {}
  <2>1. /\ pc = "accept" /\ pc' = "client" /\ idx' = 1
        /\ sd_dom' = NoFd /\ run' = FALSE /\ rfds' = rfds /\ sock' = sock
        /\ sd' = sd /\ sd_dom_srv' = sd_dom_srv
    BY <1>4 DEF Accept
  <2>2. QED
    BY <2>1, TableGiven, FirstBoard
<1>5. CASE Accept /\ sd_dom_srv \in rfd /\ FreeFds # {}
  <2> DEFINE fd == NextFd
  <2>1. /\ pc = "accept" /\ pc' = "client" /\ idx' = 1
        /\ sd_dom' = fd /\ run' = run /\ Register(fd, Client)
        /\ sd' = sd /\ sd_dom_srv' = sd_dom_srv
    BY <1>5 DEF Accept
  <2>2. fd \in Fd /\ fd # NoFd /\ sock[fd].owner = Nobody
    BY <1>5, LeastFd, Owners
  <2>3. Client \in Owner \ {Nobody}
    BY Owners DEF Owner
  <2> HIDE DEF fd
  <2>4. QED
    BY <2>1, <2>2, <2>3, TableGiven, FirstBoard
<1>6. CASE Shutdown
  BY <1>6, TableEnd DEF Shutdown
<1>7. QED
  BY <1>1, <1>2, <1>3, <1>4, <1>5, <1>6

LEMMA TableClient ==
  ASSUME TypeOK, TableInv, ClientStep
  PROVE  TableInv'
<1>1. CASE NoCommand
  BY <1>1, TableSame, FirstBoard DEF NoCommand, server
<1>2. CASE ClientGone
  <2>1. /\ pc = "client" /\ pc' # "startup" /\ idx' = 1
        /\ Forget({sd_dom}) /\ sd_dom' = NoFd
        /\ sd' = sd /\ sd_dom_srv' = sd_dom_srv /\ run' = run
    BY <1>2 DEF ClientGone, DropClient, AtTop
  <2>2. QED
    BY <2>1, TableForget, FirstBoard
<1>3. CASE Command
  <2>1. sd_dom \in Fd
    BY <1>3 DEF Command, ClientReadable, TypeOK
  <2>2. QED
    BY <1>3, <2>1, DrainedEffect, TableSame, FirstBoard DEF Command, server
<1>4. CASE ClientPipe
  BY <1>4, TableEnd DEF ClientPipe
<1>5. QED
  BY <1>1, <1>2, <1>3, <1>4 DEF ClientStep

LEMMA TableBoard ==
  ASSUME TypeOK, TableInv, BoardStep
  PROVE  TableInv'
<1>1. ASSUME pc = "boards", NEW r, AfterBoard(r)
      PROVE  idx' \in Boards /\ pc' \in {"boards", "watch", "shutdown"}
  BY <1>1, CarServerAssumption
     DEF TableInv, IdxInv, AfterBoard, AtTop, Boards
<1>2. ASSUME BoardInput
      PROVE  Mine \in Fd /\ Mine = sd[idx] /\ idx \in Boards /\ pc = "boards"
  BY <1>2 DEF BoardInput, BoardReadable, Mine, TypeOK, TableInv, IdxInv
<1>3. CASE NoFrame
  BY <1>1, <1>3, TableSame DEF NoFrame, server
<1>4. CASE ReadFails
  <2>1. /\ Forget({Mine}) /\ pc = "boards" /\ pc' # "startup" /\ idx' \in Boards
        /\ sd' = sd /\ sd_dom' = sd_dom /\ sd_dom_srv' = sd_dom_srv
        /\ run' = run
    BY <1>1, <1>2, <1>4 DEF ReadFails, Read
  <2>2. {Mine} \subseteq {sd[i] : i \in Boards} \cup {sd_dom}
    BY <1>2, <1>4 DEF ReadFails
  <2>3. QED
    BY <2>1, <2>2, TableForget
<1>5. CASE IgnoreEcho
  BY <1>1, <1>2, <1>5, DrainedEffect, TableSame DEF IgnoreEcho, Read
<1>6. CASE WrongData
  <2>1. /\ Forget({Mine}) /\ pc = "boards" /\ pc' # "startup" /\ idx' \in Boards
        /\ sd' = sd /\ sd_dom' = sd_dom /\ sd_dom_srv' = sd_dom_srv
        /\ run' => run
    BY <1>1, <1>2, <1>6 DEF WrongData, Read
  <2>2. {Mine} \subseteq {sd[i] : i \in Boards} \cup {sd_dom}
    BY <1>2, <1>6 DEF WrongData
  <2>3. QED
    BY <2>1, <2>2, TableForget
<1>7. CASE Answer
  <2>1. run' => run
    BY <1>7 DEF Answer
  <2>2. QED
    BY <1>1, <1>2, <1>7, <2>1, DrainedEffect, TableSame DEF Answer, Judge, Read
<1>8. CASE AnswerFails
  <2>1. /\ pc = "boards" /\ pc' # "startup" /\ idx' \in Boards
        /\ sd' = sd /\ sd_dom' = sd_dom /\ sd_dom_srv' = sd_dom_srv
        /\ run' = FALSE /\ rfds' = rfds \ {sd_dom}
        /\ sock' = Closed(sock, {Mine})
        /\ Mine = sd[idx] /\ idx \in Boards
    BY <1>1, <1>2, <1>8 DEF AnswerFails, Judge, Read
  <2>2. IdxInv' /\ Starting' /\ Watched'
    BY <2>1 DEF IdxInv, Starting, Watched
  <2>3. Listening'
    <3>1. sd_dom_srv \in Fd /\ sd_dom_srv # Mine /\ sd_dom_srv # sd_dom
            /\ sd_dom_srv \in rfds /\ sock[sd_dom_srv].owner = Listen
      BY <2>1 DEF TableInv, Listening, TypeOK
    <3>2. sock'[sd_dom_srv] = sock[sd_dom_srv]
      BY <2>1, <3>1, ClosedEffect
    <3>3. \A i \in Boards : sd[i] # sd_dom_srv
      BY <2>1 DEF TableInv, Listening
    <3>4. QED
      BY <2>1, <3>1, <3>2, <3>3 DEF Listening
  <2>4. QED
    BY <2>2, <2>3 DEF TableInv
<1>9. CASE BoardPipe
  BY <1>9, TableEnd DEF BoardPipe
<1>10. QED
  BY <1>3, <1>4, <1>5, <1>6, <1>7, <1>8, <1>9 DEF BoardStep

-----------------------------------------------------------------------------

Inv == TypeOK /\ TableInv

LEMMA InvNext == Inv /\ [Next]_vars => Inv'
<1> SUFFICES ASSUME Inv, [Next]_vars PROVE Inv'
  OBVIOUS
<1>1. TypeOK /\ TableInv
  BY DEF Inv
<1>2. pc # "startup" => idx \in Boards
  BY <1>1 DEF TableInv, IdxInv
<1>3. CASE Startup
  <2>1. pc = "startup"
    BY <1>3 DEF Startup, StartBoard, StartFails, OpenListener
  <2>2. QED
    BY <1>1, <1>3, <2>1, StartFd, TypeStartup, TableStartup DEF Inv
<1>4. CASE Watch
  BY <1>1, <1>4, TypeWatch, TableReconnect DEF Inv
<1>5. CASE Reconnect
  <2>1. pc = "reconnect"
    BY <1>5 DEF Reconnect, NotDue, NoSocket, ConnectFails, GreetingFails,
                Connects, Attempt
  <2>2. QED
    BY <1>1, <1>2, <1>5, <2>1, TypeReconnect, TableReconnect DEF Inv
<1>6. CASE Select \/ Interrupted \/ Accept
  <2>1. pc # "startup"
    BY <1>6 DEF Select, Interrupted, Accept
  <2>2. QED
    BY <1>1, <1>2, <1>6, <2>1, TypeSelect, TableSelect DEF Inv
<1>7. CASE ClientStep
  BY <1>1, <1>7, TypeClient, TableClient DEF Inv
<1>8. CASE BoardStep
  <2>1. pc = "boards"
    BY <1>8 DEF BoardStep, NoFrame, ReadFails, IgnoreEcho, WrongData, Answer,
                AnswerFails, BoardPipe, Judge, BoardInput
  <2>2. QED
    BY <1>1, <1>2, <1>8, <2>1, TypeBoard, TableBoard DEF Inv
<1>9. CASE Shutdown
  BY <1>1, <1>9, TypeShutdown, TableSelect DEF Inv
<1>10. CASE Peers \/ Tick \/ Signal
  BY <1>1, <1>10, TypePeers, TablePeers DEF Inv
<1>11. CASE UNCHANGED vars
  <2>1. TypeOK'
    BY <1>1, <1>11 DEF vars, server, clock, TypeOK
  <2>2. TableInv'
    BY <1>1, <1>11
       DEF vars, server, clock, TableInv, IdxInv, Starting, Watched, Listening
  <2>3. QED
    BY <2>1, <2>2 DEF Inv
<1>12. QED
  BY <1>3, <1>4, <1>5, <1>6, <1>7, <1>8, <1>9, <1>10, <1>11 DEF Next, Serve

LEMMA Invariance == Spec => []Inv
<1>1. Init => Inv
  BY TypeInit, TableInit DEF Inv
<1>2. QED
  BY <1>1, InvNext, PTL DEF Spec

(* Type correctness: every variable keeps to its range, and a loop over    *)
(* the boards never runs past the last one.                                *)
THEOREM TypeCorrect == Spec => [](TypeOK /\ IdxInv)
<1>1. Inv => TypeOK /\ IdxInv
  BY DEF Inv, TableInv
<1>2. QED
  BY <1>1, Invariance, PTL

(* select never gets a closed descriptor while the loop runs, whatever     *)
(* numbers are closed twice or given away again: lines 247-248, 319-320,   *)
(* 362-363 and 386-394 keep set and table together.                        *)
THEOREM SelectSetOpenHolds == Spec => []SelectSetOpen
<1>1. Inv => SelectSetOpen
  <2> SUFFICES ASSUME Inv, run, NEW f \in rfds PROVE IsOpen(f)
    BY DEF SelectSetOpen
  <2>1. f \in Fd
    BY DEF Inv, TypeOK
  <2>2. sock[f].owner # Nobody
    BY <2>1 DEF Inv, TableInv, Watched
  <2>3. QED
    BY <2>1, <2>2, Owners DEF IsOpen
<1>2. QED
  BY <1>1, Invariance, PTL

(* And it gets every descriptor of a live connection the loop still names. *)
THEOREM LiveIsWatchedHolds == Spec => []LiveIsWatched
<1>1. Inv => LiveIsWatched
  <2> SUFFICES ASSUME Inv, run PROVE LiveIsWatched
    BY DEF LiveIsWatched
  <2>1. ASSUME NEW f \in Fd \cup {NoFd}, IsOpen(f),
               sock[f].link # "new" \/ sock[f].owner = Client
        PROVE  f \in rfds
    BY <2>1 DEF Inv, TableInv, Watched, IsOpen
  <2>2. \A i \in Boards : sd[i] \in Fd \cup {NoFd}
    BY DEF Inv, TypeOK
  <2>3. sd_dom \in Fd \cup {NoFd}
    BY DEF Inv, TypeOK
  <2>4. QED
    BY <2>1, <2>2, <2>3 DEF LiveIsWatched
<1>2. QED
  BY <1>1, Invariance, PTL

(* The listening socket stays open and watched until the process ends.     *)
THEOREM ListenerOpenHolds == Spec => []ListenerOpen
<1>1. Inv => ListenerOpen
  BY DEF Inv, TableInv, Listening, ListenerOpen
<1>2. QED
  BY <1>1, Invariance, PTL

-----------------------------------------------------------------------------
(* No receive blocks: what select reported is still there when the loop    *)
(* comes to read it.                                                       *)

(* recv returns at once: input, the end of the connection, or an error. *)
Ready(f) == ~IsOpen(f) \/ sock[f].chunk # "none" \/ sock[f].link = "gone"

(* accept finds a client that waits and both recv() calls something to     *)
(* return (lines 299, 318 and 357): between select and the read no other   *)
(* step of the pass took it.                                               *)
NeverBlocks ==
  /\ pc = "accept" /\ sd_dom_srv \in rfd => backlog
  /\ pc = "client" /\ ClientReadable     => Ready(sd_dom)
  /\ BoardInput                          => Ready(Mine)

(* From the top of the loop to select set and table agree even when a      *)
(* signal came: only AnswerFails parts them, and its pass is the last.     *)
Synced ==
  pc \in {"watch", "reconnect", "select"} =>
    \A f \in rfds : sock[f].owner # Nobody

(* What select found and the pass has not yet read. *)
Found ==
  /\ pc = "accept" => \A f \in rfd : sock[f].owner # Nobody /\ Readable(f)
  /\ pc = "client" =>
       /\ sd_dom \in rfd => Ready(sd_dom)
       /\ \A j \in Boards : sd[j] \in rfd => Ready(sd[j])
  /\ pc = "boards" =>
       \A j \in Boards : j >= idx /\ sd[j] \in rfd => Ready(sd[j])

FoundInv == Synced /\ Found

(* A table in which no owner changed and no input was taken. *)
Fuller ==
  \A f \in Fd : /\ sock'[f].owner = sock[f].owner
                /\ sock[f].chunk # "none" => sock'[f].chunk # "none"
                /\ sock[f].link = "gone"  => sock'[f].link = "gone"

LEMMA FullerReady ==
  ASSUME TypeOK, Fuller, NEW f \in Fd \cup {NoFd}
  PROVE  /\ IsOpen(f)' <=> IsOpen(f)
         /\ Ready(f) => Ready(f)'
BY Owners DEF Fuller, IsOpen, Ready

(* The peers, the clock and a signal take nothing away. *)
LEMMA PeersFuller ==
  ASSUME TypeOK, Peers \/ Tick \/ Signal
  PROVE  /\ Fuller
         /\ backlog => backlog'
         /\ pc' = pc /\ idx' = idx /\ rfds' = rfds /\ rfd' = rfd
         /\ sd' = sd /\ sd_dom' = sd_dom /\ sd_dom_srv' = sd_dom_srv
<1>1. ASSUME NEW f \in Fd, NEW c \in Chunk \ {"none"}, PeerSends(f, c)
      PROVE  Fuller
  BY <1>1 DEF PeerSends, Fuller, TypeOK, Socket, Chunk
<1>2. ASSUME NEW f \in Fd, PeerCloses(f) PROVE Fuller
  BY <1>2 DEF PeerCloses, Fuller, TypeOK, Socket
<1>3. ASSUME sock' = sock PROVE Fuller
  BY <1>3 DEF Fuller
<1>4. CASE Peers
  BY <1>1, <1>2, <1>3, <1>4
     DEF Peers, PeerSends, PeerCloses, ClientConnects, server
<1>5. CASE Tick \/ Signal
  BY <1>3, <1>5 DEF Tick, Signal, server
<1>6. QED
  BY <1>4, <1>5

LEMMA FoundPeers ==
  ASSUME Inv, FoundInv, Peers \/ Tick \/ Signal
  PROVE  FoundInv'
<1>1. TypeOK
  BY DEF Inv
<1>2. /\ Fuller
      /\ backlog => backlog'
      /\ pc' = pc /\ idx' = idx /\ rfds' = rfds /\ rfd' = rfd
      /\ sd' = sd /\ sd_dom' = sd_dom
  BY <1>1, PeersFuller
<1>3. rfds \subseteq Fd /\ rfd \subseteq Fd
  BY <1>1 DEF TypeOK
<1>4. Synced'
  BY <1>2, <1>3 DEF FoundInv, Synced, Fuller
<1>5. \A f \in rfd : Readable(f) => Readable(f)'
  BY <1>2, <1>3 DEF Readable, Fuller
<1>6. \A f \in rfd : Ready(f) => Ready(f)'
  BY <1>1, <1>2, <1>3, FullerReady
<1>7. Found'
  <2>1. ASSUME pc = "accept"
        PROVE  \A f \in rfd : sock'[f].owner # Nobody /\ Readable(f)'
    BY <1>2, <1>3, <1>5, <2>1 DEF FoundInv, Found, Fuller
  <2>2. ASSUME pc = "client"
        PROVE  /\ sd_dom \in rfd => Ready(sd_dom)'
               /\ \A j \in Boards : sd[j] \in rfd => Ready(sd[j])'
    BY <1>2, <1>6, <2>2 DEF FoundInv, Found, Ready, IsOpen
  <2>3. ASSUME pc = "boards"
        PROVE  \A j \in Boards : j >= idx /\ sd[j] \in rfd => Ready(sd[j])'
    BY <1>2, <1>6, <2>3 DEF FoundInv, Found, Ready, IsOpen
  <2>4. QED
    BY <1>2, <2>1, <2>2, <2>3 DEF Found, Readable, Ready, IsOpen
<1>8. QED
  BY <1>4, <1>7 DEF FoundInv

(* A step that leads to none of the three places where input is read, and  *)
(* keeps set and table together.                                           *)
LEMMA FoundElsewhere ==
  ASSUME pc' \notin {"accept", "client", "boards"}, Synced'
  PROVE  FoundInv'
BY DEF FoundInv, Found

(* To the top of the loop: the loop only goes there while it runs. *)
LEMMA FoundTop ==
  ASSUME TypeOK', TableInv', pc' = "watch" => run'
  PROVE  pc' = "watch" => Synced'
BY DEF Synced, TableInv, Watched, TypeOK

LEMMA FoundStartup ==
  ASSUME TypeOK', TableInv', Startup
  PROVE  FoundInv'
<1>1. CASE StartBoard \/ StartFails
  <2>1. pc' \in {"startup", "killed"}
    BY <1>1 DEF StartBoard, StartFails, Exit
  <2>2. QED
    BY <2>1, FoundElsewhere DEF Synced
<1>2. CASE OpenListener
  <2>1. pc' \in {"watch", "shutdown"} /\ (pc' = "watch" => run')
    BY <1>2 DEF OpenListener
  <2>2. QED
    BY <2>1, FoundTop, FoundElsewhere DEF Synced
<1>3. QED
  BY <1>1, <1>2 DEF Startup

LEMMA FoundReconnect ==
  ASSUME Inv, FoundInv, Watch \/ Reconnect
  PROVE  FoundInv'
<1>1. TypeOK /\ idx \in Boards
  BY DEF Inv, TableInv, IdxInv, Watch, Reconnect, NotDue, NoSocket,
         ConnectFails, GreetingFails, Connects, Attempt
<1>2. /\ pc \in {"watch", "reconnect"}
      /\ pc' \in {"reconnect", "select"}
  BY DEF Watch, Reconnect, NotDue, NoSocket, ConnectFails, GreetingFails,
         Connects, Attempt, NextIdx
<1>3. \A f \in rfds : f \in Fd /\ sock[f].owner # Nobody
  BY <1>1, <1>2 DEF FoundInv, Synced, TypeOK
<1>4. \A f \in rfds' : sock'[f].owner # Nobody
  <2>1. CASE Watch /\ watchAge >= WatchMax
    <3>1. PICK fds : Forget(fds)
      BY <2>1 DEF Watch
    <3>2. QED
      BY <1>1, <1>3, <3>1, ForgetEffect
  <2>2. CASE rfds' = rfds /\ sock' = sock
    BY <1>3, <2>2
  <2>3. ASSUME FreeFds # {}
        PROVE  NextFd \in Fd /\ idx \in Owner \ {Nobody}
    BY <1>1, <2>3, LeastFd, Owners DEF Owner
  <2>4. CASE ConnectFails
    <3>1. /\ NextFd \in Fd /\ idx \in Owner \ {Nobody}
          /\ rfds' = rfds /\ sock' = [sock EXCEPT ![NextFd] = NewSock(idx)]
      BY <2>3, <2>4 DEF ConnectFails
    <3>2. QED
      BY <1>1, <1>3, <3>1, Sockets DEF TypeOK
  <2>5. CASE Connects
    <3>1. NextFd \in Fd /\ idx \in Owner \ {Nobody} /\ Register(NextFd, idx)
      BY <2>3, <2>5 DEF Connects
    <3>2. QED
      BY <1>1, <1>3, <3>1, RegisterEffect, Sockets DEF TypeOK
  <2>6. QED
    BY <2>1, <2>2, <2>4, <2>5
       DEF Watch, Reconnect, NotDue, NoSocket, GreetingFails, server
<1>5. QED
  BY <1>2, <1>4, FoundElsewhere DEF Synced

(* select: an error only when set and table have parted, and they have not. *)
LEMMA FoundSelect ==
  ASSUME Inv, FoundInv, Select \/ Interrupted
  PROVE  FoundInv'
<1>1. TypeOK
  BY DEF Inv
<1>2. CASE Select
  <2>1. \A f \in rfds : f \in Fd /\ IsOpen(f)
    BY <1>1, <1>2, Owners DEF FoundInv, Synced, Select, IsOpen, TypeOK
  <2>2. /\ pc' = "accept" /\ sock' = sock /\ backlog' = backlog
        /\ rfd' = {f \in rfds : Readable(f)}
    BY <1>2, <2>1 DEF Select
  <2>3. Found'
    BY <2>1, <2>2 DEF Found, Readable, IsOpen
  <2>4. QED
    BY <2>2, <2>3 DEF FoundInv, Synced
<1>3. CASE Interrupted
  BY <1>3, FoundElsewhere DEF Interrupted, Synced
<1>4. QED
  BY <1>2, <1>3

(* A new client gets a number select did not report. *)
LEMMA FoundAccept ==
  ASSUME Inv, FoundInv, ~Crossed, Accept
  PROVE  FoundInv'
<1>1. /\ TypeOK /\ pc = "accept" /\ pc' = "client" /\ sd' = sd /\ rfd' = rfd
  BY DEF Inv, Accept
<1>2. \A f \in rfd : f \in Fd /\ sock[f].owner # Nobody /\ Readable(f)
  BY <1>1 DEF FoundInv, Found, TypeOK
<1>3. \A f \in rfd : sock'[f] = sock[f]
  <2>1. CASE sd_dom_srv \in rfd /\ FreeFds # {}
    <3>1. NextFd \in Fd /\ sock[NextFd].owner = Nobody
            /\ Register(NextFd, Client) /\ Client \in Owner
      BY <2>1, LeastFd DEF Accept, Owner
    <3>2. NextFd \notin rfd
      BY <1>2, <3>1
    <3>3. QED
      BY <1>1, <1>2, <3>1, <3>2, RegisterEffect
  <2>2. CASE sd_dom_srv \notin rfd \/ FreeFds = {}
    BY <2>2 DEF Accept
  <2>3. QED
    BY <2>1, <2>2
<1>4. sd_dom' \in rfd => sd_dom' = sd_dom
  <2>1. CASE sd_dom_srv \in rfd /\ FreeFds # {}
    BY <1>2, <2>1, LeastFd DEF Accept
  <2>2. CASE sd_dom_srv \in rfd /\ FreeFds = {}
    BY <1>2, <2>2, Owners DEF Accept
  <2>3. CASE sd_dom_srv \notin rfd
    BY <2>3 DEF Accept
  <2>4. QED
    BY <2>1, <2>2, <2>3
<1>5. ASSUME NEW f \in rfd, sock[f].owner # Listen PROVE Ready(f)'
  BY <1>2, <1>3, <1>5 DEF Readable, Ready, IsOpen
<1>6. \A j \in Boards : sd[j] \in rfd => sock[sd[j]].owner # Listen
  BY <1>2, Owners DEF Crossed, IsOpen
<1>7. sd_dom \in rfd => sock[sd_dom].owner # Listen
  BY <1>2, Owners DEF Crossed, IsOpen
<1>8. Found'
  BY <1>1, <1>4, <1>5, <1>6, <1>7 DEF Found, Ready, IsOpen
<1>9. QED
  BY <1>1, <1>8 DEF FoundInv, Synced

(* The input of one descriptor is taken, or its socket closed: what else   *)
(* was found stays.                                                        *)
LEMMA OthersReady ==
  ASSUME TypeOK, NEW fd \in Fd,
         \/ sock' = Drained(sock, fd)
         \/ sock' = Closed(sock, {fd})
  PROVE  \A f \in (Fd \cup {NoFd}) \ {fd} : Ready(f) => Ready(f)'
<1>1. \A f \in Fd \ {fd} : sock'[f] = sock[f]
  BY ClosedEffect DEF Drained, TypeOK
<1>2. QED
  BY <1>1, Owners DEF Ready, IsOpen

(* A closed socket is ready: the next recv() on its number is an error. *)
LEMMA ClosedReady ==
  ASSUME TypeOK, NEW fd \in Fd, sock' = Closed(sock, {fd})
  PROVE  Ready(fd)'
<1>1. sock'[fd].owner = Nobody
  BY ClosedEffect, Sockets
<1>2. QED
  BY <1>1 DEF Ready, IsOpen

LEMMA FoundClient ==
  ASSUME Inv, FoundInv, ~Crossed, TypeOK', TableInv', ClientStep
  PROVE  FoundInv'
<1>1. TypeOK
  BY DEF Inv
<1>2. CASE NoCommand
  BY <1>2 DEF NoCommand, FoundInv, Found, Synced, server, Ready, IsOpen
<1>3. CASE ClientGone \/ ClientPipe
  <2>1. pc' \in {"watch", "shutdown", "killed"} /\ (pc' = "watch" => run')
    BY <1>3 DEF ClientGone, DropClient, AtTop, ClientPipe, Exit
  <2>2. QED
    BY <2>1, FoundTop, FoundElsewhere DEF Synced
<1>4. CASE Command
  <2>1. /\ pc = "client" /\ pc' = "boards" /\ rfd' = rfd /\ sd' = sd
        /\ sd_dom \in Fd /\ IsOpen(sd_dom)
        /\ sock' = Drained(sock, sd_dom)
    BY <1>1, <1>4 DEF Command, ClientReadable, server, TypeOK
  <2>2. \A j \in Boards : sd[j] \in Fd \cup {NoFd}
    BY <1>1 DEF TypeOK
  <2>3. \A j \in Boards : sd[j] # sd_dom
    BY <2>1, Owners DEF Crossed
  <2>4. \A j \in Boards : sd[j] \in rfd => Ready(sd[j])
    BY <2>1 DEF FoundInv, Found
  <2>5. \A f \in (Fd \cup {NoFd}) \ {sd_dom} : Ready(f) => Ready(f)'
    BY <1>1, <2>1, OthersReady
  <2>6. \A j \in Boards : sd[j] \in rfd => Ready(sd[j])'
    BY <2>1, <2>2, <2>3, <2>4, <2>5 DEF Ready, IsOpen
  <2>7. QED
    BY <2>1, <2>6 DEF FoundInv, Found, Synced
<1>5. QED
  BY <1>2, <1>3, <1>4 DEF ClientStep

(* The other boards' steps of the pass. *)
LEMMA FoundNextBoard ==
  ASSUME Inv, FoundInv, pc = "boards", TypeOK', TableInv',
         NEW r, AfterBoard(r), r => run', rfd' = rfd, sd' = sd,
         \A j \in Boards : j > idx /\ sd[j] \in rfd /\ Ready(sd[j])
                             => Ready(sd[j])'
  PROVE  FoundInv'
<1>1. idx \in Boards
  BY DEF Inv, TableInv, IdxInv
<1>2. CASE idx = NBoards
  <2>1. pc' \in {"watch", "shutdown"} /\ (pc' = "watch" => run')
    BY <1>2 DEF AfterBoard, AtTop
  <2>2. QED
    BY <2>1, FoundTop, FoundElsewhere DEF Synced
<1>3. CASE idx # NBoards
  <2>1. pc' = "boards" /\ idx' = idx + 1
    BY <1>3 DEF AfterBoard
  <2>2. \A j \in Boards : j >= idx + 1 => j > idx /\ j >= idx
    BY <1>1, CarServerAssumption DEF Boards
  <2>3. \A j \in Boards : j >= idx + 1 /\ sd[j] \in rfd => Ready(sd[j])'
    BY <2>2 DEF FoundInv, Found
  <2>4. QED
    BY <2>1, <2>3 DEF FoundInv, Found, Synced
<1>4. QED
  BY <1>2, <1>3

LEMMA FoundBoard ==
  ASSUME Inv, FoundInv, ~Crossed, TypeOK', TableInv', BoardStep
  PROVE  FoundInv'
<1>1. TypeOK /\ \A j \in Boards : sd[j] \in Fd \cup {NoFd}
  BY DEF Inv, TypeOK
<1>2. CASE NoFrame
  <2>1. /\ pc = "boards" /\ AfterBoard(run)
        /\ rfd' = rfd /\ sd' = sd /\ sock' = sock /\ run' = run
    BY <1>2 DEF NoFrame, server
  <2>2. \A j \in Boards : Ready(sd[j]) => Ready(sd[j])'
    BY <2>1 DEF Ready, IsOpen
  <2>3. QED
    BY <2>1, <2>2, FoundNextBoard
<1>3. CASE BoardPipe
  <2>1. pc' = "killed"
    BY <1>3 DEF BoardPipe, Exit
  <2>2. QED
    BY <2>1, FoundElsewhere DEF Synced
<1>4. ASSUME BoardInput
      PROVE  /\ pc = "boards" /\ idx \in Boards
             /\ Mine = sd[idx] /\ Mine \in Fd
  BY <1>1, <1>4
     DEF BoardInput, BoardReadable, Mine, Inv, TableInv, IdxInv
<1>5. ASSUME BoardInput, Read, sock' = Closed(sock, {Mine})
      PROVE  \A j \in Boards : Ready(sd[j]) => Ready(sd[j])'
  <2>1. Mine \in Fd /\ sd' = sd
    BY <1>4, <1>5 DEF Read
  <2>2. \A f \in Fd \cup {NoFd} : Ready(f) => Ready(f)'
    BY <1>1, <1>5, <2>1, OthersReady, ClosedReady
  <2>3. QED
    BY <1>1, <2>1, <2>2 DEF Ready, IsOpen
<1>6. ASSUME BoardInput, Read, sock' = Drained(sock, Mine), IsOpen(Mine)
      PROVE  \A j \in Boards : j > idx /\ Ready(sd[j]) => Ready(sd[j])'
  <2>1. Mine \in Fd /\ Mine = sd[idx] /\ idx \in Boards /\ sd' = sd
    BY <1>4, <1>6 DEF Read
  <2>2. \A f \in (Fd \cup {NoFd}) \ {Mine} : Ready(f) => Ready(f)'
    BY <1>1, <1>6, <2>1, OthersReady
  <2>3. \A j \in Boards : sd[j] = Mine => j = idx
    BY <1>6, <2>1 DEF Crossed
  <2>4. \A j \in Boards : j > idx => j # idx
    BY <2>1 DEF Boards
  <2>5. QED
    BY <1>1, <2>1, <2>2, <2>3, <2>4 DEF Ready, IsOpen
<1>7. ASSUME BoardInput, NEW r, AfterBoard(r), r => run', Read,
             \/ sock' = Closed(sock, {Mine})
             \/ sock' = Drained(sock, Mine) /\ IsOpen(Mine)
      PROVE  FoundInv'
  <2>1. \A j \in Boards : j > idx /\ Ready(sd[j]) => Ready(sd[j])'
    BY <1>5, <1>6, <1>7
  <2>2. pc = "boards" /\ rfd' = rfd /\ sd' = sd
    BY <1>4, <1>7 DEF Read
  <2>3. QED
    BY <1>7, <2>1, <2>2, FoundNextBoard
<1>8. CASE ReadFails
  BY <1>7, <1>8 DEF ReadFails, Forget
<1>9. CASE WrongData
  BY <1>7, <1>9 DEF WrongData, Forget
<1>10. CASE IgnoreEcho
  BY <1>7, <1>10 DEF IgnoreEcho, HasChunk
<1>11. CASE Answer
  BY <1>7, <1>11 DEF Answer, Judge, FrameSeen, VersionSeen, VersionWrong,
                     HasChunk, AtEof
<1>12. CASE AnswerFails
  BY <1>7, <1>12 DEF AnswerFails, Judge
<1>13. QED
  BY <1>2, <1>3, <1>8, <1>9, <1>10, <1>11, <1>12 DEF BoardStep

LEMMA FoundStep ==
  Inv /\ Inv' /\ FoundInv /\ ~Crossed /\ [Next]_vars => FoundInv'
<1> SUFFICES ASSUME Inv, Inv', FoundInv, ~Crossed, [Next]_vars
             PROVE  FoundInv'
  OBVIOUS
<1>1. TypeOK' /\ TableInv'
  BY DEF Inv
<1>2. CASE Startup
  BY <1>1, <1>2, FoundStartup
<1>3. CASE Watch \/ Reconnect
  BY <1>3, FoundReconnect
<1>4. CASE Select \/ Interrupted
  BY <1>4, FoundSelect
<1>5. CASE Accept
  BY <1>5, FoundAccept
<1>6. CASE ClientStep
  BY <1>1, <1>6, FoundClient
<1>7. CASE BoardStep
  BY <1>1, <1>7, FoundBoard
<1>8. CASE Shutdown
  <2>1. pc' = "stopped"
    BY <1>8 DEF Shutdown, Exit
  <2>2. QED
    BY <2>1, FoundElsewhere DEF Synced
<1>9. CASE Peers \/ Tick \/ Signal
  BY <1>9, FoundPeers
<1>10. CASE UNCHANGED vars
  BY <1>10 DEF vars, server, clock, FoundInv, Synced, Found, Readable, Ready,
               IsOpen
<1>11. QED
  BY <1>2, <1>3, <1>4, <1>5, <1>6, <1>7, <1>8, <1>9, <1>10 DEF Next, Serve

(* As long as no descriptor number is crossed, no step of a pass blocks    *)
(* for what select reported and another step took: not the accept, not     *)
(* the client's recv, not the recv of any board, whatever sockets the pass *)
(* closed and opened before it (lines 299, 318, 357).                      *)
THEOREM NeverBlocksHolds == Spec /\ []~Crossed => []NeverBlocks
<1>1. Init => FoundInv
  BY DEF Init, FoundInv, Synced, Found
<1>2. Inv /\ FoundInv => NeverBlocks
  <2> SUFFICES ASSUME Inv, FoundInv PROVE NeverBlocks
    OBVIOUS
  <2>1. ASSUME pc = "accept", sd_dom_srv \in rfd PROVE backlog
    BY <2>1 DEF FoundInv, Found, Readable, Inv, TableInv, Listening
  <2>2. ASSUME BoardInput PROVE Ready(Mine)
    <3>1. pc = "boards" /\ idx \in Boards /\ idx >= idx /\ sd[idx] \in rfd
      BY <2>2 DEF BoardInput, BoardReadable, Mine, Inv, TableInv, IdxInv,
                  Boards
    <3>2. QED
      BY <3>1 DEF FoundInv, Found, Mine
  <2>3. QED
    BY <2>1, <2>2 DEF NeverBlocks, ClientReadable, FoundInv, Found
<1>3. QED
  BY <1>1, <1>2, FoundStep, Invariance, PTL DEF Spec

-----------------------------------------------------------------------------
(* The variant behind StopEnds.                                            *)

(* The steps of the pass that are still to come, and of its shutdown. *)
PassLeft ==
  CASE pc = "startup"   -> NBoards + 3 - idx
    [] pc = "watch"     -> 2 * NBoards + 5
    [] pc = "reconnect" -> 2 * NBoards + 5 - idx
    [] pc = "select"    -> NBoards + 4
    [] pc = "accept"    -> NBoards + 3
    [] pc = "client"    -> NBoards + 2
    [] pc = "boards"    -> NBoards + 2 - idx
    [] pc = "shutdown"  -> 1
    [] OTHER            -> 0

(* Every step of the server brings the end of its pass nearer, unless it   *)
(* starts a new one, and it starts one only while run is set; nothing sets *)
(* run again, and neither peers nor clock lengthen the pass (lines 69-74   *)
(* and 239).  So a stopped loop needs 2 * NBoards + 5 steps at most.       *)
PassShortens ==
  [][ /\ Serve => \/ PassLeft' < PassLeft
                  \/ pc # "watch" /\ pc' = "watch" /\ run'
      /\ Peers \/ Tick \/ Signal => PassLeft' = PassLeft
      /\ ~run => ~run' ]_vars

(* The loops over the boards: the next board, or the next step. *)
LEMMA LoopLeft ==
  ASSUME idx \in Boards,
         \/ pc = "reconnect" /\ NextIdx("select")
         \/ pc = "boards" /\ \E r : AfterBoard(r) /\ (r => run')
  PROVE  \/ PassLeft' < PassLeft
         \/ pc # "watch" /\ pc' = "watch" /\ run'
<1>1. NBoards \in Nat /\ idx \in Nat /\ idx <= NBoards
  BY CarServerAssumption DEF Boards
<1>2. CASE pc = "reconnect" /\ NextIdx("select")
  <2>1. CASE idx = NBoards
    BY <1>1, <1>2, <2>1 DEF NextIdx, PassLeft
  <2>2. CASE idx # NBoards
    BY <1>1, <1>2, <2>2 DEF NextIdx, PassLeft
  <2>3. QED
    BY <2>1, <2>2
<1>3. ASSUME pc = "boards", NEW r, AfterBoard(r), r => run'
      PROVE  \/ PassLeft' < PassLeft
             \/ pc' = "watch" /\ run'
  <2>1. CASE idx = NBoards
    <3>1. pc' = "shutdown" \/ (pc' = "watch" /\ run')
      BY <1>3, <2>1 DEF AfterBoard, AtTop
    <3>2. QED
      BY <1>1, <1>3, <3>1 DEF PassLeft
  <2>2. CASE idx # NBoards
    BY <1>1, <1>3, <2>2 DEF AfterBoard, PassLeft
  <2>3. QED
    BY <2>1, <2>2
<1>4. QED
  BY <1>2, <1>3

LEMMA PassStep ==
  ASSUME Inv, Serve
  PROVE  \/ PassLeft' < PassLeft
         \/ pc # "watch" /\ pc' = "watch" /\ run'
<1>1. /\ NBoards \in Nat \ {0}
      /\ idx \in Nat /\ idx <= NBoards + 1
      /\ pc # "startup" => idx \in Boards
  BY CarServerAssumption DEF Inv, TypeOK, TableInv, IdxInv
<1>2. \A i \in Boards : i \in Nat /\ i <= NBoards
  BY CarServerAssumption DEF Boards
<1>3. CASE Startup
  <2>1. CASE StartBoard
    BY <1>1, <2>1 DEF StartBoard, PassLeft
  <2>2. CASE StartFails
    BY <1>1, <2>2 DEF StartFails, Exit, PassLeft
  <2>3. CASE OpenListener
    BY <1>1, <2>3 DEF OpenListener, PassLeft
  <2>4. QED
    BY <1>3, <2>1, <2>2, <2>3 DEF Startup
<1>4. CASE Watch
  <2>1. pc = "watch" /\ pc' = "reconnect" /\ idx' = 1
    BY <1>4 DEF Watch
  <2>2. QED
    BY <1>1, <2>1 DEF PassLeft
<1>5. CASE Reconnect
  <2>1. pc = "reconnect" /\ NextIdx("select")
    BY <1>5 DEF Reconnect, NotDue, NoSocket, ConnectFails, GreetingFails,
                Connects, Attempt
  <2>2. QED
    BY <1>1, <2>1, LoopLeft
<1>6. CASE Select \/ Interrupted \/ Accept \/ Shutdown
  <2>1. \/ pc = "select" /\ pc' \in {"accept", "shutdown"}
        \/ pc = "accept" /\ pc' = "client"
        \/ pc = "shutdown" /\ pc' = "stopped"
    BY <1>6 DEF Select, Interrupted, Accept, Shutdown, Exit
  <2>2. QED
    BY <1>1, <2>1 DEF PassLeft
<1>7. CASE ClientStep
  <2>1. /\ pc = "client"
        /\ \/ pc' = "boards" /\ idx' = 1
           \/ pc' \in {"shutdown", "killed"}
           \/ pc' = "watch" /\ run'
    BY <1>7 DEF ClientStep, NoCommand, ClientGone, DropClient, AtTop, Command,
                ClientPipe, Exit
  <2>2. QED
    BY <1>1, <2>1 DEF PassLeft
<1>8. CASE BoardPipe
  <2>1. pc = "boards" /\ pc' = "killed"
    BY <1>8 DEF BoardPipe, BoardInput, Exit
  <2>2. QED
    BY <1>1, <1>2, <2>1 DEF PassLeft
<1>9. CASE BoardStep /\ ~BoardPipe
  <2>1. pc = "boards"
    BY <1>9 DEF BoardStep, NoFrame, ReadFails, IgnoreEcho, WrongData, Answer,
                AnswerFails, Judge, BoardInput
  <2>2. CASE NoFrame
    BY <1>1, <2>1, <2>2, LoopLeft DEF NoFrame, server
  <2>3. CASE ReadFails
    BY <1>1, <2>1, <2>3, LoopLeft DEF ReadFails
  <2>4. CASE IgnoreEcho
    BY <1>1, <2>1, <2>4, LoopLeft DEF IgnoreEcho
  <2>5. CASE WrongData
    BY <1>1, <2>1, <2>5, LoopLeft DEF WrongData
  <2>6. CASE Answer
    BY <1>1, <2>1, <2>6, LoopLeft DEF Answer
  <2>7. CASE AnswerFails
    BY <1>1, <2>1, <2>7, LoopLeft DEF AnswerFails
  <2>8. QED
    BY <1>9, <2>2, <2>3, <2>4, <2>5, <2>6, <2>7 DEF BoardStep
<1>10. QED
  BY <1>3, <1>4, <1>5, <1>6, <1>7, <1>8, <1>9 DEF Serve

(* run is written only to clear it. *)
LEMMA RunStaysOff ==
  ASSUME [Next]_vars, ~run
  PROVE  ~run'
<1>1. CASE Startup \/ Watch \/ Reconnect
  BY <1>1 DEF Startup, StartBoard, StartFails, OpenListener, Watch, Reconnect,
              NotDue, NoSocket, ConnectFails, GreetingFails, Connects,
              Attempt, server
<1>2. CASE Select \/ Interrupted \/ Accept \/ ClientStep \/ Shutdown
  BY <1>2 DEF Select, Interrupted, Accept, ClientStep, NoCommand, ClientGone,
              DropClient, Command, ClientPipe, Shutdown, server
<1>3. CASE BoardStep
  BY <1>3 DEF BoardStep, NoFrame, ReadFails, IgnoreEcho, WrongData, Answer,
              AnswerFails, BoardPipe, server
<1>4. CASE Peers \/ Tick \/ Signal \/ UNCHANGED vars
  BY <1>4 DEF Peers, PeerSends, PeerCloses, ClientConnects, Tick, Signal,
              vars, server
<1>5. QED
  BY <1>1, <1>2, <1>3, <1>4 DEF Next, Serve

(* What is left is a number, and nothing when the process has ended only. *)
PassBounded ==
  /\ PassLeft \in 0 .. (2 * NBoards + 5)
  /\ PassLeft = 0 <=> ~Alive

LEMMA PassBound ==
  ASSUME Inv
  PROVE  PassBounded
<1>1. /\ NBoards \in Nat \ {0}
      /\ idx \in 1 .. (NBoards + 1)
      /\ pc # "startup" => idx \in 1 .. NBoards
  BY CarServerAssumption DEF Inv, TypeOK, TableInv, IdxInv, Boards
<1>2. pc \in {"startup", "watch", "reconnect", "select", "accept", "client",
              "boards", "shutdown", "stopped", "killed"}
  BY DEF Inv, TypeOK
<1>3. QED
  BY <1>1, <1>2 DEF PassBounded, PassLeft, Alive

(* A pass ends, and after run is cleared no other begins. *)
THEOREM PassShortensHolds == Spec => []PassBounded /\ PassShortens
<1>1. Inv /\ [Next]_vars =>
        [ /\ Serve => \/ PassLeft' < PassLeft
                      \/ pc # "watch" /\ pc' = "watch" /\ run'
          /\ Peers \/ Tick \/ Signal => PassLeft' = PassLeft
          /\ ~run => ~run' ]_vars
  <2> SUFFICES ASSUME Inv, [Next]_vars
               PROVE  /\ Serve => \/ PassLeft' < PassLeft
                                  \/ pc # "watch" /\ pc' = "watch" /\ run'
                      /\ Peers \/ Tick \/ Signal => PassLeft' = PassLeft
                      /\ ~run => ~run'
    OBVIOUS
  <2>1. ASSUME Peers \/ Tick \/ Signal PROVE PassLeft' = PassLeft
    <3>1. pc' = pc /\ idx' = idx
      BY <2>1 DEF Peers, PeerSends, PeerCloses, ClientConnects, Tick, Signal
    <3>2. QED
      BY <3>1 DEF PassLeft
  <2>2. QED
    BY <2>1, PassStep, RunStaysOff
<1>2. Inv => PassBounded
  BY PassBound
<1>3. QED
  BY <1>1, <1>2, Invariance, PTL DEF Spec, PassShortens

-----------------------------------------------------------------------------
(* What Retried rests on: no pass goes by a board that is due.             *)

(* Steps of the server until it comes to board i in its loop over the      *)
(* boards that are not connected: in this pass or in the next.             *)
Way(i) ==
  CASE pc = "reconnect" /\ idx <= i -> i - idx
    [] pc = "watch"                 -> NBoards
    [] OTHER                        -> PassLeft + NBoards

WayBounded == \A i \in Boards : Way(i) \in 0 .. (3 * NBoards + 5)

(* A dropped board that is due is nearer to its attempt with every step of *)
(* the server.  Its attempts are counted from the last one: nothing but an *)
(* attempt at a board that is dropped, and time, changes their date.       *)
RetryNears ==
  [][ \A i \in Boards :
        /\ Serve /\ i \notin conn_boards /\ tryAge[i] >= TryMax
             => tryAge'[i] = 0 \/ Way(i)' < Way(i)
        /\ \/ tryAge'[i] = tryAge[i]
           \/ Tick /\ tryAge'[i] = tryAge[i] + 1
           \/ Serve /\ i \notin conn_boards /\ tryAge[i] >= TryMax
                    /\ tryAge'[i] = 0 ]_vars

LEMMA AgeStep ==
  ASSUME Inv, [Next]_vars, NEW i \in Boards
  PROVE  \/ tryAge'[i] = tryAge[i]
         \/ Tick /\ tryAge'[i] = tryAge[i] + 1
         \/ Serve /\ i \notin conn_boards /\ tryAge[i] >= TryMax
                  /\ tryAge'[i] = 0
<1>1. tryAge \in [Boards -> -Grace .. TryMax]
  BY DEF Inv, TypeOK
<1>2. ASSUME NEW fd, Attempt(fd), Serve
      PROVE  \/ tryAge'[i] = tryAge[i]
             \/ Serve /\ i \notin conn_boards /\ tryAge[i] >= TryMax
                      /\ tryAge'[i] = 0
  BY <1>1, <1>2 DEF Attempt, Due
<1>3. CASE Reconnect
  <2>1. Serve
    BY <1>3 DEF Serve
  <2>2. QED
    BY <1>2, <1>3, <2>1
    DEF Reconnect, NotDue, NoSocket, ConnectFails, GreetingFails, Connects,
        clock
<1>4. CASE Startup \/ Watch \/ Select \/ Interrupted \/ Accept \/ Shutdown
  BY <1>4
  DEF Startup, StartBoard, StartFails, OpenListener, Watch, Select,
      Interrupted, Accept, Shutdown, clock
<1>5. CASE ClientStep
  BY <1>5
  DEF ClientStep, NoCommand, ClientGone, DropClient, Command, ClientPipe, clock
<1>6. CASE BoardStep
  BY <1>6
  DEF BoardStep, NoFrame, ReadFails, IgnoreEcho, WrongData, Answer,
      AnswerFails, BoardPipe, Read, clock
<1>7. CASE Tick
  BY <1>1, <1>7 DEF Tick
<1>8. CASE Peers \/ Signal \/ UNCHANGED vars
  BY <1>8
  DEF Peers, PeerSends, PeerCloses, ClientConnects, Signal, vars, clock
<1>9. QED
  BY <1>3, <1>4, <1>5, <1>6, <1>7, <1>8 DEF Next, Serve

LEMMA WayStep ==
  ASSUME Inv, TypeOK', Serve, NEW i \in Boards,
         i \notin conn_boards, tryAge[i] >= TryMax
  PROVE  tryAge'[i] = 0 \/ Way(i)' < Way(i)
<1>1. /\ NBoards \in Nat \ {0}
      /\ i \in Nat /\ 1 <= i /\ i <= NBoards
      /\ idx \in Nat /\ 1 <= idx /\ idx <= NBoards + 1
      /\ pc # "startup" => idx \in Boards /\ idx <= NBoards
  BY CarServerAssumption DEF Inv, TypeOK, TableInv, IdxInv, Boards
<1>2. tryAge \in [Boards -> -Grace .. TryMax]
  BY DEF Inv, TypeOK
<1>3. CASE pc = "watch"
  <2>1. pc' = "reconnect" /\ idx' = 1
    BY <1>3
    DEF Serve, Startup, StartBoard, StartFails, OpenListener, Watch, Reconnect,
        NotDue, NoSocket, ConnectFails, GreetingFails, Connects, Attempt,
        Select, Interrupted, Accept, ClientStep, NoCommand, ClientGone,
        Command, ClientPipe, BoardStep, NoFrame, ReadFails, IgnoreEcho,
        WrongData, Answer, AnswerFails, BoardPipe, Judge, BoardInput, Shutdown
  <2>2. QED
    BY <1>1, <1>3, <2>1 DEF Way
<1>4. CASE pc = "reconnect"
  <2>1. Reconnect
    BY <1>4
    DEF Serve, Startup, StartBoard, StartFails, OpenListener, Watch,
        Select, Interrupted, Accept, ClientStep, NoCommand, ClientGone,
        Command, ClientPipe, BoardStep, NoFrame, ReadFails, IgnoreEcho,
        WrongData, Answer, AnswerFails, BoardPipe, Judge, BoardInput, Shutdown
  <2>2. NextIdx("select")
    BY <2>1
    DEF Reconnect, NotDue, NoSocket, ConnectFails, GreetingFails, Connects,
        Attempt
  <2>3. CASE idx = i
    <3>1. Due(idx)
      BY <2>3 DEF Due
    <3>2. PICK fd : Attempt(fd)
      BY <2>1, <3>1
      DEF Reconnect, NotDue, NoSocket, ConnectFails, GreetingFails, Connects
    <3>3. QED
      BY <1>2, <2>3, <3>2 DEF Attempt
  <2>4. CASE idx < i
    <3>1. pc' = "reconnect" /\ idx' = idx + 1
      BY <1>1, <1>4, <2>2, <2>4 DEF NextIdx
    <3>2. QED
      BY <1>1, <1>4, <2>4, <3>1 DEF Way
  <2>5. CASE idx > i
    <3>1. \/ pc' = "reconnect" /\ idx' = idx + 1
          \/ pc' = "select" /\ idx = NBoards
      BY <1>4, <2>2 DEF NextIdx
    <3>2. QED
      BY <1>1, <1>4, <2>5, <3>1 DEF Way, PassLeft
  <2>6. QED
    BY <1>1, <2>3, <2>4, <2>5
<1>5. CASE pc \notin {"watch", "reconnect"}
  <2>1. \/ PassLeft' < PassLeft
        \/ pc' = "watch"
    BY PassStep
  <2>2. PassLeft \in Nat /\ PassLeft > 0
    <3>1. Alive
      BY DEF Alive, Serve, Startup, StartBoard, StartFails, OpenListener,
             Watch, Reconnect, NotDue, NoSocket, ConnectFails, GreetingFails,
             Connects, Attempt, Select, Interrupted, Accept, ClientStep,
             NoCommand, ClientGone, Command, ClientPipe, BoardStep, NoFrame,
             ReadFails, IgnoreEcho, WrongData, Answer, AnswerFails, BoardPipe,
             Judge, BoardInput, Shutdown
    <3>2. QED
      BY <1>1, <3>1, PassBound DEF PassBounded
  <2>3. CASE pc' = "watch"
    BY <1>1, <1>5, <2>2, <2>3 DEF Way
  <2>4. CASE pc' # "watch"
    <3>1. pc' # "reconnect"
      BY <1>5
      DEF Serve, Startup, StartBoard, StartFails, OpenListener, Watch,
          Reconnect, NotDue, NoSocket, ConnectFails, GreetingFails, Connects,
          Attempt, Select, Interrupted, Accept, ClientStep, NoCommand,
          ClientGone, DropClient, AtTop, Command, ClientPipe, BoardStep,
          NoFrame, ReadFails, IgnoreEcho, WrongData, Answer, AnswerFails,
          BoardPipe, Judge, BoardInput, AfterBoard, Shutdown, Exit
    <3>2. Way(i) = PassLeft + NBoards /\ Way(i)' = PassLeft' + NBoards
      BY <1>5, <2>4, <3>1 DEF Way
    <3>3. PassLeft' \in Int
      <4>1. idx' \in Int
        BY DEF TypeOK
      <4>2. QED
        BY <1>1, <4>1 DEF PassLeft
    <3>4. PassLeft' + NBoards < PassLeft + NBoards
      <4>1. \A x, y, n \in Int : x < y => x + n < y + n
        OBVIOUS
      <4>2. PassLeft' < PassLeft
        BY <2>1, <2>4
      <4>3. PassLeft \in Int /\ NBoards \in Int
        BY <1>1, <2>2
      <4>4. QED
        BY <3>3, <4>1, <4>2, <4>3
    <3>5. QED
      BY <3>2, <3>4, Zenon
  <2>5. QED
    BY <2>3, <2>4
<1>6. QED
  BY <1>3, <1>4, <1>5

(* A dropped board is tried again after at most 3 * NBoards + 5 steps of   *)
(* the server from when it is due, and due TryMax seconds after its last   *)
(* attempt, whatever becomes of the others, the client and the clock (line *)
(* 258).                                                                   *)
THEOREM RetryNearsHolds == Spec => []WayBounded /\ RetryNears
<1>1. Inv /\ Inv' /\ [Next]_vars =>
        [ \A i \in Boards :
            /\ Serve /\ i \notin conn_boards /\ tryAge[i] >= TryMax
                 => tryAge'[i] = 0 \/ Way(i)' < Way(i)
            /\ \/ tryAge'[i] = tryAge[i]
               \/ Tick /\ tryAge'[i] = tryAge[i] + 1
               \/ Serve /\ i \notin conn_boards /\ tryAge[i] >= TryMax
                        /\ tryAge'[i] = 0 ]_vars
  BY AgeStep, WayStep DEF Inv
<1>2. Inv => WayBounded
  <2> SUFFICES ASSUME Inv, NEW i \in Boards
               PROVE  Way(i) \in 0 .. (3 * NBoards + 5)
    BY DEF WayBounded
  <2>1. /\ NBoards \in Nat \ {0}
        /\ i \in 1 .. NBoards
        /\ idx \in 1 .. (NBoards + 1)
    BY CarServerAssumption DEF Inv, TypeOK, Boards
  <2>2. PassLeft \in 0 .. (2 * NBoards + 5)
    BY PassBound DEF PassBounded
  <2>3. QED
    BY <2>1, <2>2 DEF Way
<1>3. QED
  BY <1>1, <1>2, Invariance, PTL DEF Spec, RetryNears

-----------------------------------------------------------------------------
(* What SilentDropped rests on: a silent board is not counted as heard.    *)

Silent(i) ==
  IsOpen(sd[i]) /\ sock[sd[i]].chunk = "none" /\ sock[sd[i]].link # "gone"

(* What is read on another number, by another step of the pass, before or  *)
(* after it, neither counts for a silent board nor connects it again; and  *)
(* the watchdog leaves a board connected only when it counted enough, and  *)
(* counts from 0 afterwards: the second one that looks at a silent board   *)
(* finds nothing.                                                          *)
SilentUnheard ==
  [][ \A i \in Boards : Silent(i) =>
        /\ conn_ctr'[i] <= conn_ctr[i]
        /\ i \in conn_boards' => i \in conn_boards
        /\ Watch /\ watchAge >= WatchMax =>
              /\ conn_ctr'[i] = 0
              /\ i \in conn_boards' => conn_ctr[i] >= MIN_MSGS ]_vars

(* A board that was not started yet has no number. *)
Unstarted == pc = "startup" => \A i \in Boards : i >= idx => sd[i] = NoFd

LEMMA UnstartedStep ==
  ASSUME Inv, Unstarted, [Next]_vars
  PROVE  Unstarted'
<1>1. CASE StartBoard
  <2>1. /\ idx \in Boards /\ idx' = idx + 1 /\ pc' = pc /\ pc = "startup"
        /\ sd' = [sd EXCEPT ![idx] = NextFd]
    BY <1>1 DEF StartBoard
  <2>2. sd \in [Boards -> Fd \cup {NoFd}]
    BY DEF Inv, TypeOK
  <2>3. \A i \in Boards : i >= idx + 1 => i >= idx /\ i # idx
    BY <2>1 DEF Boards
  <2>4. QED
    BY <2>1, <2>2, <2>3 DEF Unstarted
<1>2. CASE Peers \/ Tick \/ Signal \/ UNCHANGED vars
  <2>1. pc' = pc /\ idx' = idx /\ sd' = sd
    BY <1>2
    DEF Peers, PeerSends, PeerCloses, ClientConnects, Tick, Signal, vars,
        server
  <2>2. QED
    BY <2>1 DEF Unstarted
<1>3. CASE Serve /\ ~StartBoard
  <2>1. pc' # "startup"
    BY <1>3
    DEF Serve, Startup, StartFails, OpenListener, Watch, Reconnect, NotDue,
        NoSocket, ConnectFails, GreetingFails, Connects, Attempt, NextIdx,
        Select, Interrupted, Accept, ClientStep, NoCommand, ClientGone,
        DropClient, AtTop, Command, ClientPipe, BoardStep, NoFrame, ReadFails,
        IgnoreEcho, WrongData, Answer, AnswerFails, BoardPipe, Judge,
        BoardInput, AfterBoard, Shutdown, Exit
  <2>2. QED
    BY <2>1 DEF Unstarted
<1>4. QED
  BY <1>1, <1>2, <1>3 DEF Next

LEMMA SilentStep ==
  ASSUME Inv, FoundInv, Unstarted, [Next]_vars, NEW i \in Boards, Silent(i)
  PROVE  /\ conn_ctr'[i] <= conn_ctr[i]
         /\ i \in conn_boards' => i \in conn_boards
         /\ Watch /\ watchAge >= WatchMax =>
               /\ conn_ctr'[i] = 0
               /\ i \in conn_boards' => conn_ctr[i] >= MIN_MSGS
<1>1. /\ conn_ctr \in [Boards -> 0 .. MIN_MSGS] /\ MIN_MSGS \in Nat
      /\ conn_ctr[i] \in Nat
  BY CarServerAssumption DEF Inv, TypeOK
<1>2. CASE Watch
  <2>1. CASE watchAge >= WatchMax
    <3>1. /\ conn_ctr' = [j \in Boards |-> 0]
          /\ conn_boards' = conn_boards \ Quiet
      BY <1>2, <2>1 DEF Watch, NextCtr
    <3>2. conn_ctr'[i] = 0
      BY <3>1
    <3>3. i \in conn_boards' => i \in conn_boards /\ ~(conn_ctr[i] < MIN_MSGS)
      BY <3>1 DEF Quiet
    <3>4. QED
      BY <1>1, <3>2, <3>3
  <2>2. CASE ~(watchAge >= WatchMax)
    <3>1. UNCHANGED << conn_ctr, conn_boards >>
      BY <1>2, <2>2 DEF Watch
    <3>2. QED
      BY <1>1, <2>2, <3>1
  <2>3. QED
    BY <2>1, <2>2
<1> DEFINE Same == conn_ctr'[i] = conn_ctr[i]
                     /\ (i \in conn_boards' => i \in conn_boards)
<1>3. CASE BoardStep
  <2>1. pc = "boards" => ~(idx = i /\ BoardInput)
    <3> SUFFICES ASSUME idx = i, BoardInput, pc = "boards" PROVE FALSE
      OBVIOUS
    <3>1. sd[i] \in rfd /\ i >= idx
      BY DEF BoardInput, BoardReadable, Mine, Boards
    <3>2. Ready(sd[i])
      BY <3>1 DEF FoundInv, Found
    <3>3. QED
      BY <3>2 DEF Ready, Silent
  <2>2. ASSUME NoFrame PROVE Same
    BY <2>2 DEF NoFrame, server
  <2>3. ASSUME BoardPipe PROVE Same
    BY <2>3 DEF BoardPipe
  <2>4. ASSUME BoardInput, ~NoFrame, ~BoardPipe PROVE Same
    <3>1. idx # i
      BY <2>1, <2>4 DEF BoardInput
    <3>2. Heard
      BY <1>3, <2>4
      DEF BoardStep, ReadFails, IgnoreEcho, WrongData, Answer, AnswerFails,
          Read
    <3>3. conn_ctr'[i] = conn_ctr[i]
      BY <1>1, <3>1, <3>2 DEF Heard
    <3>4. conn_boards' \subseteq conn_boards \cup {idx}
      BY <1>3, <2>4
      DEF BoardStep, ReadFails, IgnoreEcho, WrongData, Answer, AnswerFails,
          Judge
    <3>5. QED
      BY <3>1, <3>3, <3>4
  <2>5. BoardStep => NoFrame \/ BoardInput
    BY DEF BoardStep, ReadFails, IgnoreEcho, WrongData, Answer, AnswerFails,
           Judge, BoardPipe
  <2>6. Same
    BY <1>3, <2>2, <2>3, <2>4, <2>5
  <2>7. ~Watch
    BY <1>3, <2>5 DEF NoFrame, BoardInput, Watch
  <2>8. QED
    BY <1>1, <2>6, <2>7
<1>4. CASE Startup
  <2>1. CASE StartBoard
    <3>1. idx # i
      <4>1. i = idx => sd[i] = NoFd
        BY <2>1 DEF StartBoard, Unstarted, Boards
      <4>2. QED
        BY <4>1 DEF Silent, IsOpen
    <3>2. QED
      BY <1>1, <2>1, <3>1 DEF StartBoard, Watch
  <2>2. CASE StartFails \/ OpenListener
    BY <1>1, <2>2 DEF StartFails, OpenListener, Watch
  <2>3. QED
    BY <1>4, <2>1, <2>2 DEF Startup
<1>5. CASE \/ Reconnect \/ Select \/ Interrupted \/ Accept \/ ClientStep
           \/ Shutdown \/ Peers \/ Tick \/ Signal \/ UNCHANGED vars
  <2>1. UNCHANGED << conn_ctr, conn_boards >>
    BY <1>5
    DEF Reconnect, NotDue, NoSocket, ConnectFails, GreetingFails, Connects,
        Attempt, Select, Interrupted, Accept, ClientStep, NoCommand,
        ClientGone, DropClient, Command, ClientPipe, Shutdown, Peers,
        PeerSends, PeerCloses, ClientConnects, Tick, Signal, vars, server
  <2>2. QED
    BY <1>1, <1>2, <2>1
<1>6. QED
  BY <1>2, <1>3, <1>4, <1>5 DEF Next, Serve

(* A silent board loses its place with the second elapsed second of the    *)
(* watchdog at the latest, as long as no number is crossed (line 242).     *)
THEOREM SilentUnheardHolds == Spec /\ []~Crossed => SilentUnheard
<1>1. Init => FoundInv /\ Unstarted
  BY DEF Init, FoundInv, Synced, Found, Unstarted
<1>2. Inv /\ FoundInv /\ Unstarted /\ [Next]_vars =>
        [ \A i \in Boards : Silent(i) =>
            /\ conn_ctr'[i] <= conn_ctr[i]
            /\ i \in conn_boards' => i \in conn_boards
            /\ Watch /\ watchAge >= WatchMax =>
                  /\ conn_ctr'[i] = 0
                  /\ i \in conn_boards' => conn_ctr[i] >= MIN_MSGS ]_vars
  BY SilentStep
<1>3. Inv /\ Unstarted /\ [Next]_vars => Unstarted'
  BY UnstartedStep
<1>4. QED
  BY <1>1, <1>2, <1>3, FoundStep, Invariance, PTL DEF Spec, SilentUnheard
=============================================================================
