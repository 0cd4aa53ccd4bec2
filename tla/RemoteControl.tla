---------------------------- MODULE RemoteControl ----------------------------
(***************************************************************************)
(* From the joystick to the speeds of the car.  The stick is on a page in  *)
(* a browser (remoter/custom.js) or in the Android app (JoyStickClass, and *)
(* DoPost of MjpegActivity); either posts its position to the web client   *)
(* server (client.py), which turns it into two speeds and passes them on   *)
(* to the car server through a local socket in the file carserver_socket.  *)
(*                                                                         *)
(* The page looks at the stick at intervals, posts it when it has moved    *)
(* and repeats the post while it is held; its posts run beside each other. *)
(* The app posts after every touch, one post after the other, and reads    *)
(* the stick when the post's turn has come.  client.py serves one post at  *)
(* a time, and calls the car server a second time when the first fails.    *)
(*                                                                         *)
(* An offset of the stick is in half pixels.  One that is odd is written   *)
(* with a fraction, which client.py skips over.                            *)
(***************************************************************************)
EXTENDS Integers, Sequences

CONSTANTS
  Offset,        \* the offsets of the stick along an axis
  Stick,         \* where the stick can be
  Repeat,        \* samples until a held stick is posted again (30)
  MaxPosts,      \* bound on the posts under way, and on the app's waiting
  MaxFaults      \* bound on posts lost or overtaken and on server failures

Centre == << 0, 0 >>

ASSUME RemoteControlAssumption ==
  /\ Offset \subseteq Int /\ 0 \in Offset
  /\ Stick \subseteq Offset \X Offset /\ Centre \in Stick
  /\ Repeat \in Nat \ {0}
  /\ MaxPosts \in Nat \ {0}
  /\ MaxFaults \in Nat

Position == Offset \X Offset

VARIABLES
  device,        \* whose stick it is
  stick,         \* where it is; Centre when it is not touched
  \* the page
  prev,          \* dx_prev, dy_prev
  n,             \* samples since the last post
  \* the app
  tasks,         \* DoPosts that wait for their turn
  dx,            \* what a DoPost has read so far
  \* the network
  posts,         \* posts on their way to client.py, in the order they get
                 \* there
  \* client.py
  web,           \* where it is
  post,          \* the position in the post it serves
  sock,          \* its socket: not connected, connected, or closed there
  \* the car server
  srv,           \* how far its start got
  path,          \* carserver_socket: not there, of a server that is gone,
                 \* or of the one that runs
  inbox,         \* a command it has not read
  reply,         \* its answer waits for client.py
  v,             \* v_left and v_right
  \* bounds and history
  faults,        \* faults that may still happen
  mishap         \* a post was lost or overtaken

pageVars == << prev, n >>
appVars  == << tasks, dx >>
webVars  == << web, post, sock >>
srvVars  == << srv, inbox, reply, v >>
vars     == << device, stick, pageVars, appVars, posts, webVars, path,
               srvVars, faults, mishap >>

Nothing == << >>

(* What client.py makes of a position (lines 32-37): (dx - dy) and         *)
(* -(dx + dy), over 200 times the root of 2.  One more than 200 away from  *)
(* the centre counts as the one on the rim in its direction.               *)
Speeds(p) == << p[1] - p[2], -(p[1] + p[2]) >>
Stopped   == << 0, 0 >>

Whole(p) == p[1] % 2 = 0 /\ p[2] % 2 = 0

TypeOK ==
  /\ device \in {"page", "app"}
  /\ stick \in Stick /\ prev \in Stick
  /\ n \in 0 .. (Repeat - 1)
  /\ tasks \in 0 .. MaxPosts
  /\ dx \in {Nothing} \cup {<< x >> : x \in Offset}
  /\ posts \in Seq(Position) /\ Len(posts) <= MaxPosts
  /\ web \in {"start", "connect", "remove", "idle", "send", "recv", "look",
              "dial", "resend", "rerecv", "dead"}
  /\ post \in Position
  /\ sock \in {"new", "up", "dead"}
  /\ srv \in {"down", "unlinked", "bound", "up"}
  /\ path \in {"none", "stale", "live"}
  /\ inbox \in {Speeds(p) : p \in Position} \cup {Nothing}
  /\ reply \in BOOLEAN
  /\ v \in {Speeds(p) : p \in Position}
  /\ faults \in 0 .. MaxFaults
  /\ mishap \in BOOLEAN

(* start_carserver.sh starts client.py first, and a car server that did    *)
(* not end in order has left its socket.                                   *)
Init ==
  /\ device \in {"page", "app"}
  /\ stick = Centre /\ prev = Centre /\ n = 0
  /\ tasks = 0 /\ dx = Nothing
  /\ posts = << >>
  /\ web = "start" /\ post = Centre /\ sock = "new"
  /\ srv = "down" /\ path \in {"none", "stale"}
  /\ inbox = Nothing /\ reply = FALSE
  /\ v = Stopped
  /\ faults = MaxFaults /\ mishap = FALSE

-----------------------------------------------------------------------------
(* The stick.  The app posts after every touch; its offsets are whole.     *)

MoveOnPage ==
  /\ device = "page"
  /\ stick' \in Stick \ {stick}
  /\ UNCHANGED appVars

Touch ==
  /\ device = "app"
  /\ stick' \in {p \in Stick : Whole(p)}
  /\ tasks < MaxPosts /\ tasks' = tasks + 1
  /\ UNCHANGED dx

MoveStick ==
  /\ MoveOnPage \/ Touch
  /\ UNCHANGED << device, pageVars, posts, webVars, path, srvVars, faults,
                  mishap >>

-----------------------------------------------------------------------------
(* The page: custom.js, lines 13-39.  A post that fails is forgotten.      *)

Send(p) == Len(posts) < MaxPosts /\ posts' = Append(posts, p)

(* Mutant of Moved: the stick that is let go counts as not moved. *)
MovedAway == stick # prev /\ stick # Centre

Moved == stick # prev

(* Mutant of Again: a sample late. *)
AgainLate == n = Repeat

Again == n + 1 = Repeat

PostMoved ==
  /\ Moved
  /\ Send(stick)
  /\ prev' = stick /\ n' = 0

PostAgain ==
  /\ ~Moved /\ stick # Centre /\ Again
  /\ Send(stick)
  /\ n' = 0 /\ UNCHANGED prev

Wait ==
  /\ ~Moved /\ stick # Centre /\ ~Again
  /\ n' = n + 1
  /\ UNCHANGED << prev, posts >>

Sample ==
  /\ device = "page"
  /\ PostMoved \/ PostAgain \/ Wait
  /\ UNCHANGED << device, stick, appVars, webVars, path, srvVars, faults,
                  mishap >>

-----------------------------------------------------------------------------
(* The app: DoPost.doInBackground, on an executor that runs one task after *)
(* the other.  The touch may change the stick between getX and getY.       *)

Serving == web \notin {"start", "connect", "remove", "idle", "dead"}

GetX ==
  /\ tasks > 0 /\ dx = Nothing /\ posts = << >> /\ ~Serving
  /\ tasks' = tasks - 1
  /\ dx' = << stick[1] >>
  /\ UNCHANGED posts

GetY ==
  /\ dx # Nothing
  /\ Send(<< dx[1], stick[2] >>)
  /\ dx' = Nothing
  /\ UNCHANGED tasks

DoPost ==
  /\ device = "app"
  /\ GetX \/ GetY
  /\ UNCHANGED << device, stick, pageVars, webVars, path, srvVars, faults,
                  mishap >>

-----------------------------------------------------------------------------
(* client.py: its start, lines 70-78.  "dead": os.remove found no file.    *)

Looks ==
  /\ web = "start"
  /\ web' = IF path = "none" THEN "idle" ELSE "connect"
  /\ UNCHANGED << post, sock, posts, path, inbox, reply >>

Accepted == path = "live" /\ srv = "up"

Connect ==
  /\ web = "connect"
  /\ web' = IF Accepted THEN "idle" ELSE "remove"
  /\ sock' = IF Accepted THEN "up" ELSE sock
  /\ UNCHANGED << post, posts, path, inbox, reply >>

Remove ==
  /\ web = "remove"
  /\ web' = IF path = "none" THEN "dead" ELSE "idle"
  /\ path' = "none"
  /\ UNCHANGED << post, sock, posts, inbox, reply >>

(* do_POST.  An offset with a fraction is skipped over, and without it     *)
(* line 31 fails: the post gets no answer.                                 *)
Take ==
  /\ web = "idle" /\ posts # << >>
  /\ posts' = Tail(posts)
  /\ IF Whole(Head(posts)) THEN web' = "send" /\ post' = Head(posts)
                           ELSE UNCHANGED << web, post >>
  /\ UNCHANGED << sock, path, inbox, reply >>

(* The post is over: with the answer of the car server, with the default   *)
(* one of line 41, with that of line 54, or with none.                     *)
Done == web' = "idle" /\ post' = Centre

(* Mutant of SendTo: the answer is not waited for. *)
SendToOnly(try, then) ==
  /\ web = try /\ sock = "up"
  /\ Done /\ inbox' = Speeds(post)
  /\ UNCHANGED << sock, posts, path, reply >>

(* Lines 43 and 51. *)
SendTo(try, then) ==
  /\ web = try /\ sock = "up"
  /\ web' = then /\ inbox' = Speeds(post)
  /\ UNCHANGED << post, sock, posts, path, reply >>

(* Lines 44 and 52. *)
RecvAnswer ==
  /\ web \in {"recv", "rerecv"} /\ reply
  /\ Done /\ reply' = FALSE
  /\ UNCHANGED << sock, posts, path, inbox >>

(* The server ended between a command and its answer: recv has nothing to  *)
(* return and does not fail.                                               *)
RecvNothing ==
  /\ web \in {"recv", "rerecv"} /\ ~reply /\ sock = "dead"
  /\ Done
  /\ UNCHANGED << sock, posts, path, inbox, reply >>

(* A socket.error the first time, line 45: the socket is not connected, or *)
(* was closed with the command unread.                                     *)
FirstFails ==
  /\ \/ web = "send" /\ sock # "up"
     \/ web = "recv" /\ ~reply /\ sock = "dead"
  /\ web' = "look"
  /\ UNCHANGED << post, sock, posts, path, inbox, reply >>

Look ==
  /\ web = "look"
  /\ IF path = "none" THEN Done ELSE web' = "dial" /\ UNCHANGED post
  /\ UNCHANGED << sock, posts, path, inbox, reply >>

(* Mutant of DialedSocket: the socket that failed is used again. *)
DialedSocketKept == sock

DialedSocket == IF Accepted THEN "up" ELSE "new"

(* Lines 47-49: the error of this connect ends the post. *)
Dial ==
  /\ web = "dial"
  /\ sock' = DialedSocket
  /\ IF Accepted THEN web' = "resend" /\ UNCHANGED post ELSE Done
  /\ UNCHANGED << posts, path, inbox, reply >>

(* And the second time, line 53; in the recv this ends as RecvNothing.     *)
SecondFails ==
  /\ web = "resend" /\ sock # "up"
  /\ Done
  /\ UNCHANGED << sock, posts, path, inbox, reply >>

Web ==
  /\ \/ Looks \/ Connect \/ Remove \/ Take
     \/ SendTo("send", "recv") \/ RecvAnswer \/ RecvNothing \/ FirstFails
     \/ Look \/ Dial \/ SendTo("resend", "rerecv") \/ SecondFails
  /\ UNCHANGED << device, stick, pageVars, appVars, srv, v, faults, mishap >>

-----------------------------------------------------------------------------
(* The car server, as far as client.py sees it. *)

(* open_dom, carserver.c, lines 86-99. *)
Unlink == srv = "down"     /\ srv' = "unlinked" /\ path' = "none"
Bind   == srv = "unlinked" /\ srv' = "bound"    /\ path' = "live"
Listen == srv = "bound"    /\ srv' = "up"       /\ UNCHANGED path

Starts ==
  /\ Unlink \/ Bind \/ Listen
  /\ UNCHANGED << device, stick, pageVars, appVars, posts, webVars, inbox,
                  reply, v, faults, mishap >>

(* carserver.c, lines 315-341, with parse_command: the speeds are within   *)
(* the bounds it accepts.  They stay until the next command.               *)
Command ==
  /\ inbox # Nothing
  /\ v' = inbox /\ inbox' = Nothing /\ reply' = TRUE
  /\ UNCHANGED << device, stick, pageVars, appVars, posts, webVars, srv,
                  path, faults, mishap >>

(* It is stopped and removes the file (line 427), or killed and leaves it. *)
(* An answer already sent can still be read.  Without a server the boards  *)
(* time out, and the next one starts with the speeds 0.                    *)
ServerEnds ==
  /\ srv # "down" /\ srv' = "down"
  /\ \/ srv = "up" /\ path' = "none"
     \/ path' = IF path = "live" THEN "stale" ELSE path
  /\ sock' = IF sock = "up" THEN "dead" ELSE sock
  /\ inbox' = Nothing /\ v' = Stopped
  /\ UNCHANGED << posts, web, post, reply, mishap >>

(* A connection to client.py fails, or one is set up before another.       *)
Lose ==
  /\ posts # << >> /\ posts' = Tail(posts)
  /\ mishap' = TRUE
  /\ UNCHANGED << webVars, path, srvVars >>

Overtake ==
  /\ Len(posts) > 1
  /\ posts' = << posts[2], posts[1] >> \o SubSeq(posts, 3, Len(posts))
  /\ mishap' = TRUE
  /\ UNCHANGED << webVars, path, srvVars >>

Fault ==
  /\ faults > 0 /\ faults' = faults - 1
  /\ ServerEnds \/ Lose \/ Overtake
  /\ UNCHANGED << device, stick, pageVars, appVars >>

-----------------------------------------------------------------------------

Next == MoveStick \/ Sample \/ DoPost \/ Web \/ Starts \/ Command \/ Fault

Spec == Init /\ [][Next]_vars

(* The page's timer, the app's executor, client.py and a car server that   *)
(* runs go on.  Nobody has to move the stick or to start a car server.     *)
FairSpec ==
  /\ Spec
  /\ WF_vars(Sample) /\ WF_vars(DoPost) /\ WF_vars(Web) /\ WF_vars(Command)

-----------------------------------------------------------------------------
(* At its start client.py removes a file it could not connect to, and by   *)
(* then it may be that of a car server that has just started (lines 71-75  *)
(* beside open_dom), or not be there at all.  Nothing below holds then.    *)
CutOff ==
  \/ web = "dead"
  \/ srv \in {"bound", "up"} /\ path # "live"

(* On the page a stick that is held is posted again and again (custom.js,  *)
(* lines 22-30).  This gets over everything that can go wrong before: lost *)
(* posts, posts that arrive in another order, a car server that ended and  *)
(* started again, whose connection client.py has to notice and replace.    *)
HeldFollowed ==
  device = "page" /\ []~CutOff =>
    \A p \in Stick \ {Centre} :
      Whole(p) /\ <>[](stick = p /\ srv = "up") => <>[](v = Speeds(p))

(* The post of the stick that is let go is the only one of its kind, and   *)
(* the app never posts anything twice.  As long as no post is lost or      *)
(* overtaken (and only then), the car does not keep another speed than     *)
(* that of the stick or 0, whenever the car server ends and starts again,  *)
(* whatever half-read positions the app has posted in between.             *)
FollowsOrStops ==
  [](~CutOff /\ ~mishap) =>
    \A p \in Stick :
      Whole(p) /\ <>[](stick = p) => <>[](v \in {Speeds(p), Stopped})

(* The post client.py serves has had no effect so far: until the car       *)
(* server has read the command.                                            *)
Underway == Serving /\ ~reply

Abstract == INSTANCE Posts WITH
              queue <- posts, current <- IF Underway THEN post ELSE Nothing

(* Whatever ends and starts again in between, and whichever of its two     *)
(* attempts gets through, client.py has a post followed at most once and   *)
(* in its turn, and gives it up only with a car that stands (client.py,    *)
(* lines 41-54, with carserver.c, lines 315-341): no speeds come back      *)
(* after later ones, and none is kept because a later one was dropped.     *)
ImplementsPosts == Abstract!PostsSpec

(* Nothing that was posted or touched is still to have an effect.          *)
Settled ==
  /\ posts = << >> /\ ~Underway
  /\ device = "page" => stick = prev
  /\ device = "app" => tasks = 0 /\ dx = Nothing

(* When all is quiet the car has the speeds of the stick as it is now, or  *)
(* it stands: no older position stays in force (custom.js, lines 13-39;    *)
(* MjpegActivity, DoPost), unless a post was lost or overtaken, or the     *)
(* stick is where client.py cannot read it.                                *)
RestsRight ==
  ~mishap /\ Settled /\ Whole(stick) => v \in {Speeds(stick), Stopped}
=============================================================================
