------------------------- MODULE RemoteControlProofs -------------------------
(***************************************************************************)
(* Safety of RemoteControl, for every set of positions, rate of repetition *)
(* and number of posts.                                                    *)
(***************************************************************************)
EXTENDS RemoteControl, SequenceTheorems, TLAPS

(* client.py serves one post after the other: a command that waits, or an  *)
(* answer, is that of the post it serves.                                  *)
OneAtATime ==
  /\ inbox # Nothing \/ reply => web \in {"recv", "rerecv"}
  /\ ~(inbox # Nothing /\ reply)
  /\ inbox # Nothing => sock = "up"

LEMMA Positions ==
  /\ Stick \subseteq Position /\ Centre \in Stick /\ Centre \in Position
  /\ \A p \in Position : p = << p[1], p[2] >> /\ p[1] \in Offset /\ p[2] \in Offset
  /\ Stopped = Speeds(Centre)
  /\ Repeat \in Nat \ {0} /\ MaxPosts \in Nat \ {0} /\ MaxFaults \in Nat
<1>1. Stick \subseteq Position /\ Centre \in Stick /\ Centre \in Position
  BY RemoteControlAssumption DEF Position
<1>2. \A p \in Position : p = << p[1], p[2] >> /\ p[1] \in Offset /\ p[2] \in Offset
  BY DEF Position
<1>3. Stopped = Speeds(Centre)
  <2>1. Speeds(<< 0, 0 >>) = << 0 - 0, -(0 + 0) >>
    BY DEF Speeds
  <2>2. 0 - 0 = 0 /\ 0 + 0 = 0
    OBVIOUS
  <2>3. -0 = 0
    <3>1. 0 \in Int /\ \A x \in Int : x <= 0 /\ x >= 0 => -x = x
      OBVIOUS
    <3>2. 0 <= 0 /\ 0 >= 0
      OBVIOUS
    <3>3. QED
      BY <3>1, <3>2, Zenon
  <2>4. QED
    BY <2>1, <2>2, <2>3 DEF Stopped, Centre
<1>4. QED
  BY <1>1, <1>2, <1>3, RemoteControlAssumption

(* A command is never Nothing. *)
LEMMA NotNothing == \A p : Speeds(p) # Nothing
<1>1. \A x, y : << x, y >> # << >>
  OBVIOUS
<1>2. QED
  BY <1>1, Zenon DEF Speeds, Nothing

LEMMA PostTypes ==
  ASSUME TypeOK
  PROVE  /\ Len(posts) \in Nat /\ posts \in Seq(Position)
         /\ posts # << >> =>
              /\ Tail(posts) \in Seq(Position) /\ Head(posts) \in Position
              /\ Len(Tail(posts)) = Len(posts) - 1
  BY LenProperties, HeadTailProperties DEF TypeOK

LEMMA SendTypes ==
  ASSUME TypeOK, NEW p \in Position, Send(p)
  PROVE  posts' \in Seq(Position) /\ Len(posts') <= MaxPosts
  BY PostTypes, AppendProperties, Positions DEF Send

-----------------------------------------------------------------------------
(* The user's end. *)

LEMMA UserNext ==
  ASSUME TypeOK, OneAtATime, MoveStick \/ Sample \/ DoPost
  PROVE  TypeOK' /\ OneAtATime'
<1>1. UNCHANGED << device, web, post, sock, path, srv, inbox, reply, v,
                   faults, mishap >>
  BY DEF MoveStick, Sample, DoPost, webVars, srvVars
<1> DEFINE Types == /\ stick' \in Stick /\ prev' \in Stick
                    /\ n' \in 0 .. (Repeat - 1)
                    /\ tasks' \in 0 .. MaxPosts
                    /\ dx' \in {Nothing} \cup {<< x >> : x \in Offset}
                    /\ posts' \in Seq(Position) /\ Len(posts') <= MaxPosts
<1>2. /\ stick \in Stick /\ stick \in Position /\ prev \in Stick
      /\ n \in 0 .. (Repeat - 1) /\ tasks \in 0 .. MaxPosts
      /\ dx \in {Nothing} \cup {<< x >> : x \in Offset}
      /\ posts \in Seq(Position) /\ Len(posts) <= MaxPosts
  BY Positions DEF TypeOK
<1>3. ASSUME MoveStick PROVE Types
  <2>1. UNCHANGED << prev, n, posts, dx >>
    BY <1>3 DEF MoveStick, MoveOnPage, Touch, pageVars, appVars
  <2>2. stick' \in Stick
    BY <1>3 DEF MoveStick, MoveOnPage, Touch
  <2>3. tasks' \in 0 .. MaxPosts
    BY <1>2, <1>3, Positions DEF MoveStick, MoveOnPage, Touch, appVars
  <2>4. QED
    BY <1>2, <2>1, <2>2, <2>3
<1>4. ASSUME Sample PROVE Types
  <2>1. UNCHANGED << stick, tasks, dx >>
    BY <1>4 DEF Sample, appVars
  <2>2. CASE PostMoved
    <3>1. prev' = stick /\ n' = 0 /\ Send(stick)
      BY <2>2 DEF PostMoved
    <3>2. QED
      BY <1>2, <2>1, <3>1, SendTypes, Positions
  <2>3. CASE PostAgain
    <3>1. prev' = prev /\ n' = 0 /\ Send(stick)
      BY <2>3 DEF PostAgain
    <3>2. QED
      BY <1>2, <2>1, <3>1, SendTypes, Positions
  <2>4. CASE Wait
    <3>1. prev' = prev /\ posts' = posts /\ n' = n + 1 /\ n + 1 # Repeat
      BY <2>4 DEF Wait, Again
    <3>2. QED
      BY <1>2, <2>1, <3>1, Positions
  <2>5. QED
    BY <1>4, <2>2, <2>3, <2>4 DEF Sample
<1>5. ASSUME DoPost PROVE Types
  <2>1. UNCHANGED << stick, prev, n >>
    BY <1>5 DEF DoPost, pageVars
  <2>2. CASE GetX
    <3>1. /\ tasks > 0 /\ tasks' = tasks - 1 /\ posts' = posts
          /\ dx' = << stick[1] >>
      BY <2>2 DEF GetX
    <3>2. stick[1] \in Offset
      BY <1>2, Positions
    <3>3. QED
      BY <1>2, <2>1, <3>1, <3>2, Positions
  <2>3. CASE GetY
    <3>1. /\ dx # Nothing /\ dx' = Nothing /\ tasks' = tasks
          /\ Send(<< dx[1], stick[2] >>)
      BY <2>3 DEF GetY
    <3>2. << dx[1], stick[2] >> \in Position
      <4>1. dx[1] \in Offset /\ stick[2] \in Offset
        BY <1>2, <3>1, Positions
      <4>2. QED
        BY <4>1 DEF Position
    <3>3. QED
      BY <1>2, <2>1, <3>1, <3>2, SendTypes
  <2>4. QED
    BY <1>5, <2>2, <2>3 DEF DoPost
<1>6. Types
  BY <1>3, <1>4, <1>5
<1>7. QED
  BY <1>1, <1>6 DEF TypeOK, OneAtATime

-----------------------------------------------------------------------------
(* client.py. *)

WebPlaces == {"start", "connect", "remove", "idle", "send", "recv", "look",
              "dial", "resend", "rerecv", "dead"}

LEMMA WebNext ==
  ASSUME TypeOK, OneAtATime, Web
  PROVE  TypeOK' /\ OneAtATime'
<1>1. UNCHANGED << device, stick, prev, n, tasks, dx, srv, v, faults, mishap >>
  BY DEF Web, pageVars, appVars
<1> DEFINE Types == /\ posts' \in Seq(Position) /\ Len(posts') <= MaxPosts
                    /\ web' \in WebPlaces
                    /\ post' \in Position
                    /\ sock' \in {"new", "up", "dead"}
                    /\ path' \in {"none", "stale", "live"}
                    /\ inbox' \in {Speeds(p) : p \in Position} \cup {Nothing}
                    /\ reply' \in BOOLEAN
<1>2. /\ posts \in Seq(Position) /\ Len(posts) <= MaxPosts
      /\ web \in WebPlaces /\ post \in Position
      /\ sock \in {"new", "up", "dead"}
      /\ path \in {"none", "stale", "live"}
      /\ inbox \in {Speeds(p) : p \in Position} \cup {Nothing}
      /\ reply \in BOOLEAN
  BY DEF TypeOK, WebPlaces
<1>3. Centre \in Position
  BY Positions
<1>4. CASE Looks \/ Connect \/ Remove
  <2>1. /\ UNCHANGED << post, posts, inbox, reply >>
        /\ web \in {"start", "connect", "remove"}
        /\ web' \in WebPlaces /\ sock' \in {"up", sock}
        /\ path' \in {"none", path}
    BY <1>4 DEF Looks, Connect, Remove, WebPlaces
  <2>2. Types
    BY <1>2, <2>1
  <2>3. ~(inbox # Nothing) /\ ~reply
    BY <2>1 DEF OneAtATime
  <2>4. QED
    BY <1>1, <2>1, <2>2, <2>3 DEF TypeOK, WebPlaces, OneAtATime
<1>5. CASE Take
  <2>1. /\ UNCHANGED << sock, path, inbox, reply >>
        /\ web = "idle" /\ posts # << >> /\ posts' = Tail(posts)
        /\ web' \in {"idle", "send"} /\ post' \in {post, Head(posts)}
    BY <1>5 DEF Take
  <2>2. Types
    BY <1>2, <2>1, PostTypes, Positions DEF WebPlaces
  <2>3. ~(inbox # Nothing) /\ ~reply
    BY <2>1 DEF OneAtATime
  <2>4. QED
    BY <1>1, <2>1, <2>2, <2>3 DEF TypeOK, WebPlaces, OneAtATime
<1>6. ASSUME NEW try \in {"send", "resend"}, NEW then \in {"recv", "rerecv"},
             SendTo(try, then)
      PROVE  TypeOK' /\ OneAtATime'
  <2>1. /\ UNCHANGED << post, sock, posts, path, reply >>
        /\ web = try /\ web' = then /\ inbox' = Speeds(post)
        /\ sock = "up"
    BY <1>6 DEF SendTo
  <2>2. Types
    BY <1>2, <2>1 DEF WebPlaces
  <2>3. ~reply
    BY <2>1 DEF OneAtATime
  <2>4. QED
    BY <1>1, <2>1, <2>2, <2>3 DEF TypeOK, WebPlaces, OneAtATime
<1>7. CASE RecvAnswer
  <2>1. /\ UNCHANGED << sock, posts, path, inbox >>
        /\ reply /\ web' = "idle" /\ post' = Centre
    BY <1>7 DEF RecvAnswer, Done
  <2>2. reply' = FALSE
    BY <1>7 DEF RecvAnswer
  <2>3. Types
    BY <1>2, <1>3, <2>1, <2>2 DEF WebPlaces
  <2>4. ~(inbox # Nothing)
    BY <2>1 DEF OneAtATime
  <2>5. OneAtATime'
    BY <2>1, <2>2, <2>4 DEF OneAtATime
  <2>6. QED
    BY <1>1, <2>3, <2>5 DEF TypeOK, WebPlaces
<1>8. CASE RecvNothing \/ FirstFails \/ SecondFails \/ Look \/ Dial
  <2>1. /\ UNCHANGED << posts, path, inbox, reply >>
        /\ web' \in WebPlaces /\ post' \in {post, Centre}
        /\ sock' \in {sock, "up", "new"}
    BY <1>8
    DEF RecvNothing, FirstFails, SecondFails, Look, Dial, DialedSocket, Done,
        WebPlaces
  <2>2. Types
    BY <1>2, <1>3, <2>1
  <2>3. ~(inbox # Nothing) /\ ~reply
    BY <1>8
    DEF RecvNothing, FirstFails, SecondFails, Look, Dial, OneAtATime
  <2>4. QED
    BY <1>1, <2>1, <2>2, <2>3 DEF TypeOK, WebPlaces, OneAtATime
<1>9. QED
  BY <1>4, <1>5, <1>6, <1>7, <1>8 DEF Web

-----------------------------------------------------------------------------
(* The car server, and faults. *)

LEMMA ServerStepNext ==
  ASSUME TypeOK, OneAtATime, Starts \/ Command
  PROVE  TypeOK' /\ OneAtATime'
<1>1. UNCHANGED << device, stick, prev, n, tasks, dx, posts, web, post, sock,
                   faults, mishap >>
  BY DEF Starts, Command, pageVars, appVars, webVars
<1>2. CASE Starts
  <2>1. /\ srv' \in {"unlinked", "bound", "up"}
        /\ path' \in {"none", "live", path}
        /\ UNCHANGED << inbox, reply, v >>
    BY <1>2 DEF Starts, Unlink, Bind, Listen
  <2>2. QED
    BY <1>1, <2>1 DEF TypeOK, OneAtATime
<1>3. CASE Command
  <2>1. /\ inbox # Nothing /\ inbox' = Nothing /\ v' = inbox
        /\ UNCHANGED << srv, path >>
    BY <1>3 DEF Command
  <2>2. reply' = TRUE
    BY <1>3 DEF Command
  <2>3. v' \in {Speeds(p) : p \in Position}
    BY <2>1 DEF TypeOK
  <2>4. web \in {"recv", "rerecv"}
    BY <2>1 DEF OneAtATime
  <2>5. QED
    BY <1>1, <2>1, <2>2, <2>3, <2>4 DEF TypeOK, OneAtATime
<1>4. QED
  BY <1>2, <1>3

LEMMA FaultNext ==
  ASSUME TypeOK, OneAtATime, Fault
  PROVE  TypeOK' /\ OneAtATime'
<1>1. /\ UNCHANGED << device, stick, prev, n, tasks, dx >>
      /\ faults > 0 /\ faults' = faults - 1
  BY DEF Fault, pageVars, appVars
<1>2. faults' \in 0 .. MaxFaults
  BY <1>1, Positions DEF TypeOK
<1>3. CASE ServerEnds
  <2>1. /\ srv' = "down" /\ path' \in {"none", "stale", path}
        /\ sock' \in {"dead", sock} /\ inbox' = Nothing /\ v' = Stopped
        /\ UNCHANGED << posts, web, post, reply, mishap >>
    BY <1>3 DEF ServerEnds
  <2>2. v' \in {Speeds(p) : p \in Position}
    BY <2>1, Positions
  <2>3. QED
    BY <1>1, <1>2, <2>1, <2>2 DEF TypeOK, OneAtATime
<1>4. CASE Lose \/ Overtake
  <2>1. /\ UNCHANGED << web, post, sock, path, srv, inbox, reply, v >>
        /\ mishap' = TRUE
    BY <1>4 DEF Lose, Overtake, webVars, srvVars
  <2>2. posts' \in Seq(Position) /\ Len(posts') <= MaxPosts
    <3>1. CASE Lose
      BY <3>1, PostTypes, Positions DEF Lose, TypeOK
    <3>2. CASE Overtake
      <4> DEFINE a == << posts[2], posts[1] >>
                 b == SubSeq(posts, 3, Len(posts))
      <4>1. /\ Len(posts) \in Nat /\ Len(posts) > 1 /\ posts' = a \o b
            /\ Len(posts) <= MaxPosts
        BY <3>2, PostTypes DEF Overtake, TypeOK
      <4>2. a \in Seq(Position) /\ Len(a) = 2
        <5>1. posts[1] \in Position /\ posts[2] \in Position
          BY <4>1, PostTypes, ElementOfSeq
        <5>2. QED
          BY <5>1
      <4>3. b \in Seq(Position) /\ Len(b) = Len(posts) - 2
        <5>1. CASE Len(posts) = 2
          <6>1. b = << >>
            BY <5>1, PostTypes, SubSeqProperties
          <6>2. QED
            BY <5>1, <6>1, EmptySeq
        <5>2. CASE Len(posts) > 2
          BY <4>1, <5>2, PostTypes, SubSeqProperties
        <5>3. QED
          BY <4>1, <5>1, <5>2
      <4> HIDE DEF a, b
      <4>4. a \o b \in Seq(Position) /\ Len(a \o b) = Len(a) + Len(b)
        BY <4>2, <4>3, ConcatProperties
      <4>5. QED
        BY <4>1, <4>2, <4>3, <4>4
    <3>3. QED
      BY <1>4, <3>1, <3>2
  <2>3. QED
    BY <1>1, <1>2, <2>1, <2>2 DEF TypeOK, OneAtATime
<1>5. QED
  BY <1>3, <1>4 DEF Fault

-----------------------------------------------------------------------------

LEMMA ControlInit == Init => TypeOK /\ OneAtATime
<1> SUFFICES ASSUME Init PROVE TypeOK /\ OneAtATime
  OBVIOUS
<1>1. posts \in Seq(Position) /\ Len(posts) <= MaxPosts
  BY EmptySeq, Positions DEF Init
<1>2. v \in {Speeds(p) : p \in Position}
  BY Positions DEF Init
<1>3. /\ n \in 0 .. (Repeat - 1) /\ tasks \in 0 .. MaxPosts
      /\ faults \in 0 .. MaxFaults
  BY Positions DEF Init
<1>4. QED
  BY <1>1, <1>2, <1>3, Positions DEF Init, TypeOK, OneAtATime

LEMMA ControlNext == TypeOK /\ OneAtATime /\ [Next]_vars => TypeOK' /\ OneAtATime'
<1> SUFFICES ASSUME TypeOK, OneAtATime, [Next]_vars
             PROVE  TypeOK' /\ OneAtATime'
  OBVIOUS
<1>1. CASE UNCHANGED vars
  BY <1>1 DEF vars, pageVars, appVars, webVars, srvVars, TypeOK, OneAtATime
<1>2. QED
  BY <1>1, UserNext, WebNext, ServerStepNext, FaultNext DEF Next

(* Type correctness from the stick to the speeds, for any positions,       *)
(* number of posts and rate of repetition.                                 *)
THEOREM TypeCorrect == Spec => []TypeOK
BY ControlInit, ControlNext, PTL DEF Spec

(* client.py never takes the answer to one post for that to another, and   *)
(* no command waits twice (client.py, lines 43-54): its second attempt     *)
(* comes only when the first one can no longer be answered.                *)
THEOREM OneAtATimeHolds == Spec => []OneAtATime
BY ControlInit, ControlNext, PTL DEF Spec

-----------------------------------------------------------------------------
(* What is posted last is the stick as it was seen last, and what arrives  *)
(* at the car is what was posted.                                          *)

(* The stick as it was seen last. *)
Aim == IF device = "page" THEN prev ELSE stick

(* A socket that is not up has no command in it and a car that stands at   *)
(* its end; the second attempt starts from such a socket.                  *)
Disconnected ==
  /\ sock # "up" => v = Stopped
  /\ web \in {"look", "dial"} => sock # "up"

(* Only what can be read is served, and the command is that of the post.   *)
PostsCommand ==
  /\ Serving => Whole(post)
  /\ inbox # Nothing => inbox = Speeds(post)

(* The app's offsets are whole, and the last task reads the stick as it    *)
(* is.                                                                     *)
LastTask ==
  device = "app" =>
    /\ Whole(stick)
    /\ tasks = 0 /\ dx # Nothing => dx = << stick[1] >>

(* Unless the app is still to read the stick, the last post of all that    *)
(* had no effect so far is the stick's; if there is none, the car has its  *)
(* speeds or stands.                                                       *)
LastPost ==
  ~mishap /\ (device = "app" => tasks = 0 /\ dx = Nothing) =>
    /\ posts # << >> => posts[Len(posts)] = Aim
    /\ posts = << >> /\ Underway => post = Aim
    /\ posts = << >> /\ ~Underway /\ Whole(Aim) => v \in {Speeds(Aim), Stopped}

RestInv ==
  TypeOK /\ OneAtATime /\ Disconnected /\ PostsCommand /\ LastTask /\ LastPost

LEMMA CentreWhole == Whole(Centre)
<1>1. 0 % 2 = 0
  OBVIOUS
<1>2. QED
  BY <1>1 DEF Whole, Centre

LEMMA RestInit == Init => RestInv
<1> SUFFICES ASSUME Init PROVE RestInv
  OBVIOUS
<1>1. TypeOK /\ OneAtATime
  BY ControlInit
<1>2. stick = Centre /\ prev = Centre /\ Aim = Centre
  BY DEF Init, Aim
<1>3. QED
  BY <1>1, <1>2, CentreWhole
  DEF Init, RestInv, Disconnected, PostsCommand, LastTask, LastPost, Serving

(* The last of the posts after one was added. *)
LEMMA SendLast ==
  ASSUME TypeOK, NEW p \in Position, Send(p)
  PROVE  posts' # << >> /\ posts'[Len(posts')] = p
<1>1. /\ posts' = Append(posts, p) /\ Len(posts') = Len(posts) + 1
      /\ posts \in Seq(Position) /\ Len(posts) \in Nat
  BY PostTypes, AppendProperties DEF Send
<1>2. Append(posts, p)[Len(posts) + 1] = p
  BY <1>1, AppendProperties
<1>3. posts' # << >>
  BY <1>1, EmptySeq
<1>4. QED
  BY <1>1, <1>2, <1>3

LEMMA UserRest ==
  ASSUME RestInv, MoveStick \/ Sample \/ DoPost
  PROVE  RestInv'
<1>1. /\ UNCHANGED << device, web, post, sock, path, srv, inbox, reply, v,
                      faults, mishap >>
      /\ TypeOK /\ stick \in Position /\ prev \in Position
  BY Positions DEF MoveStick, Sample, DoPost, webVars, srvVars, RestInv, TypeOK
<1>2. TypeOK' /\ OneAtATime'
  BY UserNext DEF RestInv
<1>3. Disconnected' /\ PostsCommand' /\ (Underway' <=> Underway)
  BY <1>1
  DEF RestInv, Disconnected, PostsCommand, Serving, Underway
<1>4. CASE MoveStick
  <2>1. UNCHANGED << prev, posts, dx >>
    BY <1>4 DEF MoveStick, MoveOnPage, Touch, pageVars, appVars
  <2>2. CASE MoveOnPage
    BY <1>1, <1>2, <1>3, <2>1, <2>2
    DEF RestInv, LastTask, LastPost, Aim, MoveOnPage
  <2>3. CASE Touch
    <3>1. device = "app" /\ tasks' # 0 /\ Whole(stick')
      BY <1>1, <2>3 DEF Touch, TypeOK
    <3>2. QED
      BY <1>1, <1>2, <1>3, <3>1 DEF RestInv, LastTask, LastPost, Whole
  <2>4. QED
    BY <1>4, <2>2, <2>3 DEF MoveStick
<1>5. CASE Sample
  <2>1. device = "page" /\ UNCHANGED << stick, tasks, dx >>
    BY <1>5 DEF Sample, appVars
  <2>2. CASE PostMoved \/ PostAgain
    <3>1. prev' = stick /\ Send(stick)
      BY <2>2 DEF PostMoved, PostAgain, Moved
    <3>2. posts' # << >> /\ posts'[Len(posts')] = stick
      BY <1>1, <3>1, SendLast
    <3>3. QED
      BY <1>1, <1>2, <1>3, <2>1, <3>1, <3>2
      DEF RestInv, LastTask, LastPost, Aim
  <2>3. CASE Wait
    BY <1>1, <1>2, <1>3, <2>1, <2>3
    DEF RestInv, LastTask, LastPost, Aim, Wait
  <2>4. QED
    BY <1>5, <2>2, <2>3 DEF Sample
<1>6. CASE DoPost
  <2>1. device = "app" /\ UNCHANGED << stick, prev >>
    BY <1>6 DEF DoPost, pageVars
  <2>2. CASE GetX
    <3>1. dx' = << stick[1] >> /\ dx' # Nothing
      BY <2>2 DEF GetX, Nothing
    <3>2. QED
      BY <1>1, <1>2, <1>3, <2>1, <3>1 DEF RestInv, LastTask, LastPost
  <2>3. CASE GetY
    <3>1. /\ dx # Nothing /\ dx' = Nothing /\ tasks' = tasks
          /\ Send(<< dx[1], stick[2] >>)
      BY <2>3 DEF GetY
    <3>2. << dx[1], stick[2] >> \in Position
      <4>1. dx[1] \in Offset /\ stick[2] \in Offset
        BY <1>1, <3>1, Positions DEF TypeOK
      <4>2. QED
        BY <4>1 DEF Position
    <3>3. posts' # << >> /\ posts'[Len(posts')] = << dx[1], stick[2] >>
      BY <1>1, <3>1, <3>2, SendLast
    <3>4. tasks = 0 => << dx[1], stick[2] >> = stick
      <4>1. tasks = 0 => dx[1] = stick[1]
        BY <2>1, <3>1 DEF RestInv, LastTask
      <4>2. QED
        BY <1>1, <4>1, Positions
    <3>5. QED
      BY <1>1, <1>2, <1>3, <2>1, <3>1, <3>3, <3>4
      DEF RestInv, LastTask, LastPost, Aim
  <2>4. QED
    BY <1>6, <2>2, <2>3 DEF DoPost
<1>7. QED
  BY <1>4, <1>5, <1>6

(* A step of client.py that takes no post and no answer leaves the posts   *)
(* alone, and gives up the one it serves only with a car that stands.      *)
Passes ==
  /\ UNCHANGED << posts, inbox, reply >>
  /\ ~reply
  /\ \/ Serving' /\ Serving /\ post' = post
     \/ ~Serving' /\ ~Serving
     \/ ~Serving' /\ Serving /\ v = Stopped

LEMMA PassesStep ==
  ASSUME RestInv,
         \/ Looks \/ Connect \/ Remove \/ RecvNothing \/ FirstFails
         \/ Look \/ Dial \/ SecondFails
  PROVE  inbox = Nothing /\ Passes
<1>1. OneAtATime /\ Disconnected
  BY DEF RestInv
<1>2. CASE Looks \/ Connect \/ Remove
  BY <1>1, <1>2 DEF Looks, Connect, Remove, Passes, OneAtATime, Serving
<1>3. CASE RecvNothing \/ FirstFails \/ SecondFails
  BY <1>1, <1>3
  DEF RecvNothing, FirstFails, SecondFails, Done, Passes, OneAtATime,
      Serving, Disconnected
<1>4. CASE Look \/ Dial
  BY <1>1, <1>4
  DEF Look, Dial, Done, Passes, OneAtATime, Serving, Disconnected
<1>5. QED
  BY <1>2, <1>3, <1>4

LEMMA WebRest ==
  ASSUME RestInv, Web
  PROVE  RestInv'
<1>1. UNCHANGED << device, stick, prev, n, tasks, dx, srv, v, faults, mishap >>
  BY DEF Web, pageVars, appVars
<1>2. TypeOK /\ OneAtATime /\ TypeOK' /\ OneAtATime' /\ (Aim' = Aim)
  BY <1>1, WebNext DEF RestInv, Aim
<1>3. LastTask'
  BY <1>1 DEF RestInv, LastTask
<1>4. CASE Take
  <2>1. /\ UNCHANGED << sock, path, inbox, reply >>
        /\ web = "idle" /\ posts # << >> /\ posts' = Tail(posts)
        /\ inbox = Nothing /\ ~reply /\ ~Underway
    BY <1>2, <1>4 DEF Take, OneAtATime, Underway, Serving
  <2>2. \/ Whole(Head(posts)) /\ web' = "send" /\ post' = Head(posts)
        \/ ~Whole(Head(posts)) /\ web' = "idle" /\ post' = post
    BY <1>4, <2>1 DEF Take
  <2>3. Disconnected' /\ PostsCommand'
    BY <1>1, <2>1, <2>2 DEF RestInv, Disconnected, PostsCommand, Serving
  <2>4. /\ posts' # << >> => posts'[Len(posts')] = posts[Len(posts)]
        /\ posts' = << >> => Head(posts) = posts[Len(posts)]
    <3>1. /\ posts \in Seq(Position) /\ Len(posts) \in Nat \ {0}
          /\ Len(posts') = Len(posts) - 1 /\ Head(posts) = posts[1]
          /\ \A i \in 1 .. Len(posts) - 1 : posts'[i] = posts[i + 1]
      BY <1>2, <2>1, PostTypes, HeadTailProperties, EmptySeq
    <3>2. posts' \in Seq(Position)
      BY <1>2 DEF TypeOK
    <3>3. CASE Len(posts) = 1
      <4>1. posts' = << >>
        BY <3>1, <3>2, <3>3, EmptySeq
      <4>2. QED
        BY <3>1, <3>3, <4>1
    <3>4. CASE Len(posts) > 1
      <4>1. posts' # << >>
        BY <3>1, <3>4
      <4>2. posts'[Len(posts) - 1] = posts[Len(posts)]
        BY <3>1, <3>4
      <4>3. QED
        BY <3>1, <4>1, <4>2
    <3>5. QED
      BY <3>1, <3>3, <3>4
  <2>5. ~mishap /\ (device = "app" => tasks = 0 /\ dx = Nothing)
          => posts[Len(posts)] = Aim
    BY <2>1 DEF RestInv, LastPost
  <2>6. LastPost'
    BY <1>1, <1>2, <2>1, <2>2, <2>4, <2>5 DEF LastPost, Underway, Serving
  <2>7. QED
    BY <1>2, <1>3, <2>3, <2>6 DEF RestInv
<1>5. CASE RecvAnswer
  <2>1. /\ UNCHANGED << sock, posts, inbox >> /\ inbox = Nothing
        /\ web \in {"recv", "rerecv"} /\ web' = "idle" /\ reply
    BY <1>2, <1>5 DEF RecvAnswer, Done, OneAtATime
  <2>2. Disconnected' /\ PostsCommand'
    BY <1>1, <2>1 DEF RestInv, Disconnected, PostsCommand, Serving
  <2>3. LastPost'
    BY <1>1, <1>2, <2>1 DEF RestInv, LastPost, Underway, Serving
  <2>4. QED
    BY <1>2, <1>3, <2>2, <2>3 DEF RestInv
<1>6. ASSUME NEW try \in {"send", "resend"}, NEW then \in {"recv", "rerecv"},
             SendTo(try, then)
      PROVE  RestInv'
  <2>1. /\ UNCHANGED << post, sock, posts, reply >>
        /\ sock = "up" /\ inbox' = Speeds(post) /\ ~reply
        /\ Serving /\ Serving' /\ web' \in {"recv", "rerecv"}
    BY <1>2, <1>6 DEF SendTo, OneAtATime, Serving
  <2>2. Disconnected' /\ PostsCommand'
    BY <1>1, <2>1 DEF RestInv, Disconnected, PostsCommand
  <2>3. LastPost'
    BY <1>1, <1>2, <2>1 DEF RestInv, LastPost, Underway
  <2>4. QED
    BY <1>2, <1>3, <2>2, <2>3 DEF RestInv
<1>7. CASE \/ Looks \/ Connect \/ Remove \/ RecvNothing \/ FirstFails
           \/ Look \/ Dial \/ SecondFails
  <2>1. inbox = Nothing /\ Passes
    BY <1>7, PassesStep
  <2>2. Disconnected'
    <3>1. CASE Looks \/ Remove \/ RecvNothing \/ FirstFails \/ SecondFails
               \/ Look
      BY <1>1, <3>1
      DEF Looks, Remove, RecvNothing, FirstFails, SecondFails, Look, Done,
          RestInv, Disconnected
    <3>2. CASE Connect \/ Dial
      BY <1>1, <3>2
      DEF Connect, Dial, DialedSocket, Done, RestInv, Disconnected
    <3>3. QED
      BY <1>7, <3>1, <3>2
  <2>3. PostsCommand'
    BY <2>1 DEF RestInv, PostsCommand, Passes
  <2>4. LastPost'
    BY <1>1, <1>2, <2>1 DEF RestInv, LastPost, Underway, Passes
  <2>5. QED
    BY <1>2, <1>3, <2>2, <2>3, <2>4 DEF RestInv
<1>8. QED
  BY <1>4, <1>5, <1>6, <1>7 DEF Web

LEMMA ServerRest ==
  ASSUME RestInv, Starts \/ Command \/ Fault
  PROVE  RestInv'
<1>1. /\ UNCHANGED << device, stick, prev, n, tasks, dx, web, post >>
      /\ TypeOK' /\ OneAtATime' /\ (Aim' = Aim) /\ (Serving' <=> Serving)
  <2>1. UNCHANGED << device, stick, prev, n, tasks, dx, web, post >>
    BY DEF Starts, Command, Fault, ServerEnds, Lose, Overtake, pageVars,
           appVars, webVars
  <2>2. TypeOK' /\ OneAtATime'
    BY ServerStepNext, FaultNext DEF RestInv
  <2>3. QED
    BY <2>1, <2>2 DEF Aim, Serving
<1>2. LastTask'
  BY <1>1 DEF RestInv, LastTask
<1>3. CASE Starts
  <2>1. UNCHANGED << posts, sock, inbox, reply, v, mishap >>
    BY <1>3 DEF Starts, webVars
  <2>2. QED
    BY <1>1, <1>2, <2>1
    DEF RestInv, Disconnected, PostsCommand, LastPost, Underway
<1>4. CASE Command
  <2>1. /\ inbox # Nothing /\ inbox' = Nothing /\ reply' = TRUE
        /\ v' = Speeds(post) /\ UNCHANGED << posts, sock, mishap >>
        /\ sock = "up" /\ Underway
    BY <1>4
    DEF Command, webVars, RestInv, PostsCommand, OneAtATime, Underway, Serving
  <2>2. Disconnected' /\ PostsCommand'
    BY <1>1, <2>1 DEF RestInv, Disconnected, PostsCommand
  <2>3. LastPost'
    BY <1>1, <2>1 DEF RestInv, LastPost, Underway
  <2>4. QED
    BY <1>1, <1>2, <2>2, <2>3 DEF RestInv
<1>5. CASE ServerEnds
  <2>1. /\ inbox' = Nothing /\ v' = Stopped /\ sock' \in {"dead", sock}
        /\ UNCHANGED << posts, reply, mishap >>
    BY <1>5 DEF ServerEnds
  <2>2. Disconnected' /\ PostsCommand'
    BY <1>1, <2>1 DEF RestInv, Disconnected, PostsCommand
  <2>3. LastPost'
    BY <1>1, <2>1 DEF RestInv, LastPost, Underway
  <2>4. QED
    BY <1>1, <1>2, <2>2, <2>3 DEF RestInv
<1>6. CASE Lose \/ Overtake
  <2>1. mishap' /\ UNCHANGED << sock, inbox, reply, v >>
    BY <1>6 DEF Lose, Overtake, webVars, srvVars
  <2>2. QED
    BY <1>1, <1>2, <2>1 DEF RestInv, Disconnected, PostsCommand, LastPost
<1>7. QED
  BY <1>3, <1>4, <1>5, <1>6 DEF Fault

LEMMA RestNext == RestInv /\ [Next]_vars => RestInv'
<1> SUFFICES ASSUME RestInv, [Next]_vars PROVE RestInv'
  OBVIOUS
<1>1. CASE UNCHANGED vars
  BY <1>1
  DEF vars, pageVars, appVars, webVars, srvVars, RestInv, TypeOK, OneAtATime,
      Disconnected, PostsCommand, LastTask, LastPost, Aim, Underway, Serving
<1>2. QED
  BY <1>1, UserRest, WebRest, ServerRest DEF Next

LEMMA RestInvHolds == Spec => []RestInv
BY RestInit, RestNext, PTL DEF Spec

(* When nothing posted or touched is still to have an effect, the car has  *)
(* the speeds of the stick where it is now, or stands (custom.js, lines    *)
(* 13-39; DoPost; client.py, lines 41-54): what FollowsOrStops rests on,   *)
(* for any positions, and any number of posts and of ends of the server.   *)
THEOREM RestsRightHolds == Spec => []RestsRight
<1>1. RestInv => RestsRight
  BY DEF RestInv, LastPost, RestsRight, Settled, Aim
<1>2. QED
  BY <1>1, RestInvHolds, PTL

-----------------------------------------------------------------------------
(* The refinement. *)

LEMMA PostNotNothing == \A p \in Position : p # Nothing
<1>1. \A p \in Position : p = << p[1], p[2] >>
  BY Positions
<1>2. \A x, y : << x, y >> # << >>
  OBVIOUS
<1>3. QED
  BY <1>1, <1>2, Zenon DEF Nothing

LEMMA InitPosts == Init => Abstract!PostsInit
BY DEF Init, Abstract!PostsInit, Underway, Serving

LEMMA StepPosts ==
  ASSUME RestInv, [Next]_vars
  PROVE  [Abstract!PostsNext]_(Abstract!postVars)
<1> USE DEF Abstract!PostsNext, Abstract!postVars
<1>1. TypeOK /\ OneAtATime /\ post # Nothing
  BY PostNotNothing DEF RestInv, TypeOK
<1>2. CASE UNCHANGED vars
  BY <1>2
  DEF vars, pageVars, appVars, webVars, srvVars, Underway, Serving
<1>3. CASE MoveStick \/ Sample \/ DoPost
  <2>1. UNCHANGED << web, post, sock, path, srv, inbox, reply, v >>
    BY <1>3 DEF MoveStick, Sample, DoPost, webVars, srvVars
  <2>2. Underway' <=> Underway
    BY <2>1 DEF Underway, Serving
  <2>3. posts' = posts \/ \E p \in Position : posts' = Append(posts, p)
    <3>1. CASE MoveStick
      BY <3>1 DEF MoveStick
    <3>2. CASE Sample
      BY <1>1, <3>2, Positions
      DEF Sample, PostMoved, PostAgain, Wait, Send, TypeOK
    <3>3. CASE DoPost
      <4>1. CASE GetX
        BY <4>1 DEF GetX
      <4>2. CASE GetY
        <5>1. << dx[1], stick[2] >> \in Position
          <6>1. dx[1] \in Offset /\ stick[2] \in Offset
            BY <1>1, <4>2, Positions DEF GetY, TypeOK
          <6>2. QED
            BY <6>1 DEF Position
        <5>2. QED
          BY <4>2, <5>1 DEF GetY, Send
      <4>3. QED
        BY <3>3, <4>1, <4>2 DEF DoPost
    <3>4. QED
      BY <1>3, <3>1, <3>2, <3>3
  <2>4. QED
    BY <2>1, <2>2, <2>3 DEF Abstract!Posted
<1>4. CASE Web
  <2>1. v' = v
    BY <1>4 DEF Web
  <2>2. CASE Take
    BY <1>1, <2>1, <2>2
    DEF Take, Abstract!Served, Abstract!PassedOver, Underway, Serving,
        OneAtATime
  <2>3. CASE RecvAnswer
    BY <2>1, <2>3 DEF RecvAnswer, Done, Underway, Serving
  <2>4. ASSUME NEW try \in {"send", "resend"}, NEW then \in {"recv", "rerecv"},
               SendTo(try, then)
        PROVE  [Abstract!PostsNext]_(Abstract!postVars)
    BY <2>1, <2>4 DEF SendTo, Underway, Serving
  <2>5. CASE \/ Looks \/ Connect \/ Remove \/ RecvNothing \/ FirstFails
             \/ Look \/ Dial \/ SecondFails
    <3>1. Passes
      BY <2>5, PassesStep
    <3>2. QED
      BY <1>1, <2>1, <3>1 DEF Passes, Underway, Abstract!GivenUp
  <2>6. QED
    BY <1>4, <2>2, <2>3, <2>4, <2>5 DEF Web
<1>5. CASE Starts
  BY <1>5 DEF Starts, webVars, Underway, Serving
<1>6. CASE Command
  <2>1. /\ Underway /\ ~Underway' /\ v' = Speeds(post) /\ posts' = posts
    BY <1>1, <1>6
    DEF Command, webVars, RestInv, PostsCommand, OneAtATime, Underway, Serving
  <2>2. QED
    BY <1>1, <2>1 DEF Abstract!Followed
<1>7. CASE Fault
  <2>1. CASE ServerEnds
    BY <2>1 DEF ServerEnds, Underway, Serving, Abstract!Ended
  <2>2. CASE Lose
    BY <2>2 DEF Lose, webVars, srvVars, Underway, Serving, Abstract!Lost
  <2>3. CASE Overtake
    BY <2>3
    DEF Overtake, webVars, srvVars, Underway, Serving, Abstract!Overtaken
  <2>4. QED
    BY <1>7, <2>1, <2>2, <2>3 DEF Fault
<1>8. QED
  BY <1>2, <1>3, <1>4, <1>5, <1>6, <1>7 DEF Next

(* Between stick and speeds the posts are followed one after the other, in *)
(* order and at most once each, and given up only with a car that stands   *)
(* (client.py, lines 25-55, beside carserver.c, lines 315-341).            *)
THEOREM Refinement == Spec => ImplementsPosts
<1>1. Init => Abstract!PostsInit
  BY InitPosts
<1>2. RestInv /\ [Next]_vars => [Abstract!PostsNext]_(Abstract!postVars)
  BY StepPosts
<1>3. QED
  BY <1>1, <1>2, RestInvHolds, PTL DEF Spec, ImplementsPosts, Abstract!PostsSpec

-----------------------------------------------------------------------------
(* What HeldFollowed rests on: while the car server stays up, a post is    *)
(* lost at most once, namely the one that an earlier end of the server     *)
(* caught between its command and its answer.                              *)

(* Connected, client.py waits for an answer that comes and is about its    *)
(* post; a socket it waits at was connected once.                          *)
AnswerComes ==
  /\ web \in {"recv", "rerecv"} /\ sock = "up" =>
       \/ ~reply /\ inbox = Speeds(post)
       \/ reply /\ v = Speeds(post)
  /\ web \in {"recv", "resend", "rerecv"} => sock # "new"

(* The server ended after the connection was looked at or used.            *)
Cut == web \in {"recv", "resend", "rerecv"} /\ sock # "up"

(* Steps of client.py until it is done with the post, at most.             *)
ServeLeft ==
  CASE web = "send"   -> 6
    [] web = "recv"   -> 5
    [] web = "look"   -> 4
    [] web = "dial"   -> 3
    [] web = "resend" -> 2
    [] web = "rerecv" -> 1
    [] OTHER          -> 0

ServedWhileUp ==
  [][srv = "up" /\ srv' = "up" =>
       /\ Cut' => Cut
       /\ Serving /\ Web => ServeLeft' < ServeLeft
       /\ Serving /\ ~Serving' => v = Speeds(post) \/ Cut \/ CutOff]_vars

ServedInv == TypeOK /\ OneAtATime /\ AnswerComes

LEMMA WebAnswers ==
  ASSUME ServedInv, Web
  PROVE  AnswerComes'
<1>1. v' = v /\ sock \in {"new", "up", "dead"}
  BY DEF Web, ServedInv, TypeOK
<1>2. CASE Looks \/ Connect \/ Remove \/ Take
  BY <1>2 DEF Looks, Connect, Remove, Take, AnswerComes
<1>3. CASE SendTo("send", "recv") \/ SendTo("resend", "rerecv")
  <2>1. ~reply
    BY <1>3 DEF SendTo, ServedInv, OneAtATime
  <2>2. QED
    BY <1>3, <2>1 DEF SendTo, AnswerComes
<1>4. CASE RecvAnswer \/ RecvNothing \/ FirstFails \/ Look \/ SecondFails
  BY <1>4
  DEF RecvAnswer, RecvNothing, FirstFails, Look, SecondFails, Done, AnswerComes
<1>5. CASE Dial
  BY <1>5 DEF Dial, DialedSocket, Done, AnswerComes
<1>6. QED
  BY <1>2, <1>3, <1>4, <1>5 DEF Web

LEMMA ServedNext == ServedInv /\ [Next]_vars => ServedInv'
<1> SUFFICES ASSUME ServedInv, [Next]_vars
             PROVE  ServedInv'
  OBVIOUS
<1>1. TypeOK' /\ OneAtATime'
  BY ControlNext DEF ServedInv
<1>2. CASE UNCHANGED vars
  BY <1>1, <1>2 DEF vars, webVars, srvVars, ServedInv, AnswerComes
<1>3. CASE MoveStick \/ Sample \/ DoPost \/ Starts
  <2>1. UNCHANGED << web, post, sock, inbox, reply, v >>
    BY <1>3 DEF MoveStick, Sample, DoPost, Starts, webVars, srvVars
  <2>2. QED
    BY <1>1, <2>1 DEF ServedInv, AnswerComes
<1>4. CASE Web
  BY <1>1, <1>4, WebAnswers DEF ServedInv
<1>5. CASE Command
  <2>1. ~reply
    BY <1>5 DEF Command, ServedInv, OneAtATime
  <2>2. reply' = TRUE
    BY <1>5 DEF Command
  <2>3. /\ v' = inbox /\ inbox # Nothing
        /\ UNCHANGED << web, post, sock >>
    BY <1>5 DEF Command, webVars
  <2>4. QED
    BY <1>1, <2>1, <2>2, <2>3 DEF ServedInv, AnswerComes
<1>6. CASE Fault
  <2>1. CASE ServerEnds
    BY <1>1, <2>1 DEF ServerEnds, ServedInv, AnswerComes
  <2>2. CASE Lose \/ Overtake
    BY <1>1, <2>2 DEF Lose, Overtake, webVars, srvVars, ServedInv, AnswerComes
  <2>3. QED
    BY <1>6, <2>1, <2>2 DEF Fault
<1>7. QED
  BY <1>2, <1>3, <1>4, <1>5, <1>6 DEF Next

(* Every step of client.py brings it nearer to the end of its post.        *)
LEMMA WebNears ==
  ASSUME Web
  PROVE  Serving => ServeLeft' < ServeLeft
<1>1. CASE Looks \/ Connect \/ Remove \/ Take
  BY <1>1 DEF Looks, Connect, Remove, Take, Serving
<1>2. CASE SendTo("send", "recv")
  BY <1>2 DEF SendTo, ServeLeft
<1>3. CASE SendTo("resend", "rerecv")
  BY <1>3 DEF SendTo, ServeLeft
<1>4. CASE RecvAnswer \/ RecvNothing
  BY <1>4 DEF RecvAnswer, RecvNothing, Done, ServeLeft
<1>5. CASE FirstFails
  BY <1>5 DEF FirstFails, ServeLeft
<1>6. CASE Look
  BY <1>6 DEF Look, Done, ServeLeft
<1>7. CASE Dial
  BY <1>7 DEF Dial, Done, ServeLeft
<1>8. CASE SecondFails
  BY <1>8 DEF SecondFails, Done, ServeLeft
<1>9. QED
  BY <1>1, <1>2, <1>3, <1>4, <1>5, <1>6, <1>7, <1>8 DEF Web

(* When it is done, the car follows the post or the server was away. *)
LEMMA WebDone ==
  ASSUME ServedInv, Web, srv = "up"
  PROVE  /\ Cut' => Cut
         /\ Serving /\ ~Serving' => v = Speeds(post) \/ Cut \/ CutOff
<1>1. CASE Looks \/ Connect \/ Remove \/ Take
  BY <1>1 DEF Looks, Connect, Remove, Take, Serving, Cut
<1>2. CASE SendTo("send", "recv") \/ SendTo("resend", "rerecv")
  BY <1>2 DEF SendTo, Serving, Cut
<1>3. CASE RecvAnswer
  BY <1>3 DEF RecvAnswer, Done, Cut, ServedInv, AnswerComes
<1>4. CASE RecvNothing \/ SecondFails
  BY <1>4 DEF RecvNothing, SecondFails, Done, Cut
<1>5. CASE FirstFails
  BY <1>5 DEF FirstFails, Serving, Cut
<1>6. CASE Look
  BY <1>6 DEF Look, Done, Serving, Cut, CutOff
<1>7. CASE Dial
  BY <1>7 DEF Dial, Done, Accepted, DialedSocket, Serving, Cut, CutOff
<1>8. QED
  BY <1>1, <1>2, <1>3, <1>4, <1>5, <1>6, <1>7 DEF Web

LEMMA ServedStep ==
  ASSUME ServedInv, [Next]_vars, srv = "up", srv' = "up"
  PROVE  /\ Cut' => Cut
         /\ Serving /\ Web => ServeLeft' < ServeLeft
         /\ Serving /\ ~Serving' => v = Speeds(post) \/ Cut \/ CutOff
<1>1. CASE Web
  BY <1>1, WebNears, WebDone
<1>2. CASE ~Web
  <2>1. UNCHANGED << web, sock >>
    BY <1>2
    DEF Next, vars, webVars, srvVars, MoveStick, Sample, DoPost, Starts,
        Command, Fault, ServerEnds, Lose, Overtake
  <2>2. QED
    BY <1>2, <2>1 DEF Cut, Serving
<1>3. QED
  BY <1>1, <1>2

(* A post that client.py serves while the car server is up is followed     *)
(* after at most six steps of client.py, on its first attempt or its       *)
(* second, but for the one that an earlier end of the server cut: and no   *)
(* post is cut while the server stays up (client.py, lines 41-54).         *)
THEOREM ServedWhileUpHolds == Spec => []AnswerComes /\ ServedWhileUp
<1>1. Init => ServedInv
  BY ControlInit DEF Init, ServedInv, AnswerComes
<1>2. Spec => []ServedInv
  BY <1>1, ServedNext, PTL DEF Spec
<1>3. ServedInv => AnswerComes
  BY DEF ServedInv
<1>4. ServedInv /\ [Next]_vars =>
        [srv = "up" /\ srv' = "up" =>
           /\ Cut' => Cut
           /\ Serving /\ Web => ServeLeft' < ServeLeft
           /\ Serving /\ ~Serving' => v = Speeds(post) \/ Cut \/ CutOff]_vars
  BY ServedStep
<1>5. QED
  BY <1>2, <1>3, <1>4, PTL DEF Spec, ServedWhileUp
=============================================================================
