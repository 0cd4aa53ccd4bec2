-------------------------------- MODULE Posts --------------------------------
(***************************************************************************)
(* What the way from the stick to the speeds promises, whatever happens to *)
(* sockets, files and servers on it: the speeds are those of one post      *)
(* after the other in the order they come in, each taken at most once, and *)
(* a post that has no effect is given up with the car stopped.  It is      *)
(* implemented by RemoteControl.                                           *)
(***************************************************************************)
EXTENDS Integers, Sequences

CONSTANTS
  Position,      \* what a post can hold
  Nothing,       \* no position
  Speeds(_),     \* the speeds of a position
  Stopped,       \* the speeds of the car that stands
  Whole(_)       \* the positions client.py can read

VARIABLES
  queue,         \* posts that wait, in the order they will be served
  current,       \* the post that is served and had no effect so far
  v              \* the speeds

postVars == << queue, current, v >>

PostsInit == queue = << >> /\ current = Nothing /\ v = Stopped

(* The page or the app posts a position. *)
Posted ==
  /\ \E p \in Position : queue' = Append(queue, p)
  /\ UNCHANGED << current, v >>

(* client.py serves a post when the one before has been followed or given  *)
(* up, and passes over one that it cannot read.                            *)
Served ==
  /\ current = Nothing /\ queue # << >> /\ Whole(Head(queue))
  /\ current' = Head(queue) /\ queue' = Tail(queue)
  /\ UNCHANGED v

PassedOver ==
  /\ current = Nothing /\ queue # << >> /\ ~Whole(Head(queue))
  /\ queue' = Tail(queue)
  /\ UNCHANGED << current, v >>

(* The car server takes the speeds over. *)
Followed ==
  /\ current # Nothing
  /\ v' = Speeds(current) /\ current' = Nothing
  /\ UNCHANGED queue

(* A post that could not be passed on: the car stands. *)
GivenUp ==
  /\ current # Nothing /\ v = Stopped
  /\ current' = Nothing
  /\ UNCHANGED << queue, v >>

(* The car server ends; the next one starts with the speeds 0. *)
Ended ==
  /\ v' = Stopped
  /\ UNCHANGED << queue, current >>

Lost ==
  /\ queue # << >> /\ queue' = Tail(queue)
  /\ UNCHANGED << current, v >>

Overtaken ==
  /\ Len(queue) > 1
  /\ queue' = << queue[2], queue[1] >> \o SubSeq(queue, 3, Len(queue))
  /\ UNCHANGED << current, v >>

PostsNext ==
  \/ Posted \/ Served \/ PassedOver \/ Followed \/ GivenUp
  \/ Ended \/ Lost \/ Overtaken

PostsSpec == PostsInit /\ [][PostsNext]_postVars
=============================================================================
