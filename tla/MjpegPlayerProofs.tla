-------------------------- MODULE MjpegPlayerProofs --------------------------
(***************************************************************************)
(* NeverCrashes of MjpegPlayer, for every number of threads there could    *)
(* be: that there is never more than one is what the proof shows.          *)
(***************************************************************************)
EXTENDS MjpegPlayer, TLAPS

(* Only the thread the view names has been made and not ended.             *)
OneThread == \A t \in Thread : pc[t] # "none" => t = thread

(* Before onCreate nothing has happened; and no result is to come, or the  *)
(* view has no thread yet or one that was never started.                   *)
Reading ==
  /\ act = "none" =>
       /\ reads = << >> /\ thread = null /\ ui = "free"
       /\ ~mRun /\ ~suspending /\ ~act_suspending
  /\ reads # << >> =>
       /\ ~mRun /\ ~act_suspending /\ ui # "onPause"
       /\ thread # null => pc[thread] = "new"

(* A player that was stopped has no thread left.                           *)
Stopping ==
  /\ ui # "free" => ~mRun
  /\ act_suspending => ~mRun /\ thread = null
  /\ suspending /\ ui = "free" => thread = null

(* What a running thread relies on.                                        *)
Running ==
  \A t \in Thread :
    Alive(t) =>
      /\ mIn
      /\ ui = "free" => mRun
      /\ sees[t].surfaceDone \/ pc[t] \in {"read", "draw"} => surface
      /\ act \in {"paused", "destroyed"} /\ ui # "onPause" => late
      /\ act # "none"

Surface ==
  /\ surfaceDone => surface
  /\ ui = "surfaceDestroyed" => ~surfaceDone

PlayerInv ==
  /\ OneThread /\ Reading /\ Stopping /\ Running /\ Surface /\ NeverCrashes

-----------------------------------------------------------------------------
(* Threads. *)

LEMMA Threads == Thread # {} /\ null \notin Thread
  BY MjpegPlayerAssumption DEF null

(* Without a thread of the view a new one can be made.                     *)
LEMMA NewThreadIs ==
  ASSUME OneThread, thread = null
  PROVE  NewThread \in Thread /\ \A t \in Thread : pc[t] = "none"
<1>1. \A t \in Thread : pc[t] = "none"
  BY Threads DEF OneThread
<1>2. \E t \in Thread : pc[t] = "none"
  BY <1>1, Threads
<1>3. QED
  BY <1>1, <1>2 DEF NewThread

(* What starts a thread finds one: new, or never started, and no other.    *)
LEMMA Started ==
  ASSUME ViewTypeOK, PlayerInv, ui = "free", reads # << >>,
         StartPlayback \/ ResumePlayback
  PROVE  /\ \E t \in Thread :
               Launch(t) /\ \A u \in Thread \ {t} : pc[u] = "none"
         /\ suspending' = FALSE
         /\ UNCHANGED crashed
<1>1. CASE StartPlayback
  <2>1. ~suspending' /\ suspending' \in BOOLEAN
    BY <1>1 DEF StartPlayback, ViewTypeOK
  <2>2. CASE thread = null
    BY <1>1, <2>1, <2>2, NewThreadIs DEF StartPlayback, PlayerInv
  <2>3. CASE thread # null
    <3>1. pc[thread] = "new" /\ thread \in Thread
      BY <2>3 DEF PlayerInv, Reading, ViewTypeOK
    <3>2. Launch(thread) /\ UNCHANGED crashed
      BY <1>1, <2>3, <3>1 DEF StartPlayback
    <3>3. QED
      BY <2>1, <3>1, <3>2 DEF PlayerInv, OneThread
  <2>4. QED
    BY <2>2, <2>3
<1>2. CASE ResumePlayback
  BY <1>2, NewThreadIs DEF ResumePlayback, PlayerInv, Stopping
<1>3. QED
  BY <1>1, <1>2

-----------------------------------------------------------------------------
(* One lemma for each action. *)

LEMMA CreateNext ==
  ASSUME ViewTypeOK, PlayerInv, ui = "free", OnCreate
  PROVE  ViewTypeOK' /\ PlayerInv'
<1>1. NewThread \in Thread /\ \A t \in Thread : pc[t] = "none"
  BY NewThreadIs DEF OnCreate, PlayerInv, Reading
<1>2. \A t \in Thread : pc'[t] = IF t = NewThread THEN "new" ELSE "none"
  BY <1>1 DEF OnCreate, ViewTypeOK
<1>3. ViewTypeOK'
  BY <1>1 DEF OnCreate, ViewTypeOK, troubles
<1>4. OneThread' /\ Running'
  BY <1>2 DEF OnCreate, OneThread, Running, Alive
<1>5. Reading'
  BY <1>1, <1>2 DEF OnCreate, Reading, Stopping, PlayerInv
<1>6. Stopping'
  BY DEF OnCreate, PlayerInv, Reading, Stopping
<1>7. Surface' /\ NeverCrashes'
  BY DEF OnCreate, PlayerInv, Surface, NeverCrashes, troubles
<1>8. QED
  BY <1>3, <1>4, <1>5, <1>6, <1>7 DEF PlayerInv

LEMMA PauseNext ==
  ASSUME ViewTypeOK, PlayerInv, ui = "free", OnPause
  PROVE  ViewTypeOK' /\ PlayerInv'
<1>1. /\ act = "resumed" /\ act' = "paused"
      /\ UNCHANGED << surface, reads, act_suspending, surfaceDone, mIn, thread,
                      pc, sees, crashed, freedInUse, late, refused >>
  BY DEF OnPause, threads, troubles
<1>2. CASE mRun
  <2>1. suspending' = TRUE /\ mRun' = FALSE /\ ui' = "onPause"
    BY <1>2 DEF OnPause, StopPlayback
  <2>2. ViewTypeOK'
    BY <1>1, <2>1 DEF ViewTypeOK
  <2>3. OneThread' /\ Running'
    BY <1>1, <2>1 DEF PlayerInv, OneThread, Running, Alive
  <2>4. Reading' /\ Stopping'
    BY <1>1, <1>2, <2>1 DEF PlayerInv, Reading, Stopping
  <2>5. Surface' /\ NeverCrashes'
    BY <1>1, <2>1 DEF PlayerInv, Surface, NeverCrashes
  <2>6. QED
    BY <2>2, <2>3, <2>4, <2>5 DEF PlayerInv
<1>3. CASE ~mRun
  <2>1. UNCHANGED << suspending, mRun, ui >>
    BY <1>3 DEF OnPause
  <2>2. ViewTypeOK'
    BY <1>1, <2>1 DEF ViewTypeOK
  <2>3. OneThread' /\ Running'
    BY <1>1, <1>3, <2>1 DEF PlayerInv, OneThread, Running, Alive
  <2>4. Reading' /\ Stopping'
    BY <1>1, <2>1 DEF PlayerInv, Reading, Stopping
  <2>5. Surface' /\ NeverCrashes'
    BY <1>1, <2>1 DEF PlayerInv, Surface, NeverCrashes
  <2>6. QED
    BY <2>2, <2>3, <2>4, <2>5 DEF PlayerInv
<1>4. QED
  BY <1>2, <1>3

LEMMA ResumeNext ==
  ASSUME ViewTypeOK, PlayerInv, ui = "free", OnResume
  PROVE  ViewTypeOK' /\ PlayerInv'
<1>1. /\ act = "paused" /\ act' = "resumed" /\ act_suspending' = FALSE
      /\ UNCHANGED << surface, mRun, surfaceDone, suspending, mIn, thread, ui,
                      pc, sees, crashed, freedInUse, late, refused >>
  BY DEF OnResume, fields, threads, troubles
<1>2. reads' = IF act_suspending THEN << "connecting" >> ELSE reads
  <2>1. act_suspending => reads = << >>
    BY DEF PlayerInv, Reading
  <2>2. Append(<< >>, "connecting") = << "connecting" >>
    OBVIOUS
  <2>3. QED
    BY <2>1, <2>2 DEF OnResume, MustRead
<1>3. ViewTypeOK'
  BY <1>1, <1>2 DEF ViewTypeOK
<1>4. OneThread' /\ Running'
  BY <1>1 DEF PlayerInv, OneThread, Running, Alive
<1>5. Reading'
  BY <1>1, <1>2 DEF PlayerInv, Reading, Stopping
<1>6. Stopping' /\ Surface' /\ NeverCrashes'
  BY <1>1 DEF PlayerInv, Stopping, Surface, NeverCrashes
<1>7. QED
  BY <1>3, <1>4, <1>5, <1>6 DEF PlayerInv

LEMMA DestroyNext ==
  ASSUME ViewTypeOK, PlayerInv, ui = "free", OnDestroy
  PROVE  ViewTypeOK' /\ PlayerInv'
<1>1. /\ act = "paused" /\ act' = "destroyed"
      /\ UNCHANGED << surface, reads, act_suspending, mRun, surfaceDone,
                      suspending, mIn, thread, ui, pc, sees, crashed, late,
                      refused >>
      /\ freedInUse' =
           (freedInUse \/ (mIn /\ \E t \in Thread : pc[t] = "read"))
  BY DEF OnDestroy, FreeCameraMemory, Decodes, fields, threads
<1>2. ViewTypeOK'
  <2>1. freedInUse' \in BOOLEAN
    BY <1>1 DEF ViewTypeOK
  <2>2. QED
    BY <1>1, <2>1 DEF ViewTypeOK
<1>3. OneThread' /\ Running'
  BY <1>1 DEF PlayerInv, OneThread, Running, Alive
<1>4. Reading' /\ Stopping' /\ Surface'
  BY <1>1 DEF PlayerInv, Reading, Stopping, Surface
<1>5. NeverCrashes'
  <2>1. ASSUME NEW t \in Thread, pc[t] = "read" PROVE late
    BY <1>1, <2>1 DEF PlayerInv, Running, Alive
  <2>2. QED
    BY <1>1, <2>1 DEF PlayerInv, NeverCrashes
<1>6. QED
  BY <1>2, <1>3, <1>4, <1>5 DEF PlayerInv

LEMMA ConnectedNext ==
  ASSUME ViewTypeOK, PlayerInv, Connected
  PROVE  ViewTypeOK' /\ PlayerInv'
<1>1. /\ reads = << "connecting" >>
      /\ UNCHANGED << act, surface, act_suspending, mRun, surfaceDone,
                      suspending, mIn, thread, ui, pc, sees, crashed,
                      freedInUse, late >>
  BY DEF Connected, ViewTypeOK, fields, threads
<1>2. /\ reads' \in {<< "stream" >>, << "failure" >>}
      /\ refused' \in BOOLEAN
  <2>1. PICK result \in {"stream", "failure"} :
           /\ reads' = << result >> \o Tail(reads)
           /\ refused' = (refused \/ result = "failure")
    BY DEF Connected
  <2>2. << result >> \o Tail(reads) = << result >>
    BY <1>1
  <2>3. QED
    BY <2>1, <2>2 DEF ViewTypeOK
<1>3. ViewTypeOK'
  BY <1>1, <1>2 DEF ViewTypeOK
<1>4. OneThread' /\ Running'
  BY <1>1 DEF PlayerInv, OneThread, Running, Alive
<1>5. Reading'
  BY <1>1, <1>2 DEF PlayerInv, Reading
<1>6. Stopping' /\ Surface' /\ NeverCrashes'
  BY <1>1 DEF PlayerInv, Stopping, Surface, NeverCrashes
<1>7. QED
  BY <1>3, <1>4, <1>5, <1>6 DEF PlayerInv

LEMMA SourceNext ==
  ASSUME ViewTypeOK, PlayerInv, ui = "free", SetSource
  PROVE  ViewTypeOK' /\ PlayerInv'
<1>1. /\ reads # << >> /\ reads' = << >>
      /\ mIn' \in BOOLEAN /\ late' \in BOOLEAN
      /\ (late => late') /\ (act # "resumed" => late')
      /\ UNCHANGED << act, surface, act_suspending, surfaceDone, ui,
                      freedInUse, refused >>
  <2>1. reads # << >> /\ Tail(reads) = << >>
    <3>1. \A x \in {"stream", "failure", "connecting"} : Tail(<< x >>) = << >>
      OBVIOUS
    <3>2. reads # << >>
      BY DEF SetSource
    <3>3. QED
      BY <3>1, <3>2, Zenon DEF ViewTypeOK
  <2>2. /\ reads' = Tail(reads)
        /\ mIn' = (Head(reads) = "stream")
        /\ late' = (late \/ act # "resumed")
        /\ UNCHANGED << act, surface, act_suspending, surfaceDone, ui,
                        freedInUse, refused >>
    BY DEF SetSource
  <2>3. /\ mIn' \in BOOLEAN /\ late' \in BOOLEAN
        /\ (late => late') /\ (act # "resumed" => late')
    BY <2>2, Zenon DEF ViewTypeOK
  <2>4. QED
    BY <2>1, <2>2, <2>3, Zenon
<1>2. /\ ~mRun /\ ~act_suspending /\ act # "none"
      /\ \A t \in Thread : ~Alive(t)
  <2>1. ~mRun /\ ~act_suspending /\ act # "none"
    BY <1>1 DEF PlayerInv, Reading
  <2>2. ASSUME NEW t \in Thread PROVE ~Alive(t)
    BY <1>1, Threads DEF PlayerInv, Reading, OneThread, Alive
  <2>3. QED
    BY <2>1, <2>2
<1>3. CASE mIn'
  <2>1. StartPlayback \/ ResumePlayback
    BY <1>3 DEF SetSource
  <2>2. PICK t \in Thread :
           Launch(t) /\ \A u \in Thread \ {t} : pc[u] = "none"
    BY <1>1, <2>1, Started
  <2>3. /\ mRun' /\ mRun' \in BOOLEAN
        /\ thread' = t
        /\ pc' = [pc EXCEPT ![t] = "loop"]
        /\ sees' = [sees EXCEPT ![t] = Sees(TRUE, surfaceDone)]
        /\ ~suspending' /\ suspending' \in BOOLEAN
        /\ UNCHANGED crashed
    <3>1. /\ mRun' = TRUE /\ thread' = t
          /\ pc' = [pc EXCEPT ![t] = "loop"]
          /\ sees' = [sees EXCEPT ![t] = Sees(TRUE, surfaceDone)]
      BY <2>2 DEF Launch
    <3>2. suspending' = FALSE /\ UNCHANGED crashed
      BY <1>1, <2>1, Started
    <3>3. QED
      BY <3>1, <3>2, Zenon
  <2>4. ViewTypeOK'
    <3>1. sees' \in [Thread -> [mRun : BOOLEAN, surfaceDone : BOOLEAN]]
      BY <2>3 DEF ViewTypeOK, Sees
    <3>2. pc' \in [Thread -> {"none", "new", "loop", "read", "draw"}]
      BY <2>3 DEF ViewTypeOK
    <3>3. QED
      BY <1>1, <2>3, <3>1, <3>2 DEF ViewTypeOK
  <2>5. \A u \in Thread : pc'[u] = IF u = t THEN "loop" ELSE "none"
    BY <2>2, <2>3 DEF ViewTypeOK
  <2>6. sees'[t].surfaceDone = surfaceDone
    BY <2>3 DEF ViewTypeOK, Sees
  <2>7. OneThread'
    BY <2>3, <2>5 DEF OneThread
  <2>8. Running'
    <3>1. ASSUME NEW u \in Thread, Alive(u)' PROVE u = t /\ pc'[u] = "loop"
      BY <2>5, <3>1 DEF Alive
    <3>2. surfaceDone => surface
      BY DEF PlayerInv, Surface
    <3>3. /\ mIn' /\ mRun' /\ act' # "none"
          /\ sees'[t].surfaceDone => surface'
          /\ act' \in {"paused", "destroyed"} => late'
      BY <1>1, <1>2, <1>3, <2>3, <2>6, <3>2
    <3>4. QED
      BY <3>1, <3>3 DEF Running
  <2>9. Reading' /\ Stopping'
    BY <1>1, <1>2, <2>3 DEF PlayerInv, Reading, Stopping
  <2>10. Surface' /\ NeverCrashes'
    BY <1>1, <2>3 DEF PlayerInv, Surface, NeverCrashes
  <2>11. QED
    BY <2>4, <2>7, <2>8, <2>9, <2>10 DEF PlayerInv
<1>4. CASE ~mIn'
  <2>1. UNCHANGED << mRun, suspending, thread, pc, sees, crashed >>
    BY <1>4 DEF SetSource, threads
  <2>2. ViewTypeOK'
    BY <1>1, <2>1 DEF ViewTypeOK
  <2>3. OneThread' /\ Running'
    BY <1>2, <2>1 DEF PlayerInv, OneThread, Running, Alive
  <2>4. Reading' /\ Stopping' /\ Surface' /\ NeverCrashes'
    BY <1>1, <1>2, <2>1
    DEF PlayerInv, Reading, Stopping, Surface, NeverCrashes
  <2>5. QED
    BY <2>2, <2>3, <2>4 DEF PlayerInv
<1>5. QED
  BY <1>3, <1>4

LEMMA SurfaceNext ==
  ASSUME ViewTypeOK, PlayerInv, ui = "free", SurfaceCreated \/ SurfaceDestroyed
  PROVE  ViewTypeOK' /\ PlayerInv'
<1>1. CASE SurfaceCreated
  <2>1. /\ act = "resumed" /\ surface' = TRUE /\ surfaceDone' = TRUE
        /\ UNCHANGED << act, reads, act_suspending, mRun, suspending, mIn,
                        thread, ui, pc, sees, crashed, freedInUse, late,
                        refused >>
    BY <1>1 DEF SurfaceCreated, threads, troubles
  <2>2. ViewTypeOK'
    BY <2>1 DEF ViewTypeOK
  <2>3. OneThread' /\ Running'
    BY <2>1 DEF PlayerInv, OneThread, Running, Alive
  <2>4. Reading' /\ Stopping' /\ Surface' /\ NeverCrashes'
    BY <2>1 DEF PlayerInv, Reading, Stopping, Surface, NeverCrashes
  <2>5. QED
    BY <2>2, <2>3, <2>4 DEF PlayerInv
<1>2. CASE SurfaceDestroyed
  <2>1. /\ act \in {"paused", "destroyed"} /\ surfaceDone' = FALSE
        /\ mRun' = FALSE /\ ui' = "surfaceDestroyed"
        /\ suspending' = (suspending \/ mRun)
        /\ UNCHANGED << act, surface, reads, act_suspending, mIn, thread, pc,
                        sees, crashed, freedInUse, late, refused >>
    BY <1>2 DEF SurfaceDestroyed, StopPlayback, threads, troubles
  <2>2. ViewTypeOK'
    BY <2>1 DEF ViewTypeOK
  <2>3. OneThread' /\ Running'
    BY <2>1 DEF PlayerInv, OneThread, Running, Alive
  <2>4. Reading' /\ Stopping' /\ Surface' /\ NeverCrashes'
    BY <2>1 DEF PlayerInv, Reading, Stopping, Surface, NeverCrashes
  <2>5. QED
    BY <2>2, <2>3, <2>4 DEF PlayerInv
<1>3. QED
  BY <1>1, <1>2

LEMMA JoinedNext ==
  ASSUME ViewTypeOK, PlayerInv, Joined
  PROVE  ViewTypeOK' /\ PlayerInv'
<1>1. /\ ui # "free" /\ ui' = "free" /\ thread' = null /\ mIn' = FALSE
      /\ act_suspending' = (act_suspending \/ ui = "onPause")
      /\ surface' = (surface /\ ui # "surfaceDestroyed")
      /\ UNCHANGED << act, reads, mRun, surfaceDone, suspending, sees, crashed,
                      freedInUse, late, refused >>
  BY DEF Joined, troubles
<1>2. \A t \in Thread : pc'[t] = "none"
  <2>1. \A t \in Thread : pc[t] = "none" \/ (t = thread /\ pc[t] = "new")
    BY Threads DEF Joined, MayGoOn, PlayerInv, OneThread, Alive
  <2>2. QED
    BY <2>1 DEF Joined
<1>3. pc' = [t \in Thread |-> "none"]
  BY <1>2 DEF Joined
<1>4. ViewTypeOK'
  BY <1>1, <1>3 DEF ViewTypeOK
<1>5. OneThread' /\ Running'
  BY <1>2 DEF OneThread, Running, Alive
<1>6. Reading'
  BY <1>1 DEF PlayerInv, Reading
<1>7. Stopping' /\ Surface' /\ NeverCrashes'
  BY <1>1 DEF PlayerInv, Stopping, Surface, NeverCrashes
<1>8. QED
  BY <1>4, <1>5, <1>6, <1>7 DEF PlayerInv

LEMMA ThreadNext ==
  ASSUME ViewTypeOK, PlayerInv, NEW t \in Thread, Runs(t) \/ Notices(t)
  PROVE  ViewTypeOK' /\ PlayerInv'
<1>1. UNCHANGED << act, surface, reads, act_suspending, mRun, surfaceDone,
                   suspending, mIn, thread, ui, freedInUse, late, refused >>
  BY DEF Runs, Notices, OnlyThreads, fields
<1>2. Alive(t) /\ t = thread
  BY DEF Runs, Notices, Refresh, Loop, ReadMjpegFrame, Draw, Alive, PlayerInv,
         OneThread
<1>3. reads = << >> /\ \A u \in Thread \ {t} : pc[u] = "none"
  BY <1>2, Threads DEF PlayerInv, Reading, OneThread, Alive
<1>4. CASE Notices(t)
  <2>1. /\ sees' = [sees EXCEPT ![t] = Sees(mRun, surfaceDone)]
        /\ UNCHANGED << pc, crashed >>
    BY <1>4 DEF Notices, Refresh
  <2>2. sees' \in [Thread -> [mRun : BOOLEAN, surfaceDone : BOOLEAN]]
    BY <2>1 DEF ViewTypeOK, Sees
  <2>3. ViewTypeOK'
    BY <1>1, <2>1, <2>2 DEF ViewTypeOK
  <2>4. sees'[t].surfaceDone = surfaceDone
    BY <2>1 DEF ViewTypeOK, Sees
  <2>5. Running'
    BY <1>1, <1>3, <2>1, <2>4 DEF PlayerInv, Running, Alive, Surface
  <2>6. QED
    BY <1>1, <2>1, <2>3, <2>5
    DEF PlayerInv, OneThread, Reading, Stopping, Surface, NeverCrashes
<1>5. CASE Runs(t)
  <2>1. /\ UNCHANGED << sees, crashed >>
        /\ \E where \in {"none", "loop", "read", "draw"} :
             /\ pc' = [pc EXCEPT ![t] = where]
             /\ where \in {"read", "draw"} => surface
    <3>1. CASE Loop(t)
      BY <3>1 DEF Loop, GoesTo, PlayerInv, Running, Alive
    <3>2. CASE ReadMjpegFrame(t)
      BY <1>2, <3>2 DEF ReadMjpegFrame, GoesTo, PlayerInv, Running
    <3>3. CASE Draw(t)
      BY <1>2, <3>3 DEF Draw, GoesTo, PlayerInv, Running
    <3>4. QED
      BY <1>5, <3>1, <3>2, <3>3 DEF Runs
  <2>2. PICK where \in {"none", "loop", "read", "draw"} :
           /\ pc' = [pc EXCEPT ![t] = where]
           /\ where \in {"read", "draw"} => surface
    BY <2>1
  <2>3. \A u \in Thread : pc'[u] = IF u = t THEN where ELSE "none"
    BY <1>3, <2>2 DEF ViewTypeOK
  <2>4. pc' \in [Thread -> {"none", "new", "loop", "read", "draw"}]
    BY <2>2 DEF ViewTypeOK
  <2>5. ViewTypeOK'
    BY <1>1, <2>1, <2>4 DEF ViewTypeOK
  <2>6. OneThread'
    BY <1>1, <1>2, <2>3 DEF OneThread
  <2>7. Running'
    BY <1>1, <1>2, <2>1, <2>2, <2>3 DEF PlayerInv, Running, Alive
  <2>8. Reading' /\ Stopping' /\ Surface' /\ NeverCrashes'
    BY <1>1, <1>3, <2>1
    DEF PlayerInv, Reading, Stopping, Surface, NeverCrashes
  <2>9. QED
    BY <2>5, <2>6, <2>7, <2>8 DEF PlayerInv
<1>6. QED
  BY <1>4, <1>5

-----------------------------------------------------------------------------

LEMMA PlayerInit == ViewInit => ViewTypeOK /\ PlayerInv
<1> SUFFICES ASSUME ViewInit PROVE ViewTypeOK /\ PlayerInv
  OBVIOUS
<1>1. ViewTypeOK
  BY DEF ViewInit, ViewTypeOK, Sees
<1>2. OneThread /\ Running
  BY DEF ViewInit, OneThread, Running, Alive
<1>3. QED
  BY <1>1, <1>2
  DEF ViewInit, PlayerInv, Reading, Stopping, Surface, NeverCrashes

LEMMA PlayerNext ==
  ViewTypeOK /\ PlayerInv /\ [ViewNext]_viewVars => ViewTypeOK' /\ PlayerInv'
<1> SUFFICES ASSUME ViewTypeOK, PlayerInv, [ViewNext]_viewVars
             PROVE  ViewTypeOK' /\ PlayerInv'
  OBVIOUS
<1>1. CASE Callback
  BY <1>1, CreateNext, PauseNext, ResumeNext, DestroyNext, SurfaceNext
  DEF Callback
<1>2. CASE Result
  BY <1>2, SourceNext DEF Result
<1>3. CASE UNCHANGED viewVars
  <2>1. UNCHANGED << act, surface, reads, act_suspending, mRun, surfaceDone,
                     suspending, mIn, thread, ui, pc, sees, crashed,
                     freedInUse, late, refused >>
    BY <1>3 DEF viewVars, fields, threads, troubles
  <2>2. ViewTypeOK' /\ OneThread' /\ Running'
    BY <2>1 DEF ViewTypeOK, PlayerInv, OneThread, Running, Alive
  <2>3. QED
    BY <2>1, <2>2
    DEF PlayerInv, Reading, Stopping, Surface, NeverCrashes
<1>4. QED
  BY <1>1, <1>2, <1>3, JoinedNext, ConnectedNext, ThreadNext DEF ViewNext

(* Type correctness of the player, for any number of threads.              *)
THEOREM ViewTypeCorrect == ViewSpec => []ViewTypeOK
BY PlayerInit, PlayerNext, PTL DEF ViewSpec

(* The picture's threads never trip over each other (NeverCrashes of       *)
(* MjpegPlayer): no second drawing thread, no closed stream, no surface    *)
(* that is gone, whatever the order of callbacks and results.              *)
THEOREM NeverCrashesHolds == ViewSpec => []NeverCrashes
<1>1. PlayerInv => NeverCrashes
  BY DEF PlayerInv
<1>2. QED
  BY <1>1, PlayerInit, PlayerNext, PTL DEF ViewSpec

-----------------------------------------------------------------------------
(* stopPlayback: the variant behind the join.                              *)

(* The steps a drawing thread still makes once it sees that mRun is off.   *)
RunLeft(t) ==
  CASE pc[t] = "read" -> 3
    [] pc[t] = "draw" -> 2
    [] pc[t] = "loop" -> 1
    [] OTHER          -> 0

(* While stopPlayback holds the UI thread (lines 220-241), nothing sets    *)
(* mRun and nothing starts a thread; a thread that has noticed stays so,   *)
(* each step it makes brings its end nearer, and nothing else puts it off: *)
(* its stream and its surface are not taken from it before it has ended.   *)
(* So the UI thread waits for one look at mRun and three steps at most.    *)
JoinEnds ==
  [][ ui # "free" =>
        /\ ~mRun /\ ~mRun'
        /\ \A t \in Thread :
             /\ RunLeft(t) = 0 => RunLeft(t)' = 0
             /\ Notices(t) => ~sees'[t].mRun
             /\ ~sees[t].mRun =>
                  /\ ~sees'[t].mRun
                  /\ RunLeft(t)' <= RunLeft(t)
                  /\ Runs(t) => RunLeft(t)' < RunLeft(t) ]_viewVars

-----------------------------------------------------------------------------
(* What PictureComesBack rests on.                                         *)

(* Whenever the activity is resumed, the picture is on its way or there:   *)
(* a connection is made, or the player runs, with its stream open and told *)
(* of the surface, unless a connection failed or came up too late.  No     *)
(* order of pausing, resuming, surfaces and results leaves a resumed       *)
(* activity with neither (MjpegActivity, lines 128-145 and 277-286).       *)
PictureUnderWay ==
  ~(late \/ refused) /\ act = "resumed" =>
    \/ reads # << >>
    \/ /\ mRun /\ thread # null
       /\ Alive(thread) => mIn
       /\ surface => surfaceDone

(* A paused activity knows what to do when it is resumed. *)
PictureInv ==
  /\ ui # "free" => act \in {"paused", "destroyed"}
  /\ ui = "onPause" => act = "paused"
  /\ ui # "surfaceDestroyed" /\ surface => surfaceDone
  /\ reads = << "failure" >> => refused
  /\ ~(late \/ refused) =>
       /\ act = "resumed" => reads # << >> \/ (mRun /\ thread # null)
       /\ act = "paused" /\ ui # "onPause" => reads # << >> \/ act_suspending

LEMMA PictureStep ==
  ViewTypeOK /\ PlayerInv /\ PictureInv /\ [ViewNext]_viewVars => PictureInv'
<1> SUFFICES ASSUME ViewTypeOK, PlayerInv, PictureInv, [ViewNext]_viewVars
             PROVE  PictureInv'
  OBVIOUS
<1>1. CASE ui = "free" /\ OnCreate
  <2>1. reads' = << "connecting" >>
    BY <1>1 DEF OnCreate
  <2>2. reads' # << >> /\ reads' # << "failure" >>
    BY <2>1
  <2>3. ui' = "free" /\ act' = "resumed" /\ surface' = surface
          /\ surfaceDone' = surfaceDone
    BY <1>1 DEF OnCreate
  <2>4. QED
    BY <1>1, <2>2, <2>3 DEF PictureInv
<1>2. CASE ui = "free" /\ OnPause
  <2>1. /\ act = "resumed" /\ act' = "paused"
        /\ UNCHANGED << surface, reads, act_suspending, surfaceDone, thread,
                        late, refused >>
        /\ IF mRun THEN ui' = "onPause" ELSE ui' = "free"
    BY <1>2 DEF OnPause, StopPlayback, troubles
  <2>2. QED
    BY <1>2, <2>1 DEF PictureInv
<1>3. CASE ui = "free" /\ OnResume
  <2>1. /\ act = "paused" /\ act' = "resumed" /\ ui' = "free"
        /\ UNCHANGED << surface, surfaceDone, late, refused >>
        /\ reads' = IF act_suspending THEN << "connecting" >> ELSE reads
    <3>1. act_suspending => reads = << >>
      BY DEF PlayerInv, Reading
    <3>2. Append(<< >>, "connecting") = << "connecting" >>
      OBVIOUS
    <3>3. QED
      BY <1>3, <3>1, <3>2 DEF OnResume, MustRead, fields, troubles
  <2>2. ASSUME act_suspending
        PROVE  reads' # << >> /\ reads' # << "failure" >>
    <3>1. reads' = << "connecting" >>
      BY <2>1, <2>2
    <3>2. QED
      BY <3>1
  <2>3. QED
    BY <1>3, <2>1, <2>2 DEF PictureInv
<1>4. CASE ui = "free" /\ OnDestroy
  BY <1>4 DEF OnDestroy, FreeCameraMemory, PictureInv, fields, threads
<1>5. CASE ui = "free" /\ SurfaceCreated
  BY <1>5 DEF SurfaceCreated, PictureInv, threads, troubles
<1>6. CASE ui = "free" /\ SurfaceDestroyed
  BY <1>6 DEF SurfaceDestroyed, StopPlayback, PictureInv, threads, troubles
<1>7. CASE ui = "free" /\ SetSource
  <2>1. reads # << >> /\ reads \in {<< "connecting" >>, << "stream" >>, << "failure" >>}
    BY <1>7 DEF SetSource, ViewTypeOK
  <2>2. /\ reads' = << >>
        /\ reads = << "stream" >> => mIn'
        /\ reads = << "connecting" >> => FALSE
    <3>1. \A x \in {"stream", "failure", "connecting"} :
             Tail(<< x >>) = << >> /\ Head(<< x >>) = x
      OBVIOUS
    <3>2. "connecting" # "stream" /\ "stream" # "failure"
      OBVIOUS
    <3>3. /\ Head(reads) # "connecting" /\ reads' = Tail(reads)
          /\ mIn' = (Head(reads) = "stream")
      BY <1>7 DEF SetSource
    <3>4. QED
      BY <2>1, <3>1, <3>2, <3>3, Zenon
  <2>3. /\ ui' = "free" /\ act' = act /\ act_suspending' = act_suspending
        /\ surface' = surface /\ surfaceDone' = surfaceDone
        /\ refused' = refused
    BY <1>7 DEF SetSource
  <2>4. late' <=> late \/ act # "resumed"
    BY <1>7 DEF SetSource, ViewTypeOK
  <2>5. ASSUME mIn' PROVE mRun' /\ thread' # null
    <3>1. StartPlayback \/ ResumePlayback
      BY <1>7, <2>5 DEF SetSource
    <3>2. PICK t \in Thread : Launch(t)
      BY <1>7, <2>1, <3>1, Started
    <3>3. QED
      BY <3>2, Threads DEF Launch
  <2>6. reads' # << "failure" >>
    BY <2>2
  <2>7. QED
    BY <1>7, <2>1, <2>2, <2>3, <2>4, <2>5, <2>6 DEF PictureInv
<1>8. CASE Joined
  BY <1>8 DEF Joined, PictureInv, troubles, PlayerInv, Surface
<1>9. CASE Connected
  <2>1. reads = << "connecting" >>
    BY <1>9 DEF Connected, ViewTypeOK
  <2>2. PICK result \in {"stream", "failure"} :
           /\ reads' = << result >> \o Tail(reads)
           /\ refused' = (refused \/ result = "failure")
    BY <1>9 DEF Connected
  <2>3. << result >> \o Tail(reads) = << result >>
    BY <2>1
  <2>4. reads' # << >> /\ reads # << >>
          /\ (reads' = << "failure" >> => result = "failure")
    BY <2>1, <2>2, <2>3
  <2>5. /\ UNCHANGED << act, surface, act_suspending, mRun, surfaceDone,
                        thread, ui, late >>
    BY <1>9 DEF Connected, fields, threads
  <2>6. (refused => refused') /\ (result = "failure" => refused')
    BY <2>2
  <2>7. QED
    BY <2>4, <2>5, <2>6 DEF PictureInv
<1>10. CASE \E t \in Thread : Runs(t) \/ Notices(t)
  BY <1>10 DEF Runs, Notices, OnlyThreads, fields, PictureInv
<1>11. CASE UNCHANGED viewVars
  BY <1>11 DEF viewVars, fields, troubles, PictureInv
<1>12. QED
  BY <1>1, <1>2, <1>3, <1>4, <1>5, <1>6, <1>7, <1>8, <1>9, <1>10, <1>11
     DEF ViewNext, Callback, Result

(* A resumed activity always has its picture or is about to get it. *)
THEOREM PictureUnderWayHolds == ViewSpec => []PictureUnderWay
<1>1. ViewInit => PictureInv
  <2>1. ASSUME reads = << >> PROVE reads # << "failure" >>
    BY <2>1
  <2>2. QED
    BY <2>1 DEF ViewInit, PictureInv
<1>2. ViewTypeOK /\ PlayerInv /\ PictureInv => PictureUnderWay
  <2> SUFFICES ASSUME ViewTypeOK, PlayerInv, PictureInv,
                      ~(late \/ refused), act = "resumed", reads = << >>
               PROVE  /\ mRun /\ thread # null
                      /\ Alive(thread) => mIn
                      /\ surface => surfaceDone
    BY DEF PictureUnderWay
  <2>1. mRun /\ thread # null /\ (surface => surfaceDone)
    BY DEF PictureInv
  <2>2. thread \in Thread
    BY <2>1 DEF ViewTypeOK
  <2>3. QED
    BY <2>1, <2>2 DEF PlayerInv, Running
<1>3. QED
  BY <1>1, <1>2, PictureStep, PlayerInit, PlayerNext, PTL DEF ViewSpec

(* While the UI thread waits, only the drawing threads and a connection    *)
(* that is not there move, and the end of the wait.                        *)
LEMMA Waits ==
  ASSUME ViewTypeOK, PlayerInv, ui # "free", ViewNext
  PROVE  /\ ~mRun /\ ~mRun'
         /\ \/ Joined
            \/ UNCHANGED << pc, sees >>
            \/ \E t \in Thread : Runs(t) \/ Notices(t)
<1>1. ~mRun
  BY DEF PlayerInv, Stopping
<1>2. CASE Joined
  BY <1>1, <1>2 DEF Joined
<1>3. CASE Connected
  BY <1>1, <1>3 DEF Connected, fields, threads
<1>4. CASE \E t \in Thread : Runs(t) \/ Notices(t)
  BY <1>1, <1>4 DEF Runs, Notices, OnlyThreads, fields
<1>5. QED
  BY <1>2, <1>3, <1>4 DEF ViewNext, Callback, Result

(* A step of a thread that has noticed, with its stream and its surface    *)
(* still there.                                                            *)
LEMMA RunShortens ==
  ASSUME ViewTypeOK, PlayerInv, NEW t \in Thread, Runs(t)
  PROVE  /\ sees' = sees
         /\ \A u \in Thread \ {t} : pc'[u] = pc[u]
         /\ Alive(t) /\ (~sees[t].mRun => RunLeft(t)' < RunLeft(t))
<1>1. Alive(t)
  BY DEF Runs, Loop, ReadMjpegFrame, Draw, Alive
<1>2. mIn /\ (pc[t] \in {"read", "draw"} => surface)
  BY <1>1 DEF PlayerInv, Running
<1>3. CASE Loop(t)
  BY <1>1, <1>3 DEF Loop, GoesTo, RunLeft, ViewTypeOK
<1>4. CASE ReadMjpegFrame(t)
  <2>1. PICK next \in {"draw", "loop", "none"} : GoesTo(t, next)
    BY <1>2, <1>4 DEF ReadMjpegFrame
  <2>2. pc[t] = "read" /\ sees' = sees
    BY <1>4 DEF ReadMjpegFrame
  <2>3. QED
    BY <1>1, <2>1, <2>2 DEF GoesTo, RunLeft, ViewTypeOK
<1>5. CASE Draw(t)
  BY <1>1, <1>2, <1>5 DEF Draw, GoesTo, RunLeft, ViewTypeOK
<1>6. QED
  BY <1>3, <1>4, <1>5 DEF Runs

(* The join ends: no step of anybody puts off the end of a thread that has *)
(* seen that it should end.                                                *)
THEOREM JoinEndsHolds == ViewSpec => JoinEnds
<1>1. ViewTypeOK /\ PlayerInv /\ [ViewNext]_viewVars =>
      [ ui # "free" =>
          /\ ~mRun /\ ~mRun'
          /\ \A t \in Thread :
               /\ RunLeft(t) = 0 => RunLeft(t)' = 0
               /\ Notices(t) => ~sees'[t].mRun
               /\ ~sees[t].mRun =>
                    /\ ~sees'[t].mRun
                    /\ RunLeft(t)' <= RunLeft(t)
                    /\ Runs(t) => RunLeft(t)' < RunLeft(t) ]_viewVars
  <2> SUFFICES
        ASSUME ViewTypeOK, PlayerInv, ViewNext, ui # "free"
        PROVE  /\ ~mRun /\ ~mRun'
               /\ \A t \in Thread :
                    /\ RunLeft(t) = 0 => RunLeft(t)' = 0
                    /\ Notices(t) => ~sees'[t].mRun
                    /\ ~sees[t].mRun =>
                         /\ ~sees'[t].mRun
                         /\ RunLeft(t)' <= RunLeft(t)
                         /\ Runs(t) => RunLeft(t)' < RunLeft(t)
    OBVIOUS
  <2>1. /\ ~mRun /\ ~mRun'
        /\ \/ Joined
           \/ UNCHANGED << pc, sees >>
           \/ \E t \in Thread : Runs(t) \/ Notices(t)
    BY Waits
  <2>2. ASSUME NEW t \in Thread
        PROVE  /\ RunLeft(t) \in 0 .. 3
               /\ RunLeft(t) = 0 <=> ~Alive(t)
               /\ pc'[t] = pc[t] => RunLeft(t)' = RunLeft(t)
    BY DEF RunLeft, Alive, ViewTypeOK
  <2>3. ASSUME NEW t \in Thread, Notices(t)
        PROVE  /\ Alive(t) /\ pc' = pc /\ ~sees'[t].mRun
               /\ \A u \in Thread \ {t} : sees'[u] = sees[u]
    BY <2>1, <2>3 DEF Notices, Refresh, Sees, ViewTypeOK
  <2>4. ASSUME NEW t \in Thread, RunLeft(t) = 0 PROVE RunLeft(t)' = 0
    <3>1. CASE Joined
      <4>1. pc'[t] \in {pc[t], "none"}
        BY <3>1 DEF Joined
      <4>2. QED
        BY <2>4, <4>1 DEF RunLeft
    <3>2. CASE UNCHANGED << pc, sees >>
      BY <2>2, <2>4, <3>2
    <3>3. ASSUME NEW u \in Thread, Runs(u) \/ Notices(u)
          PROVE  RunLeft(t)' = 0
      BY <2>2, <2>3, <2>4, <3>3, RunShortens
    <3>4. QED
      BY <2>1, <3>1, <3>2, <3>3
  <2>5. ASSUME NEW t \in Thread, ~sees[t].mRun
        PROVE  /\ ~sees'[t].mRun
               /\ RunLeft(t)' <= RunLeft(t)
               /\ Runs(t) => RunLeft(t)' < RunLeft(t)
    <3>1. ASSUME NEW u \in Thread, Runs(u)
          PROVE  /\ ~sees'[t].mRun
                 /\ RunLeft(t)' <= RunLeft(t)
                 /\ u = t => RunLeft(t)' < RunLeft(t)
      <4>1. RunLeft(t)' \in Int
        BY DEF RunLeft
      <4>2. QED
        BY <2>2, <2>5, <3>1, <4>1, RunShortens
    <3>2. CASE Joined \/ UNCHANGED << pc, sees >>
      <4>1. sees' = sees /\ pc'[t] \in {pc[t], "none"}
        BY <3>2 DEF Joined
      <4>2. RunLeft(t)' <= RunLeft(t)
        BY <4>1, <2>2 DEF RunLeft
      <4>3. QED
        BY <2>5, <3>1, <4>1, <4>2
    <3>3. ASSUME NEW u \in Thread, Notices(u)
          PROVE  ~sees'[t].mRun /\ RunLeft(t)' <= RunLeft(t)
      BY <2>2, <2>3, <2>5, <3>3
    <3>4. QED
      BY <2>1, <3>1, <3>2, <3>3
  <2>6. QED
    BY <2>1, <2>3, <2>4, <2>5
<1>2. QED
  BY <1>1, PlayerInit, PlayerNext, PTL DEF ViewSpec, JoinEnds
=============================================================================
