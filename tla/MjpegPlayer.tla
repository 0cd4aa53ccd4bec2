----------------------------- MODULE MjpegPlayer -----------------------------
(***************************************************************************)
(* The camera picture of the Android app (MjpegActivity, MjpegView and the *)
(* reading end of MjpegInputStream).  Three kinds of threads share it:     *)
(*                                                                         *)
(*   the UI thread    the callbacks of the activity and of the surface,    *)
(*                    and the results of background tasks, one at a time   *)
(*   DoRead           connects to the camera in the background             *)
(*   MjpegViewThread  reads frames and draws them, while mRun              *)
(*                                                                         *)
(* stopPlayback holds the UI thread until the drawing thread has ended.    *)
(* mRun and surfaceDone are read without a lock: the drawing thread has    *)
(* its own view of them (sees), which follows the fields sooner or later.  *)
(*                                                                         *)
(* Names that begin with View would else be those of module RemoteControl, *)
(* the other half of the app.                                              *)
(***************************************************************************)
EXTENDS Integers, Sequences

CONSTANT Thread          \* the drawing threads there may be at a time

ASSUME MjpegPlayerAssumption == Thread \subseteq Nat \ {0} /\ Thread # {}

null == 0

VARIABLES
  \* what Android decides
  act,           \* where the activity is in its life
  surface,       \* there is a surface to draw on
  \* MjpegActivity
  reads,         \* DoReads: connecting, or with a result for the UI thread
  act_suspending,
  \* MjpegView
  mRun, surfaceDone, suspending,
  mIn,           \* there is a stream, and it is open
  thread,        \* the drawing thread, or null
  \* the threads
  ui,            \* free, or in stopPlayback, called by whom
  pc,            \* where each drawing thread is
  sees,          \* what it sees of mRun and surfaceDone
  \* what went wrong; no step reads it
  crashed,       \* an exception nobody catches
  freedInUse,    \* memory was freed while a frame was decoded into it
  late,          \* a DoRead's result came when the activity was not resumed
  refused        \* a DoRead did not get a stream

fields   == << mRun, surfaceDone, suspending, mIn, thread >>
threads  == << pc, sees >>
troubles == << crashed, freedInUse, late, refused >>
viewVars == << act, surface, reads, act_suspending, fields, ui, threads,
               troubles >>

Alive(t) == pc[t] \notin {"none", "new"}

ViewTypeOK ==
  /\ act \in {"none", "resumed", "paused", "destroyed"}
  /\ surface \in BOOLEAN
  /\ reads \in {<< >>, << "connecting" >>, << "stream" >>, << "failure" >>}
  /\ act_suspending \in BOOLEAN
  /\ mRun \in BOOLEAN /\ surfaceDone \in BOOLEAN /\ suspending \in BOOLEAN
  /\ mIn \in BOOLEAN
  /\ thread \in Thread \cup {null}
  /\ ui \in {"free", "onPause", "surfaceDestroyed"}
  /\ pc \in [Thread -> {"none", "new", "loop", "read", "draw"}]
  /\ sees \in [Thread -> [mRun : BOOLEAN, surfaceDone : BOOLEAN]]
  /\ crashed \in BOOLEAN /\ freedInUse \in BOOLEAN
  /\ late \in BOOLEAN /\ refused \in BOOLEAN

Sees(run, done) == [mRun |-> run, surfaceDone |-> done]

ViewInit ==
  /\ act = "none" /\ surface = FALSE
  /\ reads = << >> /\ act_suspending = FALSE
  /\ mRun = FALSE /\ surfaceDone = FALSE /\ suspending = FALSE
  /\ mIn = FALSE /\ thread = null
  /\ ui = "free"
  /\ pc = [t \in Thread |-> "none"]
  /\ sees = [t \in Thread |-> Sees(FALSE, FALSE)]
  /\ crashed = FALSE /\ freedInUse = FALSE /\ late = FALSE /\ refused = FALSE

-----------------------------------------------------------------------------
(* stopPlayback, MjpegView, lines 220-241: up to the join, and from there. *)

StopPlayback(caller) ==
  /\ suspending' = (suspending \/ mRun)
  /\ mRun' = FALSE
  /\ ui' = caller

(* Mutant of MayGoOn: the thread is told to end, but not waited for. *)
MayGoOnAtOnce == TRUE

MayGoOn == thread # null => ~Alive(thread)

(* After it onPause notes that it stopped the player (line 143), and when  *)
(* surfaceDestroyed returns the surface is gone.                           *)
Joined ==
  /\ ui # "free" /\ MayGoOn
  /\ ui' = "free"
  /\ pc' = [t \in Thread |->
              IF t = thread /\ pc[t] = "new" THEN "none" ELSE pc[t]]
  /\ thread' = null /\ mIn' = FALSE
  /\ act_suspending' = (act_suspending \/ ui = "onPause")
  /\ surface' = (surface /\ ui # "surfaceDestroyed")
  /\ UNCHANGED << act, reads, mRun, surfaceDone, suspending, sees, troubles >>

-----------------------------------------------------------------------------
(* The activity, MjpegActivity. *)

NewThread == CHOOSE t \in Thread : pc[t] = "none"

(* onCreate, lines 61-125, with the view's init. *)
OnCreate ==
  /\ act = "none" /\ act' = "resumed"
  /\ thread' = NewThread /\ pc' = [pc EXCEPT ![NewThread] = "new"]
  /\ reads' = << "connecting" >>
  /\ UNCHANGED << surface, act_suspending, mRun, surfaceDone, suspending, mIn,
                  ui, sees, troubles >>

(* Lines 139-145. *)
OnPause ==
  /\ act = "resumed" /\ act' = "paused"
  /\ IF mRun THEN StopPlayback("onPause")
             ELSE UNCHANGED << suspending, mRun, ui >>
  /\ UNCHANGED << surface, reads, act_suspending, surfaceDone, mIn, thread,
                  threads, troubles >>

(* Mutant of MustRead: a player that was stopped is never started again.   *)
MustReadNever == FALSE

MustRead == act_suspending

(* Lines 128-134. *)
OnResume ==
  /\ act = "paused" /\ act' = "resumed"
  /\ reads' = IF MustRead THEN Append(reads, "connecting") ELSE reads
  /\ act_suspending' = FALSE
  /\ UNCHANGED << surface, fields, ui, threads, troubles >>

(* ImageProc.c: pixeltobmp decodes into rgb, freeCameraMemory frees it.    *)
Decodes(t) == pc[t] = "read"

FreeCameraMemory ==
  freedInUse' = (freedInUse \/ (mIn /\ \E t \in Thread : Decodes(t)))

(* Lines 150-154. *)
OnDestroy ==
  /\ act = "paused" /\ act' = "destroyed"
  /\ FreeCameraMemory
  /\ UNCHANGED << surface, reads, act_suspending, fields, ui, threads, crashed,
                  late, refused >>

(* DoRead, lines 257-275. *)
Connected ==
  /\ reads # << >> /\ Head(reads) = "connecting"
  /\ \E result \in {"stream", "failure"} :
        /\ reads' = << result >> \o Tail(reads)
        /\ refused' = (refused \/ result = "failure")
  /\ UNCHANGED << act, surface, act_suspending, fields, ui, threads, crashed,
                  freedInUse, late >>

Launch(t) ==
  /\ mRun' = TRUE
  /\ thread' = t
  /\ pc' = [pc EXCEPT ![t] = "loop"]
  /\ sees' = [sees EXCEPT ![t] = Sees(TRUE, surfaceDone)]

(* MjpegView, lines 199-206.  A thread can be started only once. *)
StartPlayback ==
  /\ ~suspending
  /\ \/ thread = null /\ Launch(NewThread) /\ UNCHANGED crashed
     \/ thread # null /\ pc[thread] = "new" /\ Launch(thread)
        /\ UNCHANGED crashed
     \/ thread # null /\ pc[thread] # "new" /\ crashed' = TRUE
        /\ mRun' = TRUE /\ UNCHANGED << thread, threads >>
  /\ UNCHANGED suspending

(* Lines 208-219. *)
ResumePlayback ==
  /\ suspending /\ suspending' = FALSE
  /\ Launch(NewThread)
  /\ UNCHANGED crashed

(* onPostExecute, lines 277-286, and setSource, lines 265-271. *)
SetSource ==
  /\ reads # << >> /\ Head(reads) # "connecting"
  /\ reads' = Tail(reads)
  /\ mIn' = (Head(reads) = "stream")
  /\ IF mIn' THEN StartPlayback \/ ResumePlayback
             ELSE UNCHANGED << mRun, suspending, thread, threads, crashed >>
  /\ late' = (late \/ act # "resumed")
  /\ UNCHANGED << act, surface, act_suspending, surfaceDone, ui, freedInUse,
                  refused >>

-----------------------------------------------------------------------------
(* The surface: there while the activity is to be seen. *)

SurfaceCreated ==
  /\ act = "resumed" /\ ~surface
  /\ surface' = TRUE /\ surfaceDone' = TRUE
  /\ UNCHANGED << act, reads, act_suspending, mRun, suspending, mIn, thread,
                  ui, threads, troubles >>

SurfaceDestroyed ==
  /\ act \in {"paused", "destroyed"} /\ surface
  /\ surfaceDone' = FALSE
  /\ StopPlayback("surfaceDestroyed")
  /\ UNCHANGED << act, surface, reads, act_suspending, mIn, thread, threads,
                  troubles >>

(* Whatever runs on the UI thread waits until it is free. *)
Callback ==
  /\ ui = "free"
  /\ \/ OnCreate \/ OnPause \/ OnResume \/ OnDestroy
     \/ SurfaceCreated \/ SurfaceDestroyed

Result == ui = "free" /\ SetSource

-----------------------------------------------------------------------------
(* The drawing thread, MjpegView.MjpegViewThread.run, lines 121-177. *)

OnlyThreads ==
  UNCHANGED << act, surface, reads, act_suspending, fields, ui, freedInUse,
               late, refused >>

(* The fields become visible to it. *)
Refresh(t) ==
  /\ Alive(t)
  /\ sees' = [sees EXCEPT ![t] = Sees(mRun, surfaceDone)]
  /\ UNCHANGED << pc, crashed >>

GoesTo(t, where) == pc' = [pc EXCEPT ![t] = where]

Loop(t) ==
  /\ pc[t] = "loop"
  /\ \/ ~sees[t].mRun /\ GoesTo(t, "none")
     \/ sees[t].mRun /\ sees[t].surfaceDone /\ GoesTo(t, "read")
  /\ UNCHANGED << sees, crashed >>

(* A frame, an IOException or, at the end of the stream or over a frame    *)
(* that cannot be shown, -1.  The camera or the socket's timeout lets the  *)
(* read return.  Without a stream it is a NullPointerException.            *)
ReadMjpegFrame(t) ==
  /\ pc[t] = "read"
  /\ IF mIn
     THEN (\E next \in {"draw", "loop", "none"} : GoesTo(t, next))
          /\ UNCHANGED crashed
     ELSE crashed' = TRUE /\ UNCHANGED pc
  /\ UNCHANGED sees

(* lockCanvas returns null when there is no surface. *)
Draw(t) ==
  /\ pc[t] = "draw"
  /\ IF surface THEN GoesTo(t, "loop") /\ UNCHANGED crashed
                ELSE crashed' = TRUE /\ UNCHANGED pc
  /\ UNCHANGED sees

Runs(t) == (Loop(t) \/ ReadMjpegFrame(t) \/ Draw(t)) /\ OnlyThreads
Notices(t) == Refresh(t) /\ OnlyThreads

-----------------------------------------------------------------------------

ViewNext ==
  /\ ~crashed
  /\ \/ Callback \/ Result \/ Joined \/ Connected
     \/ \E t \in Thread : Runs(t) \/ Notices(t)

ViewSpec == ViewInit /\ [][ViewNext]_viewVars

(* The UI thread and the background get on, the camera answers or times    *)
(* out, and what is written to the fields becomes visible to the drawing   *)
(* thread some day.  (The Java memory model does not promise that of plain *)
(* fields; a virtual machine that keeps them in registers for ever would   *)
(* leave the UI thread in stopPlayback.)                                   *)
ViewFairSpec ==
  /\ ViewSpec
  /\ WF_viewVars(~crashed /\ (Result \/ Joined))
  /\ WF_viewVars(~crashed /\ Connected)
  /\ \A t \in Thread : WF_viewVars(~crashed /\ Runs(t))
                      /\ WF_viewVars(~crashed /\ Notices(t))

-----------------------------------------------------------------------------
(* No order of callbacks, results and thread steps starts a thread twice,  *)
(* reads from a stream that was closed, or draws on a surface that is      *)
(* gone: there is never a second drawing thread, and the one there is has  *)
(* ended before its stream and its surface are taken away.  The native     *)
(* buffer is freed under a thread only if a connection came up after the   *)
(* activity was paused.                                                    *)
NeverCrashes == ~crashed /\ (freedInUse => late)

(* The picture comes back: whenever the activity stays resumed, with a     *)
(* surface, frames are read again and again, unless the last stream ended. *)
(* This holds as long as every connection comes up, and comes up while the *)
(* activity is resumed: one that came up later plays into the pause, is    *)
(* stopped with the surface, and nobody notes that it has to be read again *)
(* (MjpegActivity, line 143, MjpegView, line 259).                         *)
Ended == mRun /\ thread # null /\ ~Alive(thread)

PictureComesBack ==
  []~(late \/ refused) =>
    (<>[](act = "resumed" /\ surface)
       => []<>(Ended \/ \E t \in Thread : pc[t] = "read"))
=============================================================================
