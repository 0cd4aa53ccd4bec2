------------------------------ MODULE MCClients ------------------------------
(***************************************************************************)
(* The two programs at the user's end: RemoteControl, with two positions   *)
(* of the stick besides the centre, one of them with a fraction in one     *)
(* offset, and MjpegPlayer, with a drawing thread more than it should have *)
(* at a time.  They share no variable, and so a behaviour moves only one   *)
(* of them, half: the states to look at are the sum of theirs, not the     *)
(* product, and either shows all it can do.                                *)
(***************************************************************************)
EXTENDS RemoteControl, MjpegPlayer

MCOffset == {0, 1, 2, 4}
MCStick  == {<< 0, 0 >>, << 2, 4 >>, << 2, 1 >>}

VARIABLE half

mcVars == << vars, viewVars, half >>

Control(A) == half = "control" /\ A /\ UNCHANGED << viewVars, half >>
View(A)    == half = "view" /\ ~crashed /\ A /\ UNCHANGED << vars, half >>

MCInit == Init /\ ViewInit /\ half \in {"control", "view"}

MCNext == Control(Next) \/ View(ViewNext)

(* FairSpec and ViewFairSpec, each for its half. *)
MCFairSpec ==
  /\ MCInit /\ [][MCNext]_mcVars
  /\ WF_mcVars(Control(Sample)) /\ WF_mcVars(Control(DoPost))
  /\ WF_mcVars(Control(Web)) /\ WF_mcVars(Control(Command))
  /\ WF_mcVars(View(Result \/ Joined)) /\ WF_mcVars(View(Connected))
  /\ \A t \in Thread : WF_mcVars(View(Runs(t))) /\ WF_mcVars(View(Notices(t)))
=============================================================================
