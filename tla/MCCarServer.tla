----------------------------- MODULE MCCarServer -----------------------------
(***************************************************************************)
(* CarServer with a board and a client, or with two boards.  The program   *)
(* sees its peers only through select, accept, recv and send, the clock    *)
(* only in the watchdog and the reconnection, and a signal only at the top *)
(* of the loop.  So the peers act right before select, which stands for    *)
(* any time since the pass before, and while recv waits for them; the      *)
(* clock ticks where it is read; a signal comes while select would have    *)
(* waited.                                                                 *)
(***************************************************************************)
EXTENDS CarServer

RecvBlocks ==
  \/ BoardInput /\ ~ENABLED BoardStep
  \/ pc = "client" /\ ~ENABLED ClientStep

(* Input on a socket the program has lost the number of is never read. *)
Named == {sd[i] : i \in Boards} \cup {sd_dom}

PeerActs(chunks) ==
  /\ pc = "select" \/ RecvBlocks
  /\ \E f \in Fd \cap Named :
        PeerCloses(f) \/ \E c \in chunks : PeerSends(f, c)

ClientCalls == pc = "select" /\ ClientConnects
MCTick      == pc \in {"watch", "reconnect"} /\ Tick
MCSignal    == pc = "select" /\ Signal

MCPeers == PeerActs(Chunk \ {"none"}) \/ ClientCalls

MCNext == Serve \/ MCPeers \/ MCTick \/ MCSignal

MCSpec == Init /\ [][MCNext]_vars

(* The clock runs whatever the program does; here it is let in only at two *)
(* places of the pass, so that it must be let in if it could again and     *)
(* again.                                                                  *)
MCFairSpec == MCSpec /\ WF_vars(Serve) /\ SF_vars(MCTick)

(* No client, and boards that send frames and versions, which run together *)
(* to noise when the server is slow.                                       *)
BoardsNext == Serve \/ PeerActs({"frame", "version"}) \/ MCTick \/ MCSignal

BoardsSpec     == Init /\ [][BoardsNext]_vars
BoardsFairSpec == BoardsSpec /\ WF_vars(Serve) /\ SF_vars(MCTick)
=============================================================================
