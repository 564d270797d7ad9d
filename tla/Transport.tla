------- MODULE Transport -------
(****************************************)
(* The renderer's transport and the server's, joined by their sockets. *)
(* Messages already sent can outlive the loss of the other end, requests *)
(* settle before, after and without their handlers, and sessions end while *)
(* both go on. *)
(****************************************)
EXTENDS ServerTransport

CONSTANT MaxRestarts    \* bound: how often the server process is replaced

ASSUME TransportAssumption == MaxRestarts \in Nat

VARIABLE restarts

transportVars == <<clientVars, conn, serverVars, restarts>>

TransportTypeOK == ClientTypeOK /\ ServerTypeOK /\ restarts \in 0..MaxRestarts

TransportInit == ClientInit /\ ServerInit /\ restarts = 0

ClientNext ==
  \/ \E r \in Requests : Ask(r) \/ SendRequest(r) \/ RequestTimesOut(r) \/ CallerAborts(r)
  \/ \E c \in Clients : Connect(c) \/ SocketOpens(c) \/ ResultArrives(c) \/ HeartbeatCloses(c)
                        \/ SocketCloses(c) \/ MarkIncompatible(c) \/ CloseTransport(c)

ServerNext ==
  \/ \E k \in Conns : Upgrade(k) \/ UpgradeRejected(k) \/ ServerSocketCloses(k)
  \/ \E k \in Conns, r \in Requests : Receive(k, r)
  \/ \E r \in Requests : HandlerEnds(r) \/ CommandTimesOut(r)
  \/ \E c \in Clients : RevokeInStore(c) \/ RevokeSockets(c)
  \/ PauseForUpdate \/ ResumeAfterUpdate

TransportNext ==
  \/ ClientNext /\ UNCHANGED <<serverVars, restarts>>
  \/ ServerNext /\ UNCHANGED restarts
  \/ /\ restarts < MaxRestarts
     /\ restarts' = restarts + 1
     /\ ServerRestarts

(* Timers fire, and the continuation of a promise runs.  A reachable server *)
(* accepts a connection attempt, once it has been tried often enough. *)
TransportFairness ==
  /\ \A r \in Requests :
       /\ WF_transportVars(SendRequest(r) /\ UNCHANGED <<serverVars, restarts>>)
       /\ WF_transportVars(RequestTimesOut(r) /\ UNCHANGED <<serverVars, restarts>>)
  /\ \A c \in Clients :
       /\ WF_transportVars(Connect(c) /\ UNCHANGED <<serverVars, restarts>>)
       /\ WF_transportVars(/\ client[c].socket # NoConn
                           /\ conn[client[c].socket].cl = "closing" \/ conn[client[c].socket].sv = "closed"
                           /\ SocketCloses(c) /\ UNCHANGED <<serverVars, restarts>>)
       /\ SF_transportVars(SocketOpens(c) /\ UNCHANGED <<serverVars, restarts>>)
  /\ \A k \in Conns :
       /\ SF_transportVars(Upgrade(k) /\ UNCHANGED restarts)
       /\ WF_transportVars(conn[k].cl = "closed" /\ ServerSocketCloses(k) /\ UNCHANGED restarts)

TransportSpec == TransportInit /\ [][TransportNext]_transportVars
TransportFairSpec == TransportSpec /\ TransportFairness
------------------------------
(* What callers are told about mutations is true (RemoteCall): a command is *)
(* never run twice, "ok" is a command that succeeded, and a plain failure *)
(* is one that did not and will not, whatever connection, timer, session or *)
(* process was lost in between.  Unconfirmed errors, aborts and oversized *)
(* results promise nothing. *)
Remote == INSTANCE RemoteCall WITH
  Calls <- Mutations,
  work <- [r \in Mutations |-> handler[r].work],
  told <- [r \in Mutations |-> request[r].told]

AnswersAreTrue == Remote!Spec

(* A pending request was sent on the socket the client still has: no *)
(* request waits for an answer that can no longer reach it. *)
PendingOnLiveSocket ==
  \A r \in Requests :
    request[r].pc = "pending" =>
      /\ client[Owner[r]].socket # NoConn
      /\ conn[client[Owner[r]].socket].cl \in {"open", "closing"}

(* While the registry is paused for an update no handler runs: the server *)
(* can be replaced or rebound without cutting a command in half. *)
UpdateExcludesHandlers ==
  updating => \A r \in Requests : handler[r].work # "running"

(* Neither a lost socket nor an update cuts a request or a command in half. *)
NothingIsCut == PendingOnLiveSocket /\ UpdateExcludesHandlers

(* From the moment a session is gone from the store, nothing is run for it *)
(* and nothing is sent to it, by requests and answers already on their way. *)
NothingForRevoked ==
  [][\A r \in Requests : session[Owner[r]] # "active" =>
       /\ handler'[r].work = "running" => handler[r].work = "running"
       /\ \A k \in Conns : \A kind \in Kinds :
            <<r, kind>> \in conn'[k].down => <<r, kind>> \in conn[k].down]_transportVars

(* Every request is settled. *)
EveryRequestSettles ==
  \A r \in Requests : request[r].pc # "idle" ~> request[r].pc = "settled"

(* A client that lost its connection gets it back, unless it is told to *)
(* stop. *)
Reconnects ==
  \A c \in Clients : client[c].started ~> client[c].stopped \/ client[c].state = "connected"

(* Whatever is lost on the way, requests and connections recover. *)
RequestsRecover == EveryRequestSettles /\ Reconnects
==============================
