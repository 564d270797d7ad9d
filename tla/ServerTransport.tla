------- MODULE ServerTransport -------
(****************************************)
(* packages/server/src/websocket.ts, the server's end of the sockets, with *)
(* the command registry (src/main/runtime/CommandRegistry.ts) that runs the *)
(* handlers.  A handler outlives the answer to its request when the command *)
(* times out, and outlives its socket when that closes. *)
(* *)
(* Authentication is one flag per client: whether its session is active in *)
(* the store.  Revoking first changes the store, then closes the sockets. *)
(****************************************)
EXTENDS ClientTransport

CONSTANTS
  MaxInFlight,       \* MAX_IN_FLIGHT
  ConnectionLimit    \* connectionLimit

ASSUME ServerAssumption ==
  /\ MaxInFlight \in Nat \ {0} /\ ConnectionLimit \in Nat \ {0}
  /\ IsFiniteSet(Requests)

VARIABLES
  handler,     \* per request: its handler's work, and the socket whose requests map has it
  active,      \* CommandRegistry.activeCommands
  updating,    \* CommandRegistry.updating
  session      \* per client: "active", "revoked" (in the store), "dropped" (sockets too)

serverVars == <<handler, active, updating, session>>

Handler == [work : {"none", "running", "done", "failed"},
            conn : Conns \cup {NoConn}]

ServerTypeOK ==
  /\ handler \in [Requests -> Handler]
  /\ active \in 0..Cardinality(Requests)
  /\ updating \in BOOLEAN
  /\ session \in [Clients -> {"active", "revoked", "dropped"}]

ServerInit ==
  /\ handler = [r \in Requests |-> [work |-> "none", conn |-> NoConn]]
  /\ active = 0
  /\ updating = FALSE
  /\ session = [c \in Clients |-> "active"]

HasSession(k) == session[conn[k].owner] = "active"
InFlight(k) == {r \in Requests : handler[r].conn = k}
Accepted == {k \in Conns : conn[k].sv \in {"open", "closing"}}

\* close() on a socket: nothing when it is closing already.
Closing(cn, code) == IF cn.sv = "open" THEN [cn EXCEPT !.sv = "closing", !.code = code] ELSE cn

ClosedByServer(cn) == IF cn.cl = "closed" THEN UnusedConn
                      ELSE [cn EXCEPT !.sv = "closed", !.up = {}]

\* Bug: an answer is sent without looking at the session again.
SendUnchecked(conns, k, r, kind) ==
  conn' = IF conns[k].sv # "open" THEN conns
          ELSE [conns EXCEPT ![k].down = @ \cup {<<r, kind>>}]

\* send(): canSend, then the send-queue limit.  Oversized results become an error.
Send(conns, k, r, kind) ==
  IF conns[k].sv # "open" THEN conn' = conns
  ELSE IF ~ HasSession(k) THEN conn' = [conns EXCEPT ![k] = Closing(@, 1008)]
  ELSE \/ conn' = [conns EXCEPT ![k].down = @ \cup {<<r, kind>>}]
       \/ kind = "ok" /\ conn' = [conns EXCEPT ![k].down = @ \cup {<<r, "oversized">>}]
       \/ conn' = [conns EXCEPT ![k] = Closing(@, 1006)]
------------------------------
\* upgrade and connected: the limit, then the session.
Upgrade(k) ==
  /\ conn[k].cl = "connecting" /\ conn[k].sv = "none"
  /\ Cardinality(Accepted) < ConnectionLimit
  /\ conn' = IF HasSession(k) THEN [conn EXCEPT ![k].sv = "open"]
             ELSE [conn EXCEPT ![k].sv = "refused", ![k].code = 1008]
  /\ UNCHANGED <<clientVars, serverVars>>

\* message(): the checks in the code's order, then the handler starts.
Receive(k, r) ==
  LET taken == [conn EXCEPT ![k].up = @ \ {r}] IN
  /\ conn[k].sv \in {"open", "closing"} /\ r \in conn[k].up
  /\ \/ \* The session is gone.
        /\ ~ HasSession(k)
        /\ conn' = [taken EXCEPT ![k] = Closing(@, 1008)]
        /\ UNCHANGED serverVars
     \/ \* Refused: the rate, in-flight, size or argument limits, or an update.
        /\ HasSession(k)
        /\ Send(taken, k, r, "failed")
        /\ UNCHANGED serverVars
     \/ /\ HasSession(k)
        /\ Cardinality(InFlight(k)) < MaxInFlight
        /\ ~ updating
        /\ handler' = [handler EXCEPT ![r].work = "running", ![r].conn = k]
        /\ active' = active + 1
        /\ conn' = taken
        /\ UNCHANGED <<updating, session>>
  /\ UNCHANGED clientVars

\* The handler settles; message() answers unless it already answered the timeout.
HandlerEnds(r) ==
  LET k == handler[r].conn IN
  /\ handler[r].work = "running"
  /\ active' = active - 1
  /\ \E end \in {"done", "failed"} :
       /\ handler' = [handler EXCEPT ![r].work = end, ![r].conn = NoConn]
       /\ IF k = NoConn THEN UNCHANGED conn
          ELSE Send(conn, k, r, IF end = "done" THEN "ok" ELSE "failed")
  /\ UNCHANGED <<clientVars, updating, session>>

\* Bug: a command that timed out no longer counts as active.
TimeoutEndsCommand(r) ==
  LET k == handler[r].conn IN
  /\ handler[r].work = "running" /\ k # NoConn
  /\ handler' = [handler EXCEPT ![r].conn = NoConn]
  /\ active' = active - 1
  /\ Send(conn, k, r, "timeout")
  /\ UNCHANGED <<clientVars, updating, session>>

\* withTimeout: the answer goes out and the request's slot is free; the handler runs on.
CommandTimesOut(r) ==
  LET k == handler[r].conn IN
  /\ handler[r].work = "running" /\ k # NoConn
  /\ handler' = [handler EXCEPT ![r].conn = NoConn]
  /\ Send(conn, k, r, "timeout")
  /\ UNCHANGED <<clientVars, active, updating, session>>

\* Bug: an aborted handler is taken for a finished one.
CloseEndsHandlers(k) ==
  /\ conn[k].sv \in {"open", "refused", "closing"}
  /\ conn' = [conn EXCEPT ![k] = ClosedByServer(@)]
  /\ active' = active - Cardinality(InFlight(k))
  /\ handler' = [r \in Requests |-> IF handler[r].conn = k
                                     THEN [handler[r] EXCEPT !.conn = NoConn] ELSE handler[r]]
  /\ UNCHANGED <<clientVars, updating, session>>

\* The server's close event of a socket: its handlers are aborted, and run on until
\* they notice.  What they return has nowhere to go.
ServerSocketCloses(k) ==
  /\ conn[k].sv \in {"open", "refused", "closing"}
  /\ conn' = [conn EXCEPT ![k] = ClosedByServer(@)]
  /\ handler' = [r \in Requests |-> IF handler[r].conn = k
                                     THEN [handler[r] EXCEPT !.conn = NoConn] ELSE handler[r]]
  /\ UNCHANGED <<clientVars, active, updating, session>>

\* A connection attempt the server never accepted ends with the attempt.
UpgradeRejected(k) ==
  /\ conn[k].cl = "connecting" /\ conn[k].sv = "none"
  /\ conn' = [conn EXCEPT ![k].sv = "closed"]
  /\ UNCHANGED <<clientVars, serverVars>>
------------------------------
\* The store forgets the session; from here on hasSession is false.
RevokeInStore(c) ==
  /\ session[c] = "active"
  /\ session' = [session EXCEPT ![c] = "revoked"]
  /\ UNCHANGED <<clientVars, conn, handler, active, updating>>

\* revokeSessions: every socket of the session closes.
RevokeSockets(c) ==
  /\ session[c] = "revoked"
  /\ session' = [session EXCEPT ![c] = "dropped"]
  /\ conn' = [k \in Conns |-> IF conn[k].owner = c THEN Closing(conn[k], 1008) ELSE conn[k]]
  /\ UNCHANGED <<clientVars, handler, active, updating>>

PauseForUpdate ==
  /\ active = 0 /\ ~ updating
  /\ updating' = TRUE
  /\ UNCHANGED <<clientVars, conn, handler, active, session>>

ResumeAfterUpdate ==
  /\ updating
  /\ updating' = FALSE
  /\ UNCHANGED <<clientVars, conn, handler, active, session>>

\* The server process dies and another takes its place: sockets and handlers are gone,
\* what a handler was doing happened or did not.
ServerRestarts ==
  /\ \E ends \in [Requests -> {"done", "failed"}] :
       handler' = [r \in Requests |->
         IF handler[r].work = "running" THEN [handler[r] EXCEPT !.work = ends[r], !.conn = NoConn]
                                        ELSE handler[r]]
  /\ conn' = [k \in Conns |-> IF conn[k].sv \in {"open", "refused", "closing"}
                              THEN [ClosedByServer(conn[k]) EXCEPT !.code = 1006] ELSE conn[k]]
  /\ active' = 0
  /\ updating' = FALSE
  /\ UNCHANGED <<clientVars, session>>
==============================
