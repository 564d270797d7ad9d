------- MODULE ClientTransport -------
(****************************************)
(* src/renderer/lib/websocket-transport.ts: the request side shared by the *)
(* desktop window and browsers.  Requests wait for a connection, are sent *)
(* once, and are settled by a result, a timer, an abort or the loss of the *)
(* socket they were sent on. *)
(* *)
(* A socket is shared with the server: up and down hold what is in flight, *)
(* cl and sv are the two ends' view of its state.  A client has one socket *)
(* at a time, so the code's socket generation is the identity of socket. *)
(****************************************)
EXTENDS Naturals, FiniteSets

CONSTANTS
  Clients,        \* transports: one per window or browser tab
  Requests,       \* calls of request()
  Owner,          \* the transport of a request
  Mutations,      \* requests whose command is a mutation
  Conns,          \* sockets
  NoConn,
  OfflineAfter    \* offlineAfterAttempts

ASSUME ClientAssumption ==
  /\ Clients # {}
  /\ Owner \in [Requests -> Clients]
  /\ Mutations \subseteq Requests
  /\ NoConn \notin Conns
  /\ OfflineAfter \in Nat \ {0}

VARIABLES
  client,     \* per transport: state, socket, attempts, whether it stopped, and
              \* due: connect() is to run, from start() or by the reconnect timer
  request,    \* per request: where it is and what its caller was told
  conn        \* the sockets

clientVars == <<client, request>>

Kinds == {"ok", "failed", "timeout", "oversized"}      \* results on the wire

Client == [state : {"connecting", "connected", "reconnecting", "offline",
                    "auth-required", "incompatible-version"},
           socket : Conns \cup {NoConn}, attempts : 0..OfflineAfter,
           due : BOOLEAN, started : BOOLEAN, stopped : BOOLEAN]

Request == [pc : {"idle", "waiting", "ready", "pending", "settled"},
            told : {"none", "ok", "failed", "unknown"}]

\* The close code is kept as far as the client tells codes apart: 1008, or another.
Conn == [owner : Clients, code : {1006, 1008},
         cl : {"none", "connecting", "open", "closing", "closed"},
         sv : {"none", "open", "refused", "closing", "closed"},
         up : SUBSET Requests, down : SUBSET (Requests \X Kinds)]

ClientTypeOK ==
  /\ client \in [Clients -> Client]
  /\ request \in [Requests -> Request]
  /\ conn \in [Conns -> Conn]

AnyClient == CHOOSE c \in Clients : TRUE

UnusedConn == [owner |-> AnyClient, code |-> 1006, cl |-> "none", sv |-> "none",
               up |-> {}, down |-> {}]

ClientInit ==
  /\ client = [c \in Clients |-> [state |-> "connecting", socket |-> NoConn, attempts |-> 0,
                                  due |-> FALSE, started |-> FALSE, stopped |-> FALSE]]
  /\ request = [r \in Requests |-> [pc |-> "idle", told |-> "none"]]
  /\ conn = [k \in Conns |-> UnusedConn]
------------------------------
Open(c) == client[c].socket # NoConn /\ conn[client[c].socket].cl = "open"

Mine(c, pcs) == {r \in Requests : Owner[r] = c /\ request[r].pc \in pcs}

Settled(outcome) == [pc |-> "settled", told |-> outcome]

\* Bug: a lost mutation is reported like any other lost request.
LostForSure(r) == Settled("failed")

\* A rejection that leaves a mutation unconfirmed.
Lost(r) == Settled(IF r \in Mutations THEN "unknown" ELSE "failed")

\* settleResult.  The error that replaces an oversized result says nothing about the work.
Told(r, kind) == CASE kind = "timeout" -> Lost(r)
                   [] kind = "oversized" -> Settled("unknown")
                   [] OTHER -> Settled(kind)

\* rejectPending and rejectConnectionWaiters.
Rejected(c, withWaiters) ==
  [r \in Requests |-> IF r \in Mine(c, {"pending"}) THEN Lost(r)
                      ELSE IF withWaiters /\ r \in Mine(c, {"waiting"}) THEN Settled("failed")
                      ELSE request[r]]

\* A socket both ends are done with is garbage, and its identity can be used again.
ClosedByClient(k) == IF conn[k].sv \in {"none", "closed"} THEN UnusedConn
                     ELSE [conn[k] EXCEPT !.cl = "closed", !.down = {}]

\* connect(): a new socket replaces the lost one.
Connect(c) ==
  /\ ~ client[c].stopped
  /\ client[c].socket = NoConn
  /\ client[c].due
  /\ \E k \in Conns :
       /\ conn[k] = UnusedConn
       /\ conn' = [conn EXCEPT ![k] = [UnusedConn EXCEPT !.owner = c, !.cl = "connecting"]]
       /\ client' = [client EXCEPT ![c].socket = k, ![c].due = FALSE]
  /\ UNCHANGED request

\* request(): start() on the first call, then waitForConnection.
Ask(r) ==
  LET c == Owner[r]
      me == client[c] IN
  /\ request[r].pc = "idle"
  /\ client' = IF me.started \/ me.stopped THEN client
               ELSE [client EXCEPT ![c].started = TRUE, ![c].due = TRUE]
  /\ request' = [request EXCEPT ![r] =
       IF me.state = "connected" /\ Open(c) THEN [@ EXCEPT !.pc = "ready"]
       ELSE IF me.state \in {"auth-required", "incompatible-version"} \/ me.stopped
            THEN Settled("failed")
       ELSE [@ EXCEPT !.pc = "waiting"]]
  /\ UNCHANGED conn

\* The continuation after waitForConnection: sent on the socket of that moment, once.
SendRequest(r) ==
  LET c == Owner[r]
      k == client[c].socket IN
  /\ request[r].pc = "ready"
  /\ IF Open(c)
     THEN /\ request' = [request EXCEPT ![r].pc = "pending"]
          /\ conn' = [conn EXCEPT ![k].up = @ \cup {r}]
     ELSE /\ request' = [request EXCEPT ![r] = Settled("failed")]
          /\ UNCHANGED conn
  /\ UNCHANGED client

\* The timers of a pending request and of one that waits for a connection.
RequestTimesOut(r) ==
  /\ request[r].pc \in {"pending", "waiting"}
  /\ request' = [request EXCEPT ![r] = IF @.pc = "pending" THEN Lost(r) ELSE Settled("failed")]
  /\ UNCHANGED <<client, conn>>

\* The caller's AbortSignal.
CallerAborts(r) ==
  /\ request[r].pc \in {"pending", "waiting", "ready"}
  /\ request' = [request EXCEPT ![r] = Settled("unknown")]
  /\ UNCHANGED <<client, conn>>
------------------------------
\* socket.onopen
SocketOpens(c) ==
  LET k == client[c].socket IN
  /\ ~ client[c].stopped
  /\ k # NoConn /\ conn[k].cl = "connecting" /\ conn[k].sv \in {"open", "refused", "closing"}
  /\ conn' = [conn EXCEPT ![k].cl = "open"]
  /\ client' = [client EXCEPT ![c].state = "connected", ![c].attempts = 0]
  /\ request' = [r \in Requests |-> IF r \in Mine(c, {"waiting"})
                                    THEN [request[r] EXCEPT !.pc = "ready"] ELSE request[r]]

\* socket.onmessage with a result: an unknown id is ignored.
ResultArrives(c) ==
  LET k == client[c].socket IN
  /\ Open(c)
  /\ \E m \in conn[k].down :
       /\ conn' = [conn EXCEPT ![k].down = @ \ {m}]
       /\ request' = IF request[m[1]].pc = "pending"
                     THEN [request EXCEPT ![m[1]] = Told(m[1], m[2])] ELSE request
  /\ UNCHANGED client

\* The heartbeat found no pong since the last ping.
HeartbeatCloses(c) ==
  /\ Open(c)
  /\ conn' = [conn EXCEPT ![client[c].socket].cl = "closing"]
  /\ UNCHANGED <<client, request>>

\* Bug: an offline client no longer schedules a reconnect.
DisconnectedForGood(c, code) ==
  LET k == client[c].socket
      more == client[c].attempts + 1 IN
  /\ k # NoConn /\ conn[k].cl \in {"connecting", "open", "closing"}
  /\ conn' = [conn EXCEPT ![k] = ClosedByClient(k)]
  /\ request' = Rejected(c, ~ client[c].stopped /\ code = 1008)
  /\ client' =
       IF client[c].stopped THEN [client EXCEPT ![c].socket = NoConn]
       ELSE IF code = 1008
       THEN [client EXCEPT ![c].socket = NoConn, ![c].stopped = TRUE,
                           ![c].state = "auth-required"]
       ELSE [client EXCEPT ![c].socket = NoConn, ![c].attempts = more,
                           ![c].due = more < OfflineAfter,
                           ![c].state = IF more >= OfflineAfter THEN "offline"
                                                                ELSE "reconnecting"]

\* socket.onclose: with the code of the close handshake, or 1006 when there was none.
Disconnected(c, code) ==
  LET k == client[c].socket
      more == IF client[c].attempts < OfflineAfter THEN client[c].attempts + 1
                                                   ELSE client[c].attempts IN
  /\ k # NoConn /\ conn[k].cl \in {"connecting", "open", "closing"}
  /\ conn' = [conn EXCEPT ![k] = ClosedByClient(k)]
  /\ request' = Rejected(c, ~ client[c].stopped /\ code = 1008)
  /\ client' =
       IF client[c].stopped THEN [client EXCEPT ![c].socket = NoConn]
       ELSE IF code = 1008
       THEN [client EXCEPT ![c].socket = NoConn, ![c].stopped = TRUE,
                           ![c].state = "auth-required"]
       ELSE [client EXCEPT ![c].socket = NoConn, ![c].attempts = more, ![c].due = TRUE,
                           ![c].state = IF more >= OfflineAfter THEN "offline"
                                                                ELSE "reconnecting"]

SocketCloses(c) ==
  LET k == client[c].socket IN
  /\ k # NoConn
  /\ \E code \in {conn[k].code, 1006} : Disconnected(c, code)

\* markIncompatible(): the socket stays until its close event.
MarkIncompatible(c) ==
  LET k == client[c].socket IN
  /\ client[c].started /\ client[c].state # "incompatible-version"
  /\ client' = [client EXCEPT ![c].stopped = TRUE, ![c].due = FALSE,
                              ![c].state = "incompatible-version"]
  /\ request' = Rejected(c, TRUE)
  /\ conn' = IF Open(c) THEN [conn EXCEPT ![k].cl = "closing"] ELSE conn

\* close()
CloseTransport(c) ==
  LET k == client[c].socket IN
  /\ client' = [client EXCEPT ![c].stopped = TRUE, ![c].due = FALSE, ![c].socket = NoConn]
  /\ request' = Rejected(c, TRUE)
  /\ conn' = IF k = NoConn THEN conn
             ELSE [conn EXCEPT ![k] = ClosedByClient(k)]
==============================
