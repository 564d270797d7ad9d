------- MODULE Transport_proofs -------
(****************************************)
(* Proofs about Transport for any clients, requests, sockets and bounds: *)
(* types, what callers are told (the refinement of RemoteCall), what an *)
(* update and a lost socket may cut, and what a revoked session still gets. *)
(****************************************)
EXTENDS Transport, FiniteSetTheorems, TLAPS

------------------------------
(* The invariants. *)

\* A transport's socket is its own until its close event.
SocketOK(c) ==
  LET k == client[c].socket IN
  k # NoConn => conn[k].owner = c /\ conn[k].cl \in {"connecting", "open", "closing"}

\* What is on its way on a socket, and what is run for it, belongs to its owner.
BelongsOK(k, r) ==
  /\ r \in conn[k].up => conn[k].owner = Owner[r]
  /\ handler[r].conn = k => conn[k].owner = Owner[r] /\ conn[k].sv \in {"open", "closing"}

SocketInv ==
  /\ \A c \in Clients : SocketOK(c)
  /\ \A k \in Conns, r \in Requests : BelongsOK(k, r)

\* Where a request is: not sent, on its way once, with its handler, answered.
OnItsWay(r) == \E k \in Conns : r \in conn[k].up
Answered(r, kind) == \E k \in Conns : <<r, kind>> \in conn[k].down

CallOK(r) ==
  /\ request[r].told = "none" <=> request[r].pc # "settled"
  /\ request[r].pc \in {"idle", "waiting", "ready"} =>
       /\ handler[r].work = "none" /\ ~ OnItsWay(r)
       /\ \A kind \in Kinds : ~ Answered(r, kind)
  /\ OnItsWay(r) => handler[r].work = "none" /\ ~ Answered(r, "failed")
  /\ \A j, k \in Conns : r \in conn[j].up /\ r \in conn[k].up => j = k
  /\ Answered(r, "ok") => handler[r].work = "done"
  /\ Answered(r, "failed") => handler[r].work \in {"none", "failed"}
  /\ r \in Mutations /\ request[r].told = "failed" =>
       ~ OnItsWay(r) /\ handler[r].work \in {"none", "failed"}
  /\ handler[r].conn # NoConn => handler[r].work = "running"

CallInv == \A r \in Requests : CallOK(r)

\* The registry counts the handlers that run.
RunningHandlers == {r \in Requests : handler[r].work = "running"}
CountInv == active = Cardinality(RunningHandlers)

IInv == /\ TransportTypeOK /\ SocketInv /\ CallInv /\ CountInv
        /\ PendingOnLiveSocket /\ UpdateExcludesHandlers
------------------------------
(* Types. *)

LEMMA UnusedType == Clients # {} => UnusedConn \in Conn
BY DEF UnusedConn, Conn, AnyClient

LEMMA OwnersExist ==
  ASSUME TransportTypeOK, NEW k \in Conns
  PROVE  UnusedConn \in Conn /\ conn[k] \in Conn /\ conn[k].owner \in Clients
<1>1. conn[k] \in Conn BY DEF TransportTypeOK, ClientTypeOK
<1>2. conn[k].owner \in Clients BY <1>1 DEF Conn
<1> QED BY <1>1, <1>2, UnusedType

LEMMA SettledType == \A r : Lost(r) \in Request /\ Settled("failed") \in Request
                                /\ Settled("unknown") \in Request /\ Settled("ok") \in Request
BY DEF Lost, Settled, Request

LEMMA ToldType == ASSUME NEW r, NEW kind \in Kinds
                  PROVE  Told(r, kind) \in Request
BY SettledType DEF Told, Kinds, Settled, Request, Lost

\* What send() may do to the sockets conns.
LEMMA SendFacts ==
  ASSUME NEW conns \in [Conns -> Conn], NEW k \in Conns, NEW r \in Requests, NEW kind \in Kinds,
         Send(conns, k, r, kind)
  PROVE  /\ conn' \in [Conns -> Conn]
         /\ \A j \in Conns :
              /\ conn'[j].owner = conns[j].owner /\ conn'[j].cl = conns[j].cl
              /\ conn'[j].up = conns[j].up
              /\ \/ conn'[j].sv = conns[j].sv
                 \/ conns[j].sv = "open" /\ conn'[j].sv = "closing"
              /\ \/ conn'[j].down = conns[j].down
                 \/ /\ j = k /\ HasSession(k)
                    /\ \E x \in {kind, "oversized"} :
                         /\ x = kind \/ kind = "ok"
                         /\ conn'[j].down = conns[j].down \cup {<<r, x>>}
<1> DEFINE closed(code) == [conns[k] EXCEPT !.sv = "closing", !.code = code]
           with(x) == [conns[k] EXCEPT !.down = @ \cup {<<r, x>>}]
<1>1. conns[k] \in Conn OBVIOUS
<1>2. ASSUME NEW code \in {1006, 1008}, conn' = [conns EXCEPT ![k] = Closing(@, code)]
      PROVE  /\ conn' \in [Conns -> Conn]
             /\ \A j \in Conns :
                  /\ conn'[j].owner = conns[j].owner /\ conn'[j].cl = conns[j].cl
                  /\ conn'[j].up = conns[j].up /\ conn'[j].down = conns[j].down
                  /\ \/ conn'[j].sv = conns[j].sv
                     \/ conns[j].sv = "open" /\ conn'[j].sv = "closing"
  <2>1. Closing(conns[k], code) \in Conn
    <3>1. [conns[k] EXCEPT !.sv = "closing", !.code = code] \in Conn
      <4>1. [conns[k] EXCEPT !.sv = "closing"] \in Conn BY <1>1 DEF Conn
      <4>2. \A x \in Conn : [x EXCEPT !.code = code] \in Conn BY DEF Conn
      <4>3. [[conns[k] EXCEPT !.sv = "closing"] EXCEPT !.code = code] \in Conn BY <4>1, <4>2
      <4> QED BY <4>3
    <3> QED BY <1>1, <3>1 DEF Closing
  <2>2. conn'[k] = Closing(conns[k], code) /\ \A j \in Conns \ {k} : conn'[j] = conns[j] BY <1>2
  <2> QED BY <1>1, <1>2, <2>1, <2>2 DEF Closing, Conn
<1>3. ASSUME NEW x \in {kind, "oversized"}, x = kind \/ kind = "ok", HasSession(k),
             conn' = [conns EXCEPT ![k].down = @ \cup {<<r, x>>}]
      PROVE  /\ conn' \in [Conns -> Conn]
             /\ \A j \in Conns :
                  /\ conn'[j].owner = conns[j].owner /\ conn'[j].cl = conns[j].cl
                  /\ conn'[j].up = conns[j].up /\ conn'[j].sv = conns[j].sv
                  /\ j # k => conn'[j].down = conns[j].down
                  /\ j = k => conn'[j].down = conns[j].down \cup {<<r, x>>}
  <2>1. with(x) \in Conn BY <1>1 DEF Conn, Kinds
  <2>2. conn'[k] = with(x) /\ \A j \in Conns \ {k} : conn'[j] = conns[j] BY <1>3
  <2> QED BY <1>1, <1>3, <2>1, <2>2 DEF Conn
<1>4. CASE conn' = conns BY <1>4
<1> QED BY <1>2, <1>3, <1>4 DEF Send

LEMMA ClientTypeStep ==
  ASSUME TransportTypeOK, ClientNext
  PROVE  ClientTypeOK'
<1> USE DEF TransportTypeOK, ClientTypeOK
<1>1. ASSUME NEW c \in Clients
      PROVE  /\ \A w : Rejected(c, w) \in [Requests -> Request]
             /\ \A k \in Conns : ClosedByClient(k) \in Conn
  <2>1. \A w : Rejected(c, w) \in [Requests -> Request] BY SettledType DEF Rejected
  <2>2. ASSUME NEW k \in Conns
        PROVE  ClosedByClient(k) \in Conn
    <3>1. UnusedConn \in Conn /\ conn[k] \in Conn BY OwnersExist
    <3>2. [conn[k] EXCEPT !.cl = "closed", !.down = {}] \in Conn
      <4>1. [conn[k] EXCEPT !.cl = "closed"] \in Conn BY <3>1 DEF Conn
      <4>2. \A x \in Conn : [x EXCEPT !.down = {}] \in Conn BY DEF Conn
      <4>3. [[conn[k] EXCEPT !.cl = "closed"] EXCEPT !.down = {}] \in Conn BY <4>1, <4>2
      <4> QED BY <4>3
    <3> QED BY <3>1, <3>2 DEF ClosedByClient
  <2> QED BY <2>1, <2>2
<1>2. ASSUME NEW r \in Requests, Ask(r) \/ SendRequest(r) \/ RequestTimesOut(r) \/ CallerAborts(r)
      PROVE  ClientTypeOK'
  <2> DEFINE c == Owner[r]
  <2>1. c \in Clients /\ client[c] \in Client /\ request[r] \in Request BY ClientAssumption
  <2>2. \A pc \in {"ready", "waiting", "pending"} : [request[r] EXCEPT !.pc = pc] \in Request
    BY <2>1 DEF Request
  <2>3. [client[c] EXCEPT !.started = TRUE, !.due = TRUE] \in Client BY <2>1 DEF Client
  <2>4. \A k \in Conns : [conn[k] EXCEPT !.up = @ \cup {r}] \in Conn BY DEF Conn
  <2>5. Open(c) => client[c].socket \in Conns BY <2>1 DEF Open, Client
  <2>6. CASE Ask(r) BY <2>1, <2>2, <2>3, <2>6, SettledType DEF Ask
  <2>7. CASE SendRequest(r) BY <2>1, <2>2, <2>4, <2>5, <2>7, SettledType DEF SendRequest
  <2>8. CASE RequestTimesOut(r) \/ CallerAborts(r)
    BY <2>8, SettledType DEF RequestTimesOut, CallerAborts
  <2> QED BY <1>2, <2>6, <2>7, <2>8
<1>3. ASSUME NEW c \in Clients,
             \/ Connect(c) \/ SocketOpens(c) \/ ResultArrives(c) \/ HeartbeatCloses(c)
             \/ SocketCloses(c) \/ MarkIncompatible(c) \/ CloseTransport(c)
      PROVE  ClientTypeOK'
  <2>1. client[c] \in Client /\ client[c].socket \in Conns \cup {NoConn}
        /\ client[c].attempts \in 0..OfflineAfter
    BY DEF Client
  <2>2. CASE Connect(c)
    <3>1. PICK k \in Conns : /\ conn' = [conn EXCEPT ![k] = [UnusedConn EXCEPT !.owner = c, !.cl = "connecting"]]
                             /\ client' = [client EXCEPT ![c].socket = k, ![c].due = FALSE]
      BY <2>2 DEF Connect
    <3>2. [UnusedConn EXCEPT !.owner = c, !.cl = "connecting"] \in Conn
      <4>1. UnusedConn \in Conn BY UnusedType
      <4>2. [UnusedConn EXCEPT !.owner = c] \in Conn BY <4>1 DEF Conn
      <4>3. \A x \in Conn : [x EXCEPT !.cl = "connecting"] \in Conn BY DEF Conn
      <4>4. [[UnusedConn EXCEPT !.owner = c] EXCEPT !.cl = "connecting"] \in Conn BY <4>2, <4>3
      <4> QED BY <4>4
    <3>3. [client[c] EXCEPT !.socket = k, !.due = FALSE] \in Client BY <2>1 DEF Client
    <3> QED BY <2>2, <3>1, <3>2, <3>3 DEF Connect
  <2>3. CASE SocketOpens(c)
    <3>1. [client[c] EXCEPT !.state = "connected", !.attempts = 0] \in Client
      <4>1. 0 \in 0..OfflineAfter BY ClientAssumption
      <4> QED BY <2>1, <4>1 DEF Client
    <3>2. \A k \in Conns : [conn[k] EXCEPT !.cl = "open"] \in Conn BY DEF Conn
    <3>3. \A r \in Requests : [request[r] EXCEPT !.pc = "ready"] \in Request BY DEF Request
    <3> QED BY <2>1, <2>3, <3>1, <3>2, <3>3 DEF SocketOpens
  <2>4. CASE ResultArrives(c)
    <3> DEFINE k == client[c].socket
    <3>1. k \in Conns BY <2>1, <2>4 DEF ResultArrives, Open
    <3>2. PICK m \in conn[k].down :
            /\ conn' = [conn EXCEPT ![k].down = @ \ {m}]
            /\ request' = IF request[m[1]].pc = "pending"
                          THEN [request EXCEPT ![m[1]] = Told(m[1], m[2])] ELSE request
      BY <2>4 DEF ResultArrives
    <3>3. m \in Requests \X Kinds /\ [conn[k] EXCEPT !.down = @ \ {m}] \in Conn BY <3>1 DEF Conn
    <3>4. m[1] \in Requests /\ Told(m[1], m[2]) \in Request BY <3>3, ToldType
    <3> QED BY <2>4, <3>1, <3>2, <3>3, <3>4 DEF ResultArrives
  <2>5. CASE HeartbeatCloses(c)
    <3>1. client[c].socket \in Conns BY <2>1, <2>5 DEF HeartbeatCloses, Open
    <3>2. \A k \in Conns : [conn[k] EXCEPT !.cl = "closing"] \in Conn BY DEF Conn
    <3> QED BY <2>5, <3>1, <3>2 DEF HeartbeatCloses
  <2>6. CASE SocketCloses(c)
    <3> DEFINE k == client[c].socket
               more == IF client[c].attempts < OfflineAfter THEN client[c].attempts + 1
                                                            ELSE client[c].attempts
    <3>1. PICK code \in {conn[k].code, 1006} : Disconnected(c, code) BY <2>6 DEF SocketCloses
    <3>2. k \in Conns BY <2>1, <2>6 DEF SocketCloses
    <3>3. more \in 0..OfflineAfter BY <2>1, ClientAssumption
    <3>4. /\ [client[c] EXCEPT !.socket = NoConn] \in Client
          /\ [client[c] EXCEPT !.socket = NoConn, !.stopped = TRUE, !.state = "auth-required"] \in Client
          /\ [client[c] EXCEPT !.socket = NoConn, !.attempts = more, !.due = TRUE,
                                !.state = IF more >= OfflineAfter THEN "offline" ELSE "reconnecting"] \in Client
      BY <2>1, <3>3 DEF Client
    <3>5. client' \in [Clients -> Client] BY <3>1, <3>4 DEF Disconnected
    <3> QED BY <1>1, <3>1, <3>2, <3>5 DEF Disconnected
  <2>7. CASE MarkIncompatible(c)
    <3>1. Open(c) => client[c].socket \in Conns BY <2>1 DEF Open
    <3>2. \A k \in Conns : [conn[k] EXCEPT !.cl = "closing"] \in Conn BY DEF Conn
    <3>3. [client[c] EXCEPT !.stopped = TRUE, !.due = FALSE, !.state = "incompatible-version"] \in Client
      BY <2>1 DEF Client
    <3> QED BY <1>1, <2>7, <3>1, <3>2, <3>3 DEF MarkIncompatible
  <2>8. CASE CloseTransport(c)
    <3>1. [client[c] EXCEPT !.stopped = TRUE, !.due = FALSE, !.socket = NoConn] \in Client
      BY <2>1 DEF Client
    <3> QED BY <1>1, <2>1, <2>8, <3>1 DEF CloseTransport
  <2> QED BY <1>3, <2>2, <2>3, <2>4, <2>5, <2>6, <2>7, <2>8
<1> QED BY <1>2, <1>3 DEF ClientNext

\* What a close event leaves of a socket, on the server's side and on the client's.
LEMMA ClosedFacts ==
  ASSUME TransportTypeOK, NEW k \in Conns
  PROVE  /\ ClosedByServer(conn[k]) \in Conn
         /\ conn[k].cl = "closed" => ClosedByServer(conn[k]) = UnusedConn
         /\ conn[k].cl # "closed" => /\ ClosedByServer(conn[k]).owner = conn[k].owner
                                    /\ ClosedByServer(conn[k]).cl = conn[k].cl
                                    /\ ClosedByServer(conn[k]).sv = "closed"
                                    /\ ClosedByServer(conn[k]).up = {}
                                    /\ ClosedByServer(conn[k]).down = conn[k].down
         /\ ClosedByClient(k) \in Conn
         /\ conn[k].sv \in {"none", "closed"} => ClosedByClient(k) = UnusedConn
         /\ conn[k].sv \notin {"none", "closed"} => /\ ClosedByClient(k).owner = conn[k].owner
                                                  /\ ClosedByClient(k).cl = "closed"
                                                  /\ ClosedByClient(k).sv = conn[k].sv
                                                  /\ ClosedByClient(k).up = conn[k].up
                                                  /\ ClosedByClient(k).down = {}
<1>1. UnusedConn \in Conn /\ conn[k] \in Conn BY OwnersExist
<1>2. [conn[k] EXCEPT !.sv = "closed", !.up = {}] \in Conn
  <2>1. [conn[k] EXCEPT !.sv = "closed"] \in Conn BY <1>1 DEF Conn
  <2>2. \A x \in Conn : [x EXCEPT !.up = {}] \in Conn BY DEF Conn
  <2>3. [[conn[k] EXCEPT !.sv = "closed"] EXCEPT !.up = {}] \in Conn BY <2>1, <2>2
  <2> QED BY <2>3
<1>3. [conn[k] EXCEPT !.cl = "closed", !.down = {}] \in Conn
  <2>1. [conn[k] EXCEPT !.cl = "closed"] \in Conn BY <1>1 DEF Conn
  <2>2. \A x \in Conn : [x EXCEPT !.down = {}] \in Conn BY DEF Conn
  <2>3. [[conn[k] EXCEPT !.cl = "closed"] EXCEPT !.down = {}] \in Conn BY <2>1, <2>2
  <2> QED BY <2>3
<1> QED BY <1>1, <1>2, <1>3 DEF ClosedByServer, ClosedByClient, Conn

\* An answer the server sends: a refusal of a request it takes off the socket, or the outcome
\* of the handler, and only for an active session.
Sent(k, r, kind) ==
  /\ HasSession(k)
  /\ \/ /\ r \in conn[k].up /\ r \notin conn'[k].up
        /\ kind = "failed" /\ handler'[r] = handler[r]
     \/ /\ handler[r].conn = k /\ handler[r].work = "running"
        /\ kind = "ok" => handler'[r].work = "done"
        /\ kind = "failed" => handler'[r].work = "failed"

\* What the server's steps may do to a socket: it does not move to another client, nothing new
\* is on its way up, an answer may be added, and while a handler is attached the socket is there.
Accepting(sv) == sv \in {"open", "closing"}

ServerMove(k) ==
  /\ \/ conn[k].cl = "closed" /\ conn'[k] = UnusedConn
     \/ /\ conn'[k].owner = conn[k].owner /\ conn'[k].cl = conn[k].cl
        /\ conn'[k].up \subseteq conn[k].up
  /\ \A r \in Requests, kind \in Kinds :
       <<r, kind>> \in conn'[k].down => <<r, kind>> \in conn[k].down \/ Sent(k, r, kind)
  /\ \/ Accepting(conn[k].sv) => Accepting(conn'[k].sv) /\ conn'[k].owner = conn[k].owner
     \/ \A r \in Requests : handler'[r].conn # k

\* A socket with another state, and with another state and code.
WithSv(cn, sv) == [cn EXCEPT !.sv = sv]
WithCode(cn, code) == [cn EXCEPT !.code = code]
WithBoth(cn, sv, code) == [cn EXCEPT !.sv = sv, !.code = code]

\* Its other parts are the same.
SameOtherwise(cn, next) ==
  /\ next \in Conn
  /\ next.owner = cn.owner /\ next.cl = cn.cl
  /\ next.up = cn.up /\ next.down = cn.down

LEMMA WithFacts ==
  ASSUME NEW cn \in Conn, NEW sv \in {"open", "refused", "closing", "closed"}, NEW code \in {1006, 1008}
  PROVE  /\ SameOtherwise(cn, WithSv(cn, sv)) /\ WithSv(cn, sv).sv = sv
         /\ SameOtherwise(cn, WithCode(cn, code)) /\ WithCode(cn, code).sv = cn.sv
         /\ SameOtherwise(cn, WithBoth(cn, sv, code)) /\ WithBoth(cn, sv, code).sv = sv
<1>1. [cn EXCEPT !.sv = sv] \in Conn BY DEF Conn
<1>2. [cn EXCEPT !.code = code] \in Conn BY DEF Conn
<1>3. [cn EXCEPT !.sv = sv, !.code = code] \in Conn
  <2>1. \A x \in Conn : [x EXCEPT !.code = code] \in Conn BY DEF Conn
  <2>2. [[cn EXCEPT !.sv = sv] EXCEPT !.code = code] \in Conn BY <1>1, <2>1
  <2> QED BY <2>2
<1> QED BY <1>1, <1>2, <1>3 DEF WithSv, WithCode, WithBoth, SameOtherwise, Conn

LEMMA ClosingFacts ==
  ASSUME NEW cn \in Conn, NEW code \in {1006, 1008}
  PROVE  /\ SameOtherwise(cn, Closing(cn, code))
         /\ Closing(cn, code).sv = IF cn.sv = "open" THEN "closing" ELSE cn.sv
<1>1. Closing(cn, code) = IF cn.sv = "open" THEN WithBoth(cn, "closing", code) ELSE cn
  BY DEF Closing, WithBoth
<1>2. SameOtherwise(cn, cn) BY DEF SameOtherwise
<1> QED BY <1>1, <1>2, WithFacts

LEMMA ClosedMove ==
  ASSUME TransportTypeOK, NEW k \in Conns, conn'[k] = ClosedByServer(conn[k]),
         \A r \in Requests : handler'[r].conn # k
  PROVE  ServerMove(k)
<1>1. CASE conn[k].cl = "closed"
  <2>1. conn'[k] = UnusedConn /\ UnusedConn.down = {} BY <1>1, ClosedFacts DEF UnusedConn
  <2> QED BY <1>1, <2>1 DEF ServerMove
<1>2. CASE conn[k].cl # "closed" BY <1>2, ClosedFacts DEF ServerMove
<1> QED BY <1>1, <1>2

LEMMA ServerConns ==
  ASSUME TransportTypeOK, CallInv, ServerNext \/ ServerRestarts
  PROVE  conn' \in [Conns -> Conn] /\ \A k \in Conns : ServerMove(k)
<1> DEFINE Goal == conn' \in [Conns -> Conn] /\ \A k \in Conns : ServerMove(k)
<1>1. conn \in [Conns -> Conn] /\ handler \in [Requests -> Handler]
  BY DEF TransportTypeOK, ClientTypeOK, ServerTypeOK
<1>2. ASSUME NEW conns \in [Conns -> Conn], NEW k \in Conns, NEW r \in Requests, NEW kind \in Kinds,
             Send(conns, k, r, kind),
             \A j \in Conns : /\ conns[j].owner = conn[j].owner /\ conns[j].cl = conn[j].cl
                              /\ conns[j].sv = conn[j].sv /\ conns[j].up \subseteq conn[j].up
                              /\ conns[j].down = conn[j].down,
             \A x : HasSession(k) /\ (x = kind \/ (kind = "ok" /\ x = "oversized")) => Sent(k, r, x)
      PROVE  Goal
  <2>1. \A j \in Conns :
          /\ conn'[j].owner = conn[j].owner /\ conn'[j].cl = conn[j].cl
          /\ conn'[j].up \subseteq conn[j].up
          /\ Accepting(conn[j].sv) => Accepting(conn'[j].sv)
          /\ \/ conn'[j].down = conn[j].down
             \/ /\ j = k /\ HasSession(k)
                /\ \E x : /\ x = kind \/ (kind = "ok" /\ x = "oversized")
                          /\ conn'[j].down = conn[j].down \cup {<<r, x>>}
    <3>1. /\ \A j \in Conns :
               /\ conn'[j].owner = conns[j].owner /\ conn'[j].cl = conns[j].cl
               /\ conn'[j].up = conns[j].up
               /\ \/ conn'[j].sv = conns[j].sv
                  \/ conns[j].sv = "open" /\ conn'[j].sv = "closing"
               /\ \/ conn'[j].down = conns[j].down
                  \/ /\ j = k /\ HasSession(k)
                     /\ \E x \in {kind, "oversized"} :
                          /\ x = kind \/ kind = "ok"
                          /\ conn'[j].down = conns[j].down \cup {<<r, x>>}
      BY <1>2, SendFacts
    <3>2. ASSUME NEW j \in Conns
          PROVE  /\ conn'[j].owner = conn[j].owner /\ conn'[j].cl = conn[j].cl
                 /\ conn'[j].up \subseteq conn[j].up
                 /\ Accepting(conn[j].sv) => Accepting(conn'[j].sv)
                 /\ \/ conn'[j].down = conn[j].down
                    \/ /\ j = k /\ HasSession(k)
                       /\ \E x : /\ x = kind \/ (kind = "ok" /\ x = "oversized")
                                 /\ conn'[j].down = conn[j].down \cup {<<r, x>>}
      <4>1. /\ conns[j].owner = conn[j].owner /\ conns[j].cl = conn[j].cl
            /\ conns[j].sv = conn[j].sv /\ conns[j].up \subseteq conn[j].up
            /\ conns[j].down = conn[j].down
        BY <1>2
      <4>2. /\ conn'[j].owner = conn[j].owner /\ conn'[j].cl = conn[j].cl
            /\ conn'[j].up \subseteq conn[j].up
        BY <3>1, <4>1
      <4>3. Accepting(conn[j].sv) => Accepting(conn'[j].sv) BY <3>1, <4>1 DEF Accepting
      <4>4. \/ conn'[j].down = conns[j].down
            \/ /\ j = k /\ HasSession(k)
               /\ \E x \in {kind, "oversized"} :
                    /\ x = kind \/ kind = "ok"
                    /\ conn'[j].down = conns[j].down \cup {<<r, x>>}
        BY <3>1
      <4>5. CASE \E x \in {kind, "oversized"} :
                    /\ x = kind \/ kind = "ok"
                    /\ conn'[j].down = conns[j].down \cup {<<r, x>>}
        <5>1. PICK x \in {kind, "oversized"} :
                    /\ x = kind \/ kind = "ok"
                    /\ conn'[j].down = conn[j].down \cup {<<r, x>>}
          BY <4>1, <4>5
        <5>2. x = kind \/ (kind = "ok" /\ x = "oversized") BY <5>1
        <5> QED BY <4>1, <4>2, <4>3, <4>4, <5>1, <5>2
      <4> QED BY <4>1, <4>2, <4>3, <4>4, <4>5
    <3> QED BY <3>2
  <2>2. ASSUME NEW j \in Conns, NEW q \in Requests, NEW what \in Kinds,
               <<q, what>> \in conn'[j].down, <<q, what>> \notin conn[j].down
        PROVE  Sent(j, q, what)
    BY <1>2, <2>1, <2>2
  <2>3. conn' \in [Conns -> Conn] BY <1>2, SendFacts
  <2> QED BY <2>1, <2>2, <2>3 DEF ServerMove
<1>3. CASE conn' = conn BY <1>1, <1>3 DEF ServerMove
<1>4. ASSUME NEW k \in Conns, NEW cn \in Conn, cn.owner = conn[k].owner, cn.cl = conn[k].cl,
             cn.up \subseteq conn[k].up, cn.down = conn[k].down,
             Accepting(conn[k].sv) => Accepting(cn.sv),
             conn' = [j \in Conns |-> IF j = k THEN cn ELSE conn[j]]
      PROVE  Goal
  BY <1>1, <1>4 DEF ServerMove
<1>5. \A k \in Conns : conn[k] \in Conn BY <1>1
<1>6. ASSUME NEW k \in Conns, Upgrade(k) \/ UpgradeRejected(k)
      PROVE  Goal
  <2>1. conn[k].sv = "none" /\ conn[k] \in Conn BY <1>1, <1>6 DEF Upgrade, UpgradeRejected
  <2> DEFINE put(cn) == [j \in Conns |-> IF j = k THEN cn ELSE conn[j]]
  <2>2. \/ conn' = put(WithSv(conn[k], "open")) \/ conn' = put(WithSv(conn[k], "closed"))
        \/ conn' = put(WithBoth(conn[k], "refused", 1008))
    <3>1. CASE conn' = [conn EXCEPT ![k].sv = "refused", ![k].code = 1008]
      <4>1. conn'[k] = WithBoth(conn[k], "refused", 1008) BY <1>1, <3>1 DEF WithBoth
      <4>2. \A j \in Conns \ {k} : conn'[j] = conn[j] BY <1>1, <3>1
      <4>3. conn' = [j \in Conns |-> conn'[j]] BY <1>1, <3>1
      <4> QED BY <4>1, <4>2, <4>3
    <3>2. CASE conn' = [conn EXCEPT ![k].sv = "open"] \/ conn' = [conn EXCEPT ![k].sv = "closed"]
      BY <1>1, <3>2 DEF WithSv
    <3> QED BY <1>6, <3>1, <3>2 DEF Upgrade, UpgradeRejected
  <2>3. ASSUME NEW cn \in Conn, SameOtherwise(conn[k], cn), conn' = put(cn)
        PROVE  Goal
    BY <1>4, <2>1, <2>3 DEF SameOtherwise, Accepting
  <2> QED BY <2>1, <2>2, <2>3, WithFacts DEF SameOtherwise
<1>7. ASSUME NEW k \in Conns, ServerSocketCloses(k)
      PROVE  Goal
  <2>1. conn' = [conn EXCEPT ![k] = ClosedByServer(@)] BY <1>7 DEF ServerSocketCloses
  <2>2. \A r \in Requests : handler'[r].conn # k
    <3>1. NoConn # k BY ClientAssumption
    <3> QED BY <1>1, <1>7, <3>1 DEF ServerSocketCloses, Handler
  <2>3. ServerMove(k)
    <3>1. conn'[k] = ClosedByServer(conn[k]) BY <1>1, <2>1
    <3> QED BY <2>2, <3>1, ClosedMove
  <2> QED BY <1>1, <2>1, <2>3, ClosedFacts DEF ServerMove
<1>8. ASSUME NEW k \in Conns, NEW r \in Requests, Receive(k, r)
      PROVE  Goal
  <2> DEFINE mine == [conn[k] EXCEPT !.up = @ \ {r}]
             taken == [conn EXCEPT ![k].up = @ \ {r}]
  <2>1. mine \in Conn /\ taken = [conn EXCEPT ![k] = mine] /\ taken \in [Conns -> Conn]
        /\ taken[k] = mine
    <3>1. mine \in Conn BY <1>1 DEF Conn
    <3>2. taken = [conn EXCEPT ![k] = mine] OBVIOUS
    <3> QED BY <1>1, <3>1, <3>2
  <2>2. /\ mine.owner = conn[k].owner /\ mine.cl = conn[k].cl /\ mine.sv = conn[k].sv
        /\ mine.up \subseteq conn[k].up /\ mine.down = conn[k].down
    BY <1>1 DEF Conn
  <2> HIDE DEF mine, taken
  <2>3. CASE conn' = [taken EXCEPT ![k] = Closing(@, 1008)]
    <3>1. conn' = [j \in Conns |-> IF j = k THEN Closing(mine, 1008) ELSE conn[j]]
      <4>1. conn'[k] = Closing(mine, 1008) BY <2>1, <2>3
      <4>2. \A j \in Conns \ {k} : conn'[j] = conn[j] BY <1>1, <2>1, <2>3
      <4>3. conn' = [j \in Conns |-> conn'[j]] BY <2>1, <2>3
      <4> QED BY <4>1, <4>2, <4>3
    <3>2. /\ Closing(mine, 1008) \in Conn
          /\ Closing(mine, 1008).owner = mine.owner /\ Closing(mine, 1008).cl = mine.cl
          /\ Closing(mine, 1008).up = mine.up /\ Closing(mine, 1008).down = mine.down
          /\ Accepting(mine.sv) => Accepting(Closing(mine, 1008).sv)
      BY <2>1, ClosingFacts DEF SameOtherwise, Accepting
    <3> QED BY <1>4, <2>1, <2>2, <3>1, <3>2
  <2>4. CASE Send(taken, k, r, "failed") /\ UNCHANGED serverVars
    <3>1. \A j \in Conns : j # k => taken[j] = conn[j] BY <1>1, <2>1
    <3>2. r \in conn[k].up /\ r \notin conn'[k].up
      <4>1. conn'[k].up = mine.up
        <5>1. "failed" \in Kinds BY DEF Kinds
        <5>2. Send(taken, k, r, "failed") /\ taken \in [Conns -> Conn] BY <2>1, <2>4
        <5>3. \A j \in Conns : conn'[j].up = taken[j].up BY <5>1, <5>2, SendFacts
        <5> QED BY <2>1, <5>3
      <4>2. mine.up = conn[k].up \ {r} BY <1>1 DEF mine, Conn
      <4> QED BY <1>8, <4>1, <4>2 DEF Receive
    <3>3. HasSession(k) => Sent(k, r, "failed") BY <2>4, <3>2 DEF Sent, serverVars
    <3> QED BY <1>2, <2>1, <2>2, <2>4, <3>1, <3>2, <3>3 DEF Kinds
  <2>5. CASE conn' = taken
    <3>1. conn' = [j \in Conns |-> IF j = k THEN mine ELSE conn[j]] BY <1>1, <2>1, <2>5
    <3> QED BY <1>4, <2>1, <2>2, <3>1
  <2> QED BY <1>8, <2>3, <2>4, <2>5 DEF Receive, taken
<1>9. ASSUME NEW r \in Requests, HandlerEnds(r) \/ CommandTimesOut(r)
      PROVE  Goal
  <2> DEFINE k == handler[r].conn
  <2>1. k \in Conns \cup {NoConn} BY <1>1 DEF Handler
  <2>2. CASE conn' = conn BY <1>3, <2>2
  <2>3. ASSUME NEW kind \in Kinds, Send(conn, k, r, kind), k # NoConn,
               kind = "ok" => handler'[r].work = "done", kind = "failed" => handler'[r].work = "failed"
        PROVE  Goal
    <3>1. \A x : HasSession(k) /\ (x = kind \/ (kind = "ok" /\ x = "oversized")) => Sent(k, r, x)
      BY <1>9, <2>3 DEF Sent, HandlerEnds, CommandTimesOut
    <3> QED BY <1>1, <1>2, <2>1, <2>3, <3>1
  <2>4. CASE HandlerEnds(r)
    <3>1. PICK end \in {"done", "failed"} :
            /\ handler' = [handler EXCEPT ![r].work = end, ![r].conn = NoConn]
            /\ IF k = NoConn THEN UNCHANGED conn
               ELSE Send(conn, k, r, IF end = "done" THEN "ok" ELSE "failed")
      BY <2>4 DEF HandlerEnds
    <3>2. handler'[r].work = end BY <1>1, <3>1 DEF Handler
    <3>3. CASE end = "done" BY <2>2, <2>3, <3>1, <3>2, <3>3 DEF Kinds
    <3>4. CASE end = "failed" BY <2>2, <2>3, <3>1, <3>2, <3>4 DEF Kinds
    <3> QED BY <3>3, <3>4
  <2>5. CASE CommandTimesOut(r) BY <2>3, <2>5 DEF CommandTimesOut, Kinds
  <2> QED BY <1>9, <2>4, <2>5
<1>10. ASSUME NEW c \in Clients, RevokeSockets(c)
       PROVE  Goal
  <2>1. ASSUME NEW k \in Conns
        PROVE  conn'[k] \in Conn /\ ServerMove(k)
    <3>1. conn'[k] \in {conn[k], Closing(conn[k], 1008)} /\ conn[k] \in Conn
      BY <1>5, <1>10 DEF RevokeSockets
    <3> QED BY <3>1, ClosingFacts DEF ServerMove, Accepting, SameOtherwise
  <2> QED BY <1>10, <2>1 DEF RevokeSockets
<1>11. CASE ServerRestarts
  <2>1. ASSUME NEW k \in Conns
        PROVE  conn'[k] \in Conn /\ ServerMove(k)
    <3>1. conn[k].sv \notin {"open", "refused", "closing"} => conn'[k] = conn[k]
      BY <1>11 DEF ServerRestarts
    <3>2. conn[k].sv \in {"open", "refused", "closing"} =>
            conn'[k] = [ClosedByServer(conn[k]) EXCEPT !.code = 1006]
      BY <1>11 DEF ServerRestarts
    <3>3. \A r \in Requests : handler'[r].conn # k
      <4>1. ASSUME NEW r \in Requests
            PROVE  handler'[r].conn = NoConn
        <5>1. handler[r] \in Handler /\ (handler[r].work # "running" => handler[r].conn = NoConn)
          BY <1>1 DEF CallInv, CallOK
        <5>2. PICK ends \in [Requests -> {"done", "failed"}] :
                handler' = [q \in Requests |->
                  IF handler[q].work = "running"
                  THEN [handler[q] EXCEPT !.work = ends[q], !.conn = NoConn] ELSE handler[q]]
          BY <1>11 DEF ServerRestarts
        <5>3. CASE handler[r].work = "running" BY <5>1, <5>2, <5>3 DEF Handler
        <5>4. CASE handler[r].work # "running" BY <5>1, <5>2, <5>4
        <5> QED BY <5>3, <5>4
      <4> QED BY <4>1, ClientAssumption
    <3>4. WithCode(UnusedConn, 1006) = UnusedConn BY DEF UnusedConn, WithCode
    <3>5. UnusedConn.down = {} BY DEF UnusedConn
    <3>6. CASE conn[k].sv \in {"open", "refused", "closing"}
      <4>1. ClosedByServer(conn[k]) \in Conn BY ClosedFacts
      <4>2. conn'[k] = WithCode(ClosedByServer(conn[k]), 1006) BY <3>2, <3>6 DEF WithCode
      <4>3. CASE conn[k].cl = "closed"
        BY <3>3, <3>4, <3>5, <4>1, <4>2, <4>3, ClosedFacts, OwnersExist DEF ServerMove
      <4>4. CASE conn[k].cl # "closed"
        <5>1. SameOtherwise(ClosedByServer(conn[k]), conn'[k]) BY <4>1, <4>2, WithFacts
        <5> QED BY <3>3, <4>4, <5>1, ClosedFacts DEF ServerMove, SameOtherwise
      <4> QED BY <4>3, <4>4
    <3> QED BY <1>5, <3>1, <3>6 DEF ServerMove
  <2> QED BY <1>11, <2>1 DEF ServerRestarts
<1> QED BY <1>3, <1>6, <1>7, <1>8, <1>9, <1>10, <1>11
     DEF ServerNext, RevokeInStore, PauseForUpdate, ResumeAfterUpdate

\* What the server's steps may do to a handler.
HandlerMove(r) ==
  /\ handler'[r] \in Handler
  /\ \/ handler'[r] = handler[r]
     \/ handler'[r].work = handler[r].work /\ handler'[r].conn = NoConn
     \/ /\ handler[r].work = "running" /\ handler'[r].work \in {"done", "failed"}
        /\ handler'[r].conn = NoConn
     \/ \E k \in Conns :
          /\ r \in conn[k].up /\ r \notin conn'[k].up
          /\ HasSession(k) /\ Accepting(conn[k].sv) /\ ~ updating
          /\ handler'[r].work = "running" /\ handler'[r].conn = k

LEMMA ServerHandlers ==
  ASSUME TransportTypeOK, ServerNext \/ ServerRestarts
  PROVE  /\ handler' \in [Requests -> Handler] /\ \A r \in Requests : HandlerMove(r)
         /\ updating' \in BOOLEAN /\ session' \in [Clients -> {"active", "revoked", "dropped"}]
<1> DEFINE Goal == /\ handler' \in [Requests -> Handler] /\ \A r \in Requests : HandlerMove(r)
                   /\ updating' \in BOOLEAN /\ session' \in [Clients -> {"active", "revoked", "dropped"}]
<1>1. /\ handler \in [Requests -> Handler] /\ updating \in BOOLEAN /\ conn \in [Conns -> Conn]
      /\ session \in [Clients -> {"active", "revoked", "dropped"}]
  BY DEF TransportTypeOK, ClientTypeOK, ServerTypeOK
<1>2. CASE /\ handler' = handler /\ updating' \in BOOLEAN
           /\ session' \in [Clients -> {"active", "revoked", "dropped"}]
  BY <1>1, <1>2 DEF HandlerMove
<1>3. ASSUME NEW k \in Conns, NEW r \in Requests, Receive(k, r)
      PROVE  Goal
  <2>1. CASE UNCHANGED serverVars BY <1>1, <1>2, <2>1 DEF serverVars
  <2>2. CASE /\ HasSession(k) /\ ~ updating
             /\ handler' = [handler EXCEPT ![r].work = "running", ![r].conn = k]
             /\ conn' = [conn EXCEPT ![k].up = @ \ {r}] /\ UNCHANGED <<updating, session>>
    <3>1. r \in conn[k].up /\ Accepting(conn[k].sv) BY <1>3 DEF Receive, Accepting
    <3>2. r \notin conn'[k].up BY <1>1, <2>2 DEF Conn
    <3>3. handler' \in [Requests -> Handler] /\ handler'[r].work = "running" /\ handler'[r].conn = k
          /\ \A q \in Requests \ {r} : handler'[q] = handler[q]
      BY <1>1, <2>2 DEF Handler
    <3> QED BY <1>1, <2>2, <3>1, <3>2, <3>3 DEF HandlerMove
  <2> QED BY <1>3, <2>1, <2>2 DEF Receive
<1>4. ASSUME NEW r \in Requests, HandlerEnds(r) \/ CommandTimesOut(r)
      PROVE  Goal
  <2>1. /\ handler[r].work = "running" /\ UNCHANGED <<updating, session>>
        /\ \/ handler' = [handler EXCEPT ![r].conn = NoConn]
           \/ \E end \in {"done", "failed"} :
                handler' = [handler EXCEPT ![r].work = end, ![r].conn = NoConn]
    BY <1>4 DEF HandlerEnds, CommandTimesOut
  <2>2. /\ handler' \in [Requests -> Handler] /\ handler'[r].conn = NoConn
        /\ handler'[r].work \in {"running", "done", "failed"}
        /\ \A q \in Requests \ {r} : handler'[q] = handler[q]
    BY <1>1, <2>1 DEF Handler
  <2> QED BY <1>1, <2>1, <2>2 DEF HandlerMove
<1>5. ASSUME NEW k \in Conns, ServerSocketCloses(k)
      PROVE  Goal
  <2>1. ASSUME NEW r \in Requests
        PROVE  handler'[r] \in {handler[r], [handler[r] EXCEPT !.conn = NoConn]}
               /\ [handler[r] EXCEPT !.conn = NoConn] \in Handler
    BY <1>1, <1>5 DEF ServerSocketCloses, Handler
  <2> QED BY <1>1, <1>5, <2>1 DEF ServerSocketCloses, HandlerMove, Handler
<1>6. CASE ServerRestarts
  <2>1. PICK ends \in [Requests -> {"done", "failed"}] :
          handler' = [r \in Requests |->
            IF handler[r].work = "running" THEN [handler[r] EXCEPT !.work = ends[r], !.conn = NoConn]
                                           ELSE handler[r]]
    BY <1>6 DEF ServerRestarts
  <2>2. ASSUME NEW r \in Requests
        PROVE  handler'[r] \in Handler /\ HandlerMove(r)
    BY <1>1, <2>1 DEF Handler, HandlerMove
  <2> QED BY <1>1, <1>6, <2>1, <2>2 DEF ServerRestarts
<1> QED BY <1>1, <1>2, <1>3, <1>4, <1>5, <1>6
     DEF ServerNext, Upgrade, UpgradeRejected, RevokeInStore, RevokeSockets, PauseForUpdate,
         ResumeAfterUpdate, serverVars

LEMMA ServerRequests == ServerNext \/ ServerRestarts => UNCHANGED clientVars
BY DEF ServerNext, ServerRestarts, Upgrade, UpgradeRejected, Receive, HandlerEnds, CommandTimesOut,
       ServerSocketCloses, RevokeInStore, RevokeSockets, PauseForUpdate, ResumeAfterUpdate

------------------------------
(* The client's steps. *)

\* What they may do to a socket.
Sending(k, r) == /\ request[r].pc = "ready" /\ request'[r].pc = "pending"
                 /\ Open(Owner[r]) /\ k = client[Owner[r]].socket

ClientMove(k) ==
  /\ conn'[k].down \subseteq conn[k].down
  /\ \A r \in Requests : r \in conn'[k].up =>
       conn'[k].owner = conn[k].owner /\ (r \in conn[k].up \/ Sending(k, r))
  /\ Accepting(conn[k].sv) => conn'[k].sv = conn[k].sv /\ conn'[k].owner = conn[k].owner

\* And to a request: it comes closer to being sent, is sent, is given up, or is answered.
Unsent(pc) == pc \in {"idle", "waiting", "ready"}

RequestMove(r) ==
  \/ request'[r] = request[r]
  \/ /\ request[r].pc \in {"idle", "waiting"}
     /\ request'[r].pc \in {"waiting", "ready"} /\ request'[r].told = request[r].told
  \/ /\ request[r].pc = "ready" /\ Open(Owner[r])
     /\ request'[r].pc = "pending" /\ request'[r].told = request[r].told
  \/ Unsent(request[r].pc) /\ request'[r] = Settled("failed")
  \/ request[r].pc = "pending" /\ request'[r] = Lost(r)
  \/ request[r].pc # "settled" /\ request'[r] = Settled("unknown")
  \/ request[r].pc = "pending" /\ \E kind \in Kinds : Answered(r, kind) /\ request'[r] = Told(r, kind)

LEMMA RejectedFacts ==
  ASSUME TransportTypeOK, NEW c \in Clients, NEW w, request' = Rejected(c, w), NEW r \in Requests
  PROVE  /\ RequestMove(r)
         /\ request'[r].pc = "pending" => request[r].pc = "pending" /\ Owner[r] # c
         /\ request'[r] = request[r] \/ request'[r].pc = "settled"
<1>1. \/ Owner[r] = c /\ request[r].pc = "pending" /\ request'[r] = Lost(r)
      \/ ~ (Owner[r] = c /\ request[r].pc = "pending") /\ request'[r] = request[r]
      \/ request[r].pc = "waiting" /\ request'[r] = Settled("failed")
  BY DEF Rejected, Mine
<1> QED BY <1>1 DEF RequestMove, Unsent, Lost, Settled

\* A step that leaves the socket k alone, or changes its client's end only.
LEMMA SameMove == \A k \in Conns : conn'[k] = conn[k] => ClientMove(k)
BY DEF ClientMove

LEMMA ClosedClientMove ==
  ASSUME TransportTypeOK, NEW k \in Conns, conn'[k] = ClosedByClient(k)
  PROVE  ClientMove(k)
<1>1. CASE conn[k].sv \in {"none", "closed"}
  <2>1. conn'[k] = UnusedConn /\ UnusedConn.down = {} /\ UnusedConn.up = {}
    BY <1>1, ClosedFacts DEF UnusedConn
  <2> QED BY <1>1, <2>1 DEF ClientMove, Accepting
<1>2. CASE conn[k].sv \notin {"none", "closed"} BY <1>2, ClosedFacts DEF ClientMove
<1> QED BY <1>1, <1>2

\* What is the same of the state of a client's socket.
CallStep(r) == Ask(r) \/ SendRequest(r) \/ RequestTimesOut(r) \/ CallerAborts(r)

LEMMA CallMoves ==
  ASSUME TransportTypeOK, NEW r \in Requests, CallStep(r)
  PROVE  /\ \A q \in Requests : RequestMove(q) /\ (request'[q].pc = "pending" =>
              request[q].pc = "pending" \/ (q = r /\ Open(Owner[r])))
         /\ \A k \in Conns : ClientMove(k) /\ conn'[k].cl = conn[k].cl
                               /\ conn'[k].owner = conn[k].owner
         /\ \A c \in Clients : client'[c].socket = client[c].socket
<1>1. /\ request \in [Requests -> Request] /\ conn \in [Conns -> Conn]
      /\ client \in [Clients -> Client] /\ Owner[r] \in Clients
  BY ClientAssumption DEF TransportTypeOK, ClientTypeOK
<1>2. ASSUME NEW q \in Requests
      PROVE  RequestMove(q) /\ (request'[q].pc = "pending" =>
               request[q].pc = "pending" \/ (q = r /\ Open(Owner[r])))
  <2>1. CASE q # r
    <3>1. request'[q] = request[q]
      BY <1>1, <2>1 DEF CallStep, Ask, SendRequest, RequestTimesOut, CallerAborts
    <3> QED BY <3>1 DEF RequestMove
  <2>2. CASE q = r /\ Ask(r)
    <3>1. /\ request[r].pc = "idle"
          /\ \/ request'[r] = [request[r] EXCEPT !.pc = "ready"]
             \/ request'[r] = [request[r] EXCEPT !.pc = "waiting"]
             \/ request'[r] = Settled("failed")
      BY <1>1, <2>2 DEF Ask
    <3> QED BY <1>1, <2>2, <3>1 DEF RequestMove, Unsent, Request, Settled
  <2>3. CASE q = r /\ SendRequest(r)
    <3>1. /\ request[r].pc = "ready"
          /\ \/ Open(Owner[r]) /\ request'[r] = [request[r] EXCEPT !.pc = "pending"]
             \/ request'[r] = Settled("failed")
      BY <1>1, <2>3 DEF SendRequest
    <3> QED BY <1>1, <2>3, <3>1 DEF RequestMove, Unsent, Request, Settled
  <2>4. CASE q = r /\ (RequestTimesOut(r) \/ CallerAborts(r))
    BY <1>1, <2>4 DEF RequestTimesOut, CallerAborts, RequestMove, Unsent, Settled, Lost
  <2> QED BY <2>1, <2>2, <2>3, <2>4 DEF CallStep
<1>3. ASSUME NEW k \in Conns
      PROVE  ClientMove(k) /\ conn'[k].cl = conn[k].cl /\ conn'[k].owner = conn[k].owner
  <2>1. CASE conn'[k] = conn[k] BY <2>1, SameMove
  <2>2. CASE SendRequest(r) /\ Open(Owner[r]) /\ k = client[Owner[r]].socket
    <3>1. conn'[k] = [conn[k] EXCEPT !.up = @ \cup {r}] /\ Sending(k, r)
      BY <1>1, <2>2 DEF SendRequest, Sending, Request
    <3>2. /\ conn'[k].up = conn[k].up \cup {r} /\ conn'[k].down = conn[k].down
          /\ conn'[k].owner = conn[k].owner /\ conn'[k].sv = conn[k].sv /\ conn'[k].cl = conn[k].cl
      BY <1>1, <3>1 DEF Conn
    <3> QED BY <3>1, <3>2 DEF ClientMove
  <2> QED BY <1>1, <2>1, <2>2 DEF CallStep, Ask, SendRequest, RequestTimesOut, CallerAborts
<1>4. \A c \in Clients : client'[c].socket = client[c].socket
  BY <1>1 DEF CallStep, Ask, SendRequest, RequestTimesOut, CallerAborts, Client
<1> QED BY <1>2, <1>3, <1>4

\* The pending requests of one client.
Live(c) == \A r \in Requests : Owner[r] = c /\ request[r].pc = "pending" =>
             client[c].socket # NoConn /\ conn[client[c].socket].cl \in {"open", "closing"}

\* A step of one client touches its own socket only, or one nobody uses.
OwnSocketOnly(c) ==
  /\ \A d \in Clients \ {c} : client'[d].socket = client[d].socket
  /\ \A k \in Conns : k # client[c].socket /\ conn[k].cl # "none" => conn'[k] = conn[k]
  /\ \A r \in Requests : request'[r].pc = "pending" => request[r].pc = "pending"

LEMMA LiveFacts == PendingOnLiveSocket <=> \A c \in Clients : Live(c)
BY ClientAssumption DEF PendingOnLiveSocket, Live

LEMMA OtherClients ==
  ASSUME TransportTypeOK, SocketInv, PendingOnLiveSocket, NEW c \in Clients, OwnSocketOnly(c),
         NEW d \in Clients, d # c
  PROVE  SocketOK(d)' /\ Live(d)'
<1> DEFINE k == client[d].socket
<1>1. k \in Conns \cup {NoConn} /\ client'[d].socket = k
  BY DEF TransportTypeOK, ClientTypeOK, Client, OwnSocketOnly
<1>2. SocketOK(d) /\ SocketOK(c) BY DEF SocketInv
<1>3. k # NoConn => conn'[k] = conn[k] BY <1>1, <1>2 DEF SocketOK, OwnSocketOnly
<1>4. Live(d) BY LiveFacts
<1>5. SocketOK(d)' BY <1>1, <1>2, <1>3 DEF SocketOK
<1>6. Live(d)' BY <1>1, <1>3, <1>4 DEF Live, OwnSocketOnly
<1> QED BY <1>5, <1>6

SocketStep(c) == Connect(c) \/ SocketOpens(c) \/ ResultArrives(c) \/ HeartbeatCloses(c)
                 \/ SocketCloses(c) \/ MarkIncompatible(c) \/ CloseTransport(c)

LEMMA ClosedLive ==
  ASSUME TransportTypeOK, NEW c \in Clients, NEW w, request' = Rejected(c, w),
         client[c].socket # NoConn => conn' = [conn EXCEPT ![client[c].socket] = ClosedByClient(client[c].socket)],
         client[c].socket = NoConn => conn' = conn,
         \A d \in Clients \ {c} : client'[d].socket = client[d].socket,
         client'[c].socket = NoConn
  PROVE  /\ OwnSocketOnly(c) /\ SocketOK(c)' /\ Live(c)'
         /\ \A r \in Requests : RequestMove(r)
         /\ \A k \in Conns : ClientMove(k)
<1>1. conn \in [Conns -> Conn] /\ client[c].socket \in Conns \cup {NoConn}
  BY DEF TransportTypeOK, ClientTypeOK, Client
<1>2. OwnSocketOnly(c) BY <1>1, RejectedFacts DEF OwnSocketOnly
<1>3. SocketOK(c)' /\ Live(c)' BY RejectedFacts DEF SocketOK, Live
<1>4. ASSUME NEW k \in Conns
      PROVE  ClientMove(k)
  <2>1. conn'[k] = conn[k] \/ conn'[k] = ClosedByClient(k) BY <1>1
  <2> QED BY <2>1, SameMove, ClosedClientMove
<1> QED BY <1>2, <1>3, <1>4, RejectedFacts

\* A socket whose client's end changes state.
WithCl(cn, cl) == [cn EXCEPT !.cl = cl]

LEMMA WithClMove ==
  ASSUME TransportTypeOK, NEW k \in Conns, NEW cl \in {"open", "closing"},
         conn' = [conn EXCEPT ![k] = WithCl(conn[k], cl)]
  PROVE  /\ \A j \in Conns : ClientMove(j)
         /\ \A j \in Conns : j # k => conn'[j] = conn[j]
         /\ conn'[k].cl = cl /\ conn'[k].owner = conn[k].owner
<1>1. conn \in [Conns -> Conn] /\ conn[k] \in Conn BY DEF TransportTypeOK, ClientTypeOK
<1>2. conn'[k] = WithCl(conn[k], cl) /\ \A j \in Conns : j # k => conn'[j] = conn[j] BY <1>1
<1>3. /\ WithCl(conn[k], cl).cl = cl /\ WithCl(conn[k], cl).owner = conn[k].owner
      /\ WithCl(conn[k], cl).up = conn[k].up /\ WithCl(conn[k], cl).down = conn[k].down
      /\ WithCl(conn[k], cl).sv = conn[k].sv
  BY <1>1 DEF WithCl, Conn
<1>4. ClientMove(k) BY <1>2, <1>3 DEF ClientMove
<1> QED BY <1>2, <1>3, <1>4, SameMove

LEMMA SocketMoves ==
  ASSUME TransportTypeOK, SocketInv, PendingOnLiveSocket, NEW c \in Clients, SocketStep(c)
  PROVE  /\ OwnSocketOnly(c) /\ SocketOK(c)' /\ Live(c)'
         /\ \A r \in Requests : RequestMove(r)
         /\ \A k \in Conns : ClientMove(k)
<1> DEFINE Goal == /\ OwnSocketOnly(c) /\ SocketOK(c)' /\ Live(c)'
                   /\ \A r \in Requests : RequestMove(r)
                   /\ \A k \in Conns : ClientMove(k)
           k == client[c].socket
<1>1. /\ request \in [Requests -> Request] /\ conn \in [Conns -> Conn]
      /\ client \in [Clients -> Client] /\ client[c] \in Client /\ k \in Conns \cup {NoConn}
  BY DEF TransportTypeOK, ClientTypeOK, Client
<1>2. SocketOK(c) /\ Live(c) BY LiveFacts DEF SocketInv
<1>3. CASE Connect(c)
  <2>1. PICK j \in Conns :
          /\ conn[j] = UnusedConn
          /\ conn' = [conn EXCEPT ![j] = [UnusedConn EXCEPT !.owner = c, !.cl = "connecting"]]
          /\ client' = [client EXCEPT ![c].socket = j, ![c].due = FALSE]
    BY <1>3 DEF Connect
  <2>2. /\ client'[c].socket = j /\ k = NoConn /\ request' = request
        /\ \A d \in Clients \ {c} : client'[d] = client[d]
    BY <1>1, <1>3, <2>1 DEF Connect, Client
  <2>3. /\ conn'[j].owner = c /\ conn'[j].cl = "connecting" /\ conn'[j].up = {} /\ conn'[j].down = {}
        /\ conn[j].cl = "none" /\ conn[j].sv = "none"
        /\ \A i \in Conns \ {j} : conn'[i] = conn[i]
    BY <1>1, <2>1 DEF UnusedConn
  <2>4. \A i \in Conns : ClientMove(i) BY <2>3, SameMove DEF ClientMove, Accepting
  <2>5. SocketOK(c)' /\ Live(c)' /\ OwnSocketOnly(c)
    BY <1>2, <2>2, <2>3 DEF SocketOK, Live, OwnSocketOnly
  <2> QED BY <2>2, <2>4, <2>5 DEF RequestMove
<1>4. CASE SocketOpens(c)
  <2>1. k \in Conns /\ conn' = [conn EXCEPT ![k] = WithCl(conn[k], "open")]
    BY <1>1, <1>4 DEF SocketOpens, WithCl
  <2>2. \A d \in Clients : client'[d].socket = client[d].socket
    BY <1>1, <1>4 DEF SocketOpens, Client
  <2>3. ASSUME NEW r \in Requests
        PROVE  RequestMove(r) /\ (request'[r].pc = "pending" => request[r].pc = "pending")
    BY <1>1, <1>4 DEF SocketOpens, Mine, Request, RequestMove
  <2> QED BY <1>1, <1>2, <2>1, <2>2, <2>3, WithClMove DEF SocketOK, Live, OwnSocketOnly
<1>5. CASE ResultArrives(c)
  <2>1. PICK m \in conn[k].down :
          /\ conn' = [conn EXCEPT ![k].down = @ \ {m}]
          /\ request' = IF request[m[1]].pc = "pending"
                        THEN [request EXCEPT ![m[1]] = Told(m[1], m[2])] ELSE request
    BY <1>5 DEF ResultArrives
  <2>2. k \in Conns /\ client' = client BY <1>1, <1>5 DEF ResultArrives, Open
  <2>3. m[1] \in Requests /\ m[2] \in Kinds /\ <<m[1], m[2]>> = m BY <1>1, <2>2 DEF Conn
  <2>4. /\ conn'[k].down \subseteq conn[k].down /\ conn'[k].up = conn[k].up
        /\ conn'[k].owner = conn[k].owner /\ conn'[k].sv = conn[k].sv /\ conn'[k].cl = conn[k].cl
        /\ \A i \in Conns \ {k} : conn'[i] = conn[i]
    BY <1>1, <2>1, <2>2 DEF Conn
  <2>5. Told(m[1], m[2]).pc = "settled" BY DEF Told, Lost, Settled
  <2>6. ASSUME NEW r \in Requests
        PROVE  RequestMove(r) /\ (request'[r].pc = "pending" => request[r].pc = "pending")
    <3>1. CASE r # m[1] \/ request[m[1]].pc # "pending"
      <4>1. request'[r] = request[r] BY <1>1, <2>1, <3>1
      <4> QED BY <4>1 DEF RequestMove
    <3>2. CASE r = m[1] /\ request[m[1]].pc = "pending"
      <4>1. request'[r] = Told(r, m[2]) BY <1>1, <2>1, <3>2
      <4>2. Answered(r, m[2]) BY <2>2, <2>3, <3>2 DEF Answered
      <4> QED BY <2>3, <2>5, <3>2, <4>1, <4>2 DEF RequestMove
    <3> QED BY <3>1, <3>2
  <2>7. \A i \in Conns : ClientMove(i) BY <2>4, SameMove DEF ClientMove
  <2> QED BY <1>2, <2>2, <2>4, <2>6, <2>7 DEF SocketOK, Live, OwnSocketOnly
<1>6. CASE HeartbeatCloses(c)
  <2>1. k \in Conns /\ conn' = [conn EXCEPT ![k] = WithCl(conn[k], "closing")]
        /\ client' = client /\ request' = request
    BY <1>1, <1>6 DEF HeartbeatCloses, Open, WithCl
  <2> QED BY <1>1, <1>2, <2>1, WithClMove DEF SocketOK, Live, OwnSocketOnly, RequestMove
<1>7. CASE SocketCloses(c)
  <2>1. PICK code \in {conn[k].code, 1006} : Disconnected(c, code) BY <1>7 DEF SocketCloses
  <2>2. /\ \A d \in Clients \ {c} : client'[d].socket = client[d].socket
        /\ client'[c].socket = NoConn
    BY <1>1, <2>1 DEF Disconnected, Client
  <2>3. PICK w : /\ k # NoConn /\ conn' = [conn EXCEPT ![k] = ClosedByClient(k)]
                 /\ request' = Rejected(c, w)
    BY <2>1 DEF Disconnected
  <2>4. /\ client[c].socket # NoConn =>
             conn' = [conn EXCEPT ![client[c].socket] = ClosedByClient(client[c].socket)]
        /\ client[c].socket = NoConn => conn' = conn
    BY <2>3
  <2>5. request' = Rejected(c, w) BY <2>3
  <2>6. Goal BY <2>2, <2>4, <2>5, ClosedLive
  <2> QED BY <2>6
<1>8. CASE MarkIncompatible(c)
  <2>1. \A d \in Clients : client'[d].socket = client[d].socket
    BY <1>1, <1>8 DEF MarkIncompatible, Client
  <2>2. request' = Rejected(c, TRUE) BY <1>8 DEF MarkIncompatible
  <2>3. OwnSocketOnly(c) /\ SocketOK(c)' /\ \A i \in Conns : ClientMove(i)
    <3>1. CASE Open(c)
      <4>1. k \in Conns /\ conn' = [conn EXCEPT ![k] = WithCl(conn[k], "closing")]
        BY <1>1, <1>8, <3>1 DEF MarkIncompatible, Open, WithCl
      <4>2. /\ \A j \in Conns : ClientMove(j)
            /\ \A j \in Conns : j # k => conn'[j] = conn[j]
            /\ conn'[k].cl = "closing" /\ conn'[k].owner = conn[k].owner
        BY <4>1, WithClMove
      <4>3. OwnSocketOnly(c) BY <2>1, <2>2, <4>2, RejectedFacts DEF OwnSocketOnly
      <4>4. SocketOK(c)' BY <1>2, <2>1, <4>1, <4>2 DEF SocketOK
      <4> QED BY <4>2, <4>3, <4>4
    <3>2. CASE ~ Open(c)
      <4>1. conn' = conn BY <1>8, <3>2 DEF MarkIncompatible
      <4> QED BY <1>2, <2>1, <2>2, <4>1, SameMove, RejectedFacts DEF SocketOK, OwnSocketOnly
    <3> QED BY <3>1, <3>2
  <2>4. Live(c)' BY <2>2, RejectedFacts DEF Live
  <2> QED BY <2>2, <2>3, <2>4, RejectedFacts
<1>9. CASE CloseTransport(c)
  <2>1. /\ \A d \in Clients \ {c} : client'[d].socket = client[d].socket
        /\ client'[c].socket = NoConn
    BY <1>1, <1>9 DEF CloseTransport, Client
  <2> QED BY <1>9, <2>1, ClosedLive DEF CloseTransport
<1> QED BY <1>3, <1>4, <1>5, <1>6, <1>7, <1>8, <1>9 DEF SocketStep

\* A step of the clients.
ClientStep == ClientNext /\ UNCHANGED <<serverVars, restarts>>

LEMMA ClientMoves ==
  ASSUME TransportTypeOK, SocketInv, PendingOnLiveSocket, ClientStep
  PROVE  /\ \A r \in Requests : RequestMove(r)
         /\ \A k \in Conns : ClientMove(k)
         /\ \A c \in Clients : SocketOK(c)'
         /\ PendingOnLiveSocket'
<1>1. ASSUME NEW r \in Requests, CallStep(r)
      PROVE  /\ \A c \in Clients : SocketOK(c)'
             /\ PendingOnLiveSocket'
  <2>1. ASSUME NEW c \in Clients
        PROVE  SocketOK(c)'
    <3>1. SocketOK(c) /\ client[c].socket \in Conns \cup {NoConn} /\ client'[c].socket = client[c].socket
      BY <1>1, CallMoves DEF SocketInv, TransportTypeOK, ClientTypeOK, Client
    <3>2. \A k \in Conns : conn'[k].cl = conn[k].cl /\ conn'[k].owner = conn[k].owner
      BY <1>1, CallMoves
    <3> QED BY <3>1, <3>2 DEF SocketOK
  <2>2. ASSUME NEW q \in Requests, request'[q].pc = "pending"
        PROVE  /\ client'[Owner[q]].socket # NoConn
               /\ conn'[client'[Owner[q]].socket].cl \in {"open", "closing"}
    <3>1. Owner[q] \in Clients /\ client'[Owner[q]].socket = client[Owner[q]].socket
          /\ client[Owner[q]].socket \in Conns \cup {NoConn}
      BY <1>1, CallMoves, ClientAssumption DEF TransportTypeOK, ClientTypeOK, Client
    <3>2. \A k \in Conns : conn'[k].cl = conn[k].cl BY <1>1, CallMoves
    <3>3. request[q].pc = "pending" \/ Open(Owner[q]) BY <1>1, <2>2, CallMoves
    <3> QED BY <3>1, <3>2, <3>3 DEF Open, PendingOnLiveSocket
  <2> QED BY <2>1, <2>2 DEF PendingOnLiveSocket
<1>2. ASSUME NEW c \in Clients, SocketStep(c)
      PROVE  /\ \A d \in Clients : SocketOK(d)'
             /\ PendingOnLiveSocket'
  <2>1. \A d \in Clients : SocketOK(d)' /\ Live(d)' BY <1>2, SocketMoves, OtherClients
  <2> QED BY <2>1, ClientAssumption DEF PendingOnLiveSocket, Live
<1>3. CASE \E r \in Requests : CallStep(r) BY <1>1, <1>3, CallMoves
<1>4. CASE \E c \in Clients : SocketStep(c) BY <1>2, <1>4, SocketMoves
<1> QED BY <1>3, <1>4 DEF ClientStep, ClientNext, CallStep, SocketStep

------------------------------
(* The calls, through the steps of either end. *)

LEMMA ClientCalls ==
  ASSUME TransportTypeOK, CallInv, ClientStep,
         \A r \in Requests : RequestMove(r), \A k \in Conns : ClientMove(k)
  PROVE  CallInv'
<1> SUFFICES ASSUME NEW r \in Requests
             PROVE  CallOK(r)'
  BY DEF CallInv
<1>1. CallOK(r) /\ RequestMove(r) /\ request[r] \in Request /\ handler'[r] = handler[r]
  BY DEF CallInv, TransportTypeOK, ClientTypeOK, ClientStep, serverVars
<1>2. \A kind \in Kinds : Answered(r, kind)' => Answered(r, kind) BY DEF Answered, ClientMove
<1>3. \A k \in Conns : r \in conn'[k].up => r \in conn[k].up \/ Sending(k, r) BY DEF ClientMove
<1>4. OnItsWay(r)' => OnItsWay(r) \/ (request[r].pc = "ready" /\ request'[r].pc = "pending")
  BY <1>3 DEF OnItsWay, Sending
<1>5. /\ Settled("ok").pc = "settled" /\ Settled("ok").told = "ok"
      /\ Settled("failed").pc = "settled" /\ Settled("failed").told = "failed"
      /\ Settled("unknown").pc = "settled" /\ Settled("unknown").told = "unknown"
      /\ Lost(r).pc = "settled" /\ Lost(r).told \in {"unknown", "failed"}
      /\ r \in Mutations => Lost(r).told = "unknown"
  BY DEF Settled, Lost
<1>6. \A kind \in Kinds :
        /\ Told(r, kind).pc = "settled" /\ Told(r, kind).told # "none"
        /\ r \in Mutations /\ Told(r, kind).told = "failed" => kind = "failed"
  BY <1>5 DEF Told, Kinds
<1>7. (request[r].told = "none" <=> request[r].pc # "settled")'
  BY <1>1, <1>5, <1>6 DEF CallOK, RequestMove, Unsent
<1>8. (request[r].pc \in {"idle", "waiting", "ready"} =>
         /\ handler[r].work = "none" /\ ~ OnItsWay(r)
         /\ \A kind \in Kinds : ~ Answered(r, kind))'
  <2>1. request'[r].pc \in {"idle", "waiting", "ready"} => request[r].pc \in {"idle", "waiting", "ready"}
    BY <1>1, <1>5, <1>6 DEF RequestMove, Unsent
  <2> QED BY <1>1, <1>2, <1>4, <2>1 DEF CallOK
<1>9. (OnItsWay(r) => handler[r].work = "none" /\ ~ Answered(r, "failed"))'
  BY <1>1, <1>2, <1>4 DEF CallOK, Kinds
<1>10. (\A j, k \in Conns : r \in conn[j].up /\ r \in conn[k].up => j = k)'
  <2>1. ASSUME NEW j \in Conns, NEW k \in Conns, r \in conn'[j].up, r \in conn'[k].up
        PROVE  j = k
    <3>1. CASE request[r].pc = "ready"
      <4>1. r \notin conn[j].up /\ r \notin conn[k].up BY <1>1, <3>1 DEF CallOK, OnItsWay
      <4> QED BY <1>3, <2>1, <4>1 DEF Sending
    <3>2. CASE request[r].pc # "ready" BY <1>1, <1>3, <2>1, <3>2 DEF Sending, CallOK
    <3> QED BY <3>1, <3>2
  <2> QED BY <2>1
<1>11. (/\ Answered(r, "ok") => handler[r].work = "done"
        /\ Answered(r, "failed") => handler[r].work \in {"none", "failed"}
        /\ handler[r].conn # NoConn => handler[r].work = "running")'
  BY <1>1, <1>2 DEF CallOK, Kinds
<1>12. (r \in Mutations /\ request[r].told = "failed" =>
          ~ OnItsWay(r) /\ handler[r].work \in {"none", "failed"})'
  <2> SUFFICES ASSUME r \in Mutations, request'[r].told = "failed"
               PROVE  ~ OnItsWay(r)' /\ handler'[r].work \in {"none", "failed"}
    BY ClientAssumption
  <2>1. request'[r].pc = "settled" BY <1>7
  <2>2. ~ OnItsWay(r) /\ handler[r].work \in {"none", "failed"}
    <3>1. CASE request'[r] = request[r] BY <1>1, <3>1 DEF CallOK
    <3>2. CASE Unsent(request[r].pc) BY <1>1, <3>2 DEF CallOK, Unsent
    <3>3. ASSUME NEW kind \in Kinds, Answered(r, kind), request'[r] = Told(r, kind)
          PROVE  ~ OnItsWay(r) /\ handler[r].work \in {"none", "failed"}
      BY <1>1, <1>6, <3>3 DEF CallOK
    <3> QED BY <1>1, <1>5, <2>1, <3>1, <3>2, <3>3 DEF RequestMove, Unsent
  <2> QED BY <1>1, <1>4, <2>1, <2>2
<1> QED BY <1>7, <1>8, <1>9, <1>10, <1>11, <1>12 DEF CallOK

LEMMA ServerCalls ==
  ASSUME TransportTypeOK, CallInv, ServerNext \/ ServerRestarts
  PROVE  CallInv'
<1> SUFFICES ASSUME NEW r \in Requests
             PROVE  CallOK(r)'
  BY DEF CallInv
<1>1. CallOK(r) /\ HandlerMove(r) /\ request' = request
  BY ServerHandlers, ServerRequests DEF CallInv, clientVars
<1>2. \A k \in Conns : ServerMove(k) BY ServerConns
<1>3. \A k \in Conns : r \in conn'[k].up => r \in conn[k].up BY <1>2 DEF ServerMove, UnusedConn
<1>4. OnItsWay(r)' => OnItsWay(r) BY <1>3 DEF OnItsWay
<1>5. \A kind \in Kinds : Answered(r, kind)' => Answered(r, kind) \/ \E k \in Conns : Sent(k, r, kind)
  BY <1>2 DEF Answered, ServerMove
<1>6. handler'[r].work = handler[r].work
      \/ handler[r].work = "running"
      \/ \E k \in Conns : r \in conn[k].up /\ r \notin conn'[k].up
  BY <1>1 DEF HandlerMove
<1>7. \A k \in Conns : r \in conn[k].up => OnItsWay(r) BY DEF OnItsWay
<1>8. (request[r].pc \in {"idle", "waiting", "ready"} =>
         /\ handler[r].work = "none" /\ ~ OnItsWay(r)
         /\ \A kind \in Kinds : ~ Answered(r, kind))'
  <2> SUFFICES ASSUME request[r].pc \in {"idle", "waiting", "ready"}
               PROVE  /\ handler'[r].work = "none" /\ ~ OnItsWay(r)'
                      /\ \A kind \in Kinds : ~ Answered(r, kind)'
    BY <1>1
  <2>1. handler[r].work = "none" /\ ~ OnItsWay(r) /\ \A kind \in Kinds : ~ Answered(r, kind)
    BY <1>1 DEF CallOK
  <2>2. \A kind \in Kinds : \A k \in Conns : ~ Sent(k, r, kind) BY <1>7, <2>1 DEF Sent
  <2> QED BY <1>4, <1>5, <1>6, <1>7, <2>1, <2>2
<1>9. (OnItsWay(r) => handler[r].work = "none" /\ ~ Answered(r, "failed"))'
  <2> SUFFICES ASSUME NEW k \in Conns, r \in conn'[k].up
               PROVE  handler'[r].work = "none" /\ ~ Answered(r, "failed")'
    BY DEF OnItsWay
  <2>1. r \in conn[k].up /\ OnItsWay(r) BY <1>3, <1>7
  <2>2. handler[r].work = "none" /\ ~ Answered(r, "failed") BY <1>1, <2>1 DEF CallOK
  <2>3. \A j \in Conns : r \in conn[j].up => r \in conn'[j].up BY <1>1, <2>1 DEF CallOK
  <2>4. \A j \in Conns : ~ Sent(j, r, "failed") BY <2>2, <2>3 DEF Sent
  <2> QED BY <1>5, <1>6, <2>2, <2>3, <2>4 DEF Kinds
<1>10. (\A j, k \in Conns : r \in conn[j].up /\ r \in conn[k].up => j = k)' BY <1>1, <1>3 DEF CallOK
<1>11. (Answered(r, "ok") => handler[r].work = "done")'
  <2>1. CASE Answered(r, "ok") BY <1>1, <1>6, <1>7, <2>1 DEF CallOK
  <2>2. CASE \E k \in Conns : Sent(k, r, "ok") BY <2>2 DEF Sent
  <2> QED BY <1>5, <2>1, <2>2 DEF Kinds
<1>12. (Answered(r, "failed") => handler[r].work \in {"none", "failed"})'
  <2>1. CASE Answered(r, "failed") BY <1>1, <1>6, <1>7, <2>1 DEF CallOK
  <2>2. CASE \E k \in Conns : Sent(k, r, "failed") BY <1>1, <1>7, <2>2 DEF Sent, CallOK
  <2> QED BY <1>5, <2>1, <2>2 DEF Kinds
<1>13. (r \in Mutations /\ request[r].told = "failed" =>
          ~ OnItsWay(r) /\ handler[r].work \in {"none", "failed"})'
  BY <1>1, <1>4, <1>6, <1>7, ClientAssumption DEF CallOK
<1>14. (handler[r].conn # NoConn => handler[r].work = "running")' BY <1>1 DEF CallOK, HandlerMove
<1> QED BY <1>1, <1>8, <1>9, <1>10, <1>11, <1>12, <1>13, <1>14 DEF CallOK

LEMMA ClientSockets ==
  ASSUME TransportTypeOK, SocketInv, CallInv, ClientStep,
         \A k \in Conns : ClientMove(k), \A c \in Clients : SocketOK(c)'
  PROVE  SocketInv'
<1> SUFFICES ASSUME NEW k \in Conns, NEW r \in Requests
             PROVE  BelongsOK(k, r)'
  BY DEF SocketInv
<1>1. BelongsOK(k, r) /\ ClientMove(k) /\ handler' = handler /\ Owner[r] \in Clients
  BY ClientAssumption DEF SocketInv, ClientStep, serverVars
<1>2. ASSUME r \in conn'[k].up
      PROVE  conn'[k].owner = Owner[r]
  <2>1. CASE r \in conn[k].up BY <1>1, <1>2, <2>1 DEF BelongsOK, ClientMove
  <2>2. CASE Sending(k, r)
    <3>1. SocketOK(Owner[r]) /\ client[Owner[r]].socket = k /\ k # NoConn
      BY <1>1, <2>2 DEF SocketInv, Sending, Open
    <3> QED BY <1>1, <1>2, <3>1 DEF SocketOK, ClientMove
  <2> QED BY <1>1, <1>2, <2>1, <2>2 DEF ClientMove
<1>3. ASSUME handler'[r].conn = k
      PROVE  conn'[k].owner = Owner[r] /\ conn'[k].sv \in {"open", "closing"}
  BY <1>1, <1>3 DEF BelongsOK, ClientMove, Accepting
<1> QED BY <1>2, <1>3 DEF BelongsOK

LEMMA ServerSockets ==
  ASSUME TransportTypeOK, SocketInv, CallInv, ServerNext \/ ServerRestarts
  PROVE  SocketInv'
<1>1. \A k \in Conns : ServerMove(k) BY ServerConns
<1>2. ASSUME NEW c \in Clients
      PROVE  SocketOK(c)'
  <2> DEFINE k == client[c].socket
  <2>1. SocketOK(c) /\ client'[c].socket = k /\ k \in Conns \cup {NoConn}
    BY ServerRequests DEF SocketInv, clientVars, TransportTypeOK, ClientTypeOK, Client
  <2> QED BY <1>1, <2>1 DEF SocketOK, ServerMove
<1>3. ASSUME NEW k \in Conns, NEW r \in Requests
      PROVE  BelongsOK(k, r)'
  <2>1. BelongsOK(k, r) /\ ServerMove(k) /\ HandlerMove(r) BY <1>1, ServerHandlers DEF SocketInv
  <2>2. ASSUME r \in conn'[k].up
        PROVE  conn'[k].owner = Owner[r]
    BY <2>1, <2>2 DEF ServerMove, BelongsOK, UnusedConn
  <2>3. ASSUME handler'[r].conn = k
        PROVE  conn'[k].owner = Owner[r] /\ conn'[k].sv \in {"open", "closing"}
    <3>1. k # NoConn BY ClientAssumption
    <3>2. conn[k].owner = Owner[r] /\ Accepting(conn[k].sv)
      BY <2>1, <2>3, <3>1 DEF BelongsOK, HandlerMove, Accepting
    <3> QED BY <2>1, <2>3, <3>2 DEF ServerMove, Accepting
  <2> QED BY <2>2, <2>3 DEF BelongsOK
<1> QED BY <1>2, <1>3 DEF SocketInv

------------------------------
(* The registry's count, and the update that needs it. *)

LEMMA RunningFinite ==
  /\ IsFiniteSet(RunningHandlers)
  /\ Cardinality(RunningHandlers) \in 0..Cardinality(Requests)
<1>1. RunningHandlers \subseteq Requests /\ IsFiniteSet(Requests)
  BY ServerAssumption DEF RunningHandlers
<1>2. /\ IsFiniteSet(RunningHandlers) /\ Cardinality(RunningHandlers) <= Cardinality(Requests)
      /\ Cardinality(RunningHandlers) \in Nat /\ Cardinality(Requests) \in Nat
  BY <1>1, FS_Subset, FS_CardinalityType
<1> QED BY <1>2

LEMMA ServerCount ==
  ASSUME TransportTypeOK, CallInv, CountInv, ServerNext \/ ServerRestarts
  PROVE  CountInv'
<1>1. handler \in [Requests -> Handler] /\ IsFiniteSet(RunningHandlers) /\ RunningHandlers \subseteq Requests
  BY RunningFinite DEF RunningHandlers, TransportTypeOK, ServerTypeOK
<1>2. CASE active' = active /\ \A r \in Requests : handler'[r].work = handler[r].work
  <2>1. RunningHandlers' = RunningHandlers BY <1>2 DEF RunningHandlers
  <2> QED BY <1>2, <2>1 DEF CountInv
<1>3. ASSUME NEW k \in Conns, NEW r \in Requests, Receive(k, r)
      PROVE  CountInv'
  <2>1. CASE UNCHANGED serverVars BY <1>2, <2>1 DEF serverVars
  <2>2. CASE /\ handler' = [handler EXCEPT ![r].work = "running", ![r].conn = k]
             /\ active' = active + 1
    <3>1. r \notin RunningHandlers BY <1>3 DEF Receive, RunningHandlers, CallInv, CallOK, OnItsWay
    <3>2. RunningHandlers' = RunningHandlers \cup {r}
      <4>1. handler'[r].work = "running" /\ \A q \in Requests \ {r} : handler'[q] = handler[q]
        BY <1>1, <2>2 DEF Handler
      <4> QED BY <4>1 DEF RunningHandlers
    <3>3. Cardinality(RunningHandlers \cup {r}) = Cardinality(RunningHandlers) + 1
      BY <1>1, <3>1, FS_AddElement
    <3> QED BY <2>2, <3>2, <3>3 DEF CountInv
  <2> QED BY <1>3, <2>1, <2>2 DEF Receive
<1>4. ASSUME NEW r \in Requests, HandlerEnds(r)
      PROVE  CountInv'
  <2>1. PICK end \in {"done", "failed"} : handler' = [handler EXCEPT ![r].work = end, ![r].conn = NoConn]
    BY <1>4 DEF HandlerEnds
  <2>2. r \in RunningHandlers /\ active' = active - 1 BY <1>4 DEF HandlerEnds, RunningHandlers
  <2>3. RunningHandlers' = RunningHandlers \ {r}
    <3>1. handler'[r].work = end /\ \A q \in Requests \ {r} : handler'[q] = handler[q]
      BY <1>1, <2>1 DEF Handler
    <3> QED BY <3>1 DEF RunningHandlers
  <2>4. Cardinality(RunningHandlers \ {r}) = Cardinality(RunningHandlers) - 1
    BY <1>1, <2>2, FS_RemoveElement
  <2> QED BY <2>2, <2>3, <2>4 DEF CountInv
<1>5. ASSUME NEW r \in Requests, CommandTimesOut(r)
      PROVE  CountInv'
  <2>1. handler' = [handler EXCEPT ![r].conn = NoConn] /\ active' = active
    BY <1>5 DEF CommandTimesOut
  <2>2. \A q \in Requests : handler'[q].work = handler[q].work BY <1>1, <2>1 DEF Handler
  <2> QED BY <1>2, <2>1, <2>2
<1>6. ASSUME NEW k \in Conns, ServerSocketCloses(k)
      PROVE  CountInv'
  <2>1. \A q \in Requests : handler'[q].work = handler[q].work
    BY <1>1, <1>6 DEF ServerSocketCloses, Handler
  <2> QED BY <1>2, <1>6, <2>1 DEF ServerSocketCloses
<1>7. CASE ServerRestarts
  <2>1. PICK ends \in [Requests -> {"done", "failed"}] :
          handler' = [r \in Requests |->
            IF handler[r].work = "running" THEN [handler[r] EXCEPT !.work = ends[r], !.conn = NoConn]
                                           ELSE handler[r]]
    BY <1>7 DEF ServerRestarts
  <2>2. \A q \in Requests : handler'[q].work # "running" BY <1>1, <2>1 DEF Handler
  <2>3. RunningHandlers' = {} BY <2>2 DEF RunningHandlers
  <2> QED BY <1>7, <2>3, FS_EmptySet DEF ServerRestarts, CountInv
<1>8. CASE UNCHANGED <<handler, active>> BY <1>2, <1>8
<1> QED BY <1>3, <1>4, <1>5, <1>6, <1>7, <1>8
     DEF ServerNext, Upgrade, UpgradeRejected, RevokeInStore, RevokeSockets, PauseForUpdate,
         ResumeAfterUpdate, serverVars

LEMMA ServerUpdate ==
  ASSUME TransportTypeOK, CallInv, CountInv, UpdateExcludesHandlers, ServerNext \/ ServerRestarts
  PROVE  UpdateExcludesHandlers'
<1>1. CASE PauseForUpdate
  <2>1. RunningHandlers = {} BY <1>1, RunningFinite, FS_EmptySet DEF PauseForUpdate, CountInv
  <2> QED BY <1>1, <2>1 DEF PauseForUpdate, UpdateExcludesHandlers, RunningHandlers
<1>2. CASE ~ PauseForUpdate
  <2>1. updating' => updating
    BY <1>2 DEF ServerNext, ServerRestarts, Upgrade, UpgradeRejected, Receive, HandlerEnds,
                CommandTimesOut, ServerSocketCloses, RevokeInStore, RevokeSockets,
                ResumeAfterUpdate, serverVars
  <2>2. \A r \in Requests : HandlerMove(r) BY ServerHandlers
  <2> QED BY <2>1, <2>2 DEF UpdateExcludesHandlers, HandlerMove
<1> QED BY <1>1, <1>2

------------------------------
(* The invariant of Transport. *)

LEMMA InitInv == TransportInit => IInv
<1> SUFFICES ASSUME TransportInit
             PROVE  IInv
  OBVIOUS
<1> USE DEF TransportInit, ClientInit, ServerInit
<1>1. TransportTypeOK
  <2>1. /\ UnusedConn \in Conn
        /\ [state |-> "connecting", socket |-> NoConn, attempts |-> 0,
            due |-> FALSE, started |-> FALSE, stopped |-> FALSE] \in Client
    <3>1. 0 \in 0..OfflineAfter BY ClientAssumption
    <3> QED BY <3>1, UnusedType, ClientAssumption DEF Client
  <2>2. Cardinality(Requests) \in Nat BY ServerAssumption, FS_CardinalityType
  <2>3. 0 \in 0..Cardinality(Requests) BY <2>2
  <2>4. ClientTypeOK BY <2>1, ClientAssumption DEF ClientTypeOK, Request
  <2>5. ServerTypeOK BY <2>3 DEF ServerTypeOK, Handler
  <2> QED BY <2>4, <2>5, TransportAssumption DEF TransportTypeOK
<1>2. SocketInv /\ PendingOnLiveSocket /\ UpdateExcludesHandlers
  BY ClientAssumption DEF SocketInv, SocketOK, BelongsOK, PendingOnLiveSocket, UpdateExcludesHandlers, UnusedConn
<1>3. CallInv BY ClientAssumption DEF CallInv, CallOK, OnItsWay, Answered, UnusedConn
<1>4. RunningHandlers = {} BY DEF RunningHandlers
<1>5. CountInv BY <1>4, FS_EmptySet DEF CountInv
<1> QED BY <1>1, <1>2, <1>3, <1>5 DEF IInv

LEMMA StepInv == IInv /\ [TransportNext]_transportVars => IInv'
<1> SUFFICES ASSUME IInv, [TransportNext]_transportVars
             PROVE  IInv'
  OBVIOUS
<1> USE DEF IInv
<1>1. CASE ClientStep
  <2>1. /\ \A r \in Requests : RequestMove(r)
        /\ \A k \in Conns : ClientMove(k)
        /\ \A c \in Clients : SocketOK(c)'
        /\ PendingOnLiveSocket'
    BY <1>1, ClientMoves
  <2>2. handler' = handler /\ active' = active /\ updating' = updating /\ session' = session
        /\ restarts' = restarts
    BY <1>1 DEF ClientStep, serverVars
  <2>3. TransportTypeOK' BY <1>1, <2>2, ClientTypeStep DEF TransportTypeOK, ServerTypeOK, ClientStep
  <2>4. SocketInv' /\ CallInv' BY <1>1, <2>1, ClientSockets, ClientCalls
  <2>5. CountInv' /\ UpdateExcludesHandlers'
    BY <2>2 DEF CountInv, RunningHandlers, UpdateExcludesHandlers
  <2> QED BY <2>1, <2>3, <2>4, <2>5
<1>2. CASE /\ ServerNext \/ ServerRestarts
           /\ restarts' \in 0..MaxRestarts
  <2>1. CountInv' /\ SocketInv' /\ CallInv' /\ UpdateExcludesHandlers'
    BY <1>2, ServerCount, ServerSockets, ServerCalls, ServerUpdate
  <2>2. client' = client /\ request' = request BY <1>2, ServerRequests DEF clientVars
  <2>3. TransportTypeOK'
    <3>1. conn' \in [Conns -> Conn] BY <1>2, ServerConns
    <3>2. /\ handler' \in [Requests -> Handler] /\ updating' \in BOOLEAN
          /\ session' \in [Clients -> {"active", "revoked", "dropped"}]
      BY <1>2, ServerHandlers
    <3>3. active' \in 0..Cardinality(Requests)
      <4>1. RunningHandlers' \subseteq Requests /\ IsFiniteSet(Requests)
        BY ServerAssumption DEF RunningHandlers
      <4>2. /\ Cardinality(RunningHandlers') <= Cardinality(Requests)
            /\ Cardinality(RunningHandlers') \in Nat /\ Cardinality(Requests) \in Nat
        BY <4>1, FS_Subset, FS_CardinalityType
      <4>3. active' = Cardinality(RunningHandlers') BY <2>1 DEF CountInv
      <4> QED BY <4>2, <4>3
    <3> QED BY <1>2, <2>2, <3>1, <3>2, <3>3 DEF TransportTypeOK, ClientTypeOK, ServerTypeOK
  <2>4. PendingOnLiveSocket'
    <3>1. ASSUME NEW r \in Requests, request[r].pc = "pending"
          PROVE  /\ client[Owner[r]].socket # NoConn
                 /\ conn'[client[Owner[r]].socket].cl \in {"open", "closing"}
      <4> DEFINE k == client[Owner[r]].socket
      <4>1. k \in Conns /\ conn[k].cl \in {"open", "closing"}
        BY <3>1, ClientAssumption DEF PendingOnLiveSocket, TransportTypeOK, ClientTypeOK, Client
      <4>2. ServerMove(k) BY <1>2, <4>1, ServerConns
      <4> QED BY <4>1, <4>2, ClientAssumption DEF ServerMove
    <3> QED BY <2>2, <3>1 DEF PendingOnLiveSocket
  <2> QED BY <2>1, <2>3, <2>4
<1>3. CASE UNCHANGED transportVars
  <2> USE <1>3 DEF transportVars, clientVars, serverVars
  <2>1. TransportTypeOK' BY DEF TransportTypeOK, ClientTypeOK, ServerTypeOK
  <2>2. SocketInv' BY DEF SocketInv, SocketOK, BelongsOK
  <2>3. CallInv' BY DEF CallInv, CallOK, OnItsWay, Answered
  <2>4. CountInv' /\ PendingOnLiveSocket' /\ UpdateExcludesHandlers'
    BY DEF CountInv, RunningHandlers, PendingOnLiveSocket, UpdateExcludesHandlers
  <2> QED BY <2>1, <2>2, <2>3, <2>4
<1>4. ASSUME ServerRestarts, restarts < MaxRestarts, restarts' = restarts + 1
      PROVE  restarts' \in 0..MaxRestarts
  BY <1>4, TransportAssumption DEF TransportTypeOK
<1> QED BY <1>1, <1>2, <1>3, <1>4 DEF TransportNext, ClientStep, TransportTypeOK

------------------------------
(* The theorems. *)

(* The registry's count, where each call is, whose sockets are whose, and *)
(* the types hold in every behaviour. *)
THEOREM Invariant == TransportSpec => []IInv
BY InitInv, StepInv, PTL DEF TransportSpec

(* No request waits for an answer on a socket its client no longer has *)
(* (websocket-transport.ts), and an update that paused the registry finds *)
(* no handler running (CommandRegistry.ts). *)
THEOREM NoHalfCalls == TransportSpec => []NothingIsCut
<1>1. IInv => NothingIsCut BY DEF IInv, NothingIsCut
<1> QED BY <1>1, Invariant, PTL

(* A step of either end, with what the lemmas say of it. *)
LEMMA EitherEnd ==
  ASSUME IInv, TransportNext
  PROVE  \/ /\ \A r \in Requests : RequestMove(r)
            /\ \A k \in Conns : ClientMove(k)
            /\ UNCHANGED <<handler, session>>
         \/ /\ \A r \in Requests : HandlerMove(r)
            /\ \A k \in Conns : ServerMove(k)
            /\ request' = request
<1>1. CASE ClientStep BY <1>1, ClientMoves DEF IInv, ClientStep, serverVars
<1>2. CASE ServerNext \/ ServerRestarts
  BY <1>2, ServerHandlers, ServerConns, ServerRequests DEF IInv, clientVars
<1> QED BY <1>1, <1>2 DEF TransportNext, ClientStep

LEMMA RevokedStep ==
  ASSUME IInv, TransportNext, NEW r \in Requests, session[Owner[r]] # "active"
  PROVE  /\ handler'[r].work = "running" => handler[r].work = "running"
         /\ \A k \in Conns : \A kind \in Kinds :
              <<r, kind>> \in conn'[k].down => <<r, kind>> \in conn[k].down
<1>1. \A k \in Conns : BelongsOK(k, r) BY DEF IInv, SocketInv
<1>2. \A k \in Conns : HasSession(k) => r \notin conn[k].up /\ handler[r].conn # k
  BY <1>1 DEF BelongsOK, HasSession
<1>3. CASE HandlerMove(r) /\ \A k \in Conns : ServerMove(k)
  <2>1. \A k \in Conns, kind \in Kinds : ~ Sent(k, r, kind) BY <1>2 DEF Sent
  <2> QED BY <1>2, <1>3, <2>1 DEF HandlerMove, ServerMove
<1>4. CASE handler' = handler /\ \A k \in Conns : ClientMove(k) BY <1>4 DEF ClientMove
<1> QED BY <1>3, <1>4, EitherEnd

(* Revoking a session (websocket.ts, revokeSessions) ends what its requests *)
(* can do: none of them starts a handler or is sent an answer afterwards, *)
(* not even those that were already on their way. *)
THEOREM RevokedIsOver == TransportSpec => NothingForRevoked
<1> DEFINE A == \A r \in Requests : session[Owner[r]] # "active" =>
                  /\ handler'[r].work = "running" => handler[r].work = "running"
                  /\ \A k \in Conns : \A kind \in Kinds :
                       <<r, kind>> \in conn'[k].down => <<r, kind>> \in conn[k].down
<1>1. IInv /\ [TransportNext]_transportVars => [A]_transportVars BY RevokedStep
<1> QED BY <1>1, Invariant, PTL DEF TransportSpec, NothingForRevoked

LEMMA AnswersInit == TransportInit => Remote!Init
BY ClientAssumption DEF TransportInit, ClientInit, ServerInit, Remote!Init

LEMMA AnswersStep ==
  ASSUME IInv, IInv', TransportNext
  PROVE  Remote!Next
<1> DEFINE work == [r \in Mutations |-> handler[r].work]
           told == [r \in Mutations |-> request[r].told]
<1>1. work' \in [Mutations -> Remote!Work] /\ told' \in [Mutations -> Remote!Told]
  <2>1. \A r \in Mutations : handler'[r] \in Handler /\ request'[r] \in Request
    BY ClientAssumption DEF IInv, TransportTypeOK, ServerTypeOK, ClientTypeOK
  <2> QED BY <2>1 DEF Handler, Request, Remote!Work, Remote!Told
<1>2. ASSUME NEW r \in Mutations
      PROVE  Remote!WorkStep(r) /\ Remote!ToldStep(r)
  <2>1. r \in Requests /\ CallOK(r) BY ClientAssumption DEF IInv, CallInv
  <2>2. /\ work[r] = handler[r].work /\ work'[r] = handler'[r].work
        /\ told[r] = request[r].told /\ told'[r] = request'[r].told
    OBVIOUS
  <2>3. CASE HandlerMove(r) /\ request' = request
    <3>1. \/ handler'[r].work = handler[r].work
          \/ handler[r].work = "running" /\ handler'[r].work \in {"done", "failed"}
          \/ OnItsWay(r) /\ handler'[r].work = "running"
      BY <2>3 DEF HandlerMove, OnItsWay
    <3>2. OnItsWay(r) => handler[r].work = "none" /\ request[r].told # "failed" BY <2>1 DEF CallOK
    <3> QED BY <2>2, <2>3, <3>1, <3>2 DEF Remote!WorkStep, Remote!ToldStep
  <2>4. CASE RequestMove(r) /\ handler' = handler
    <3>1. \/ request'[r].told = request[r].told
          \/ /\ request[r].told = "none"
             /\ \/ request'[r].told = "ok" /\ handler[r].work = "done"
                \/ request'[r].told = "failed" /\ handler[r].work \in {"none", "failed"}
                \/ request'[r].told = "unknown"
      <4>1. CASE Unsent(request[r].pc) /\ request'[r] = Settled("failed")
        BY <2>1, <4>1 DEF CallOK, Unsent, Settled
      <4>2. CASE request[r].pc = "pending" /\ request'[r] = Lost(r)
        BY <2>1, <4>2 DEF CallOK, Lost, Settled
      <4>3. CASE request[r].pc # "settled" /\ request'[r] = Settled("unknown")
        BY <2>1, <4>3 DEF CallOK, Settled
      <4>4. ASSUME NEW kind \in Kinds, Answered(r, kind), request[r].pc = "pending",
                   request'[r] = Told(r, kind)
            PROVE  /\ request[r].told = "none"
                   /\ \/ request'[r].told = "ok" /\ handler[r].work = "done"
                      \/ request'[r].told = "failed" /\ handler[r].work \in {"none", "failed"}
                      \/ request'[r].told = "unknown"
        <5>1. request[r].told = "none" BY <2>1, <4>4 DEF CallOK
        <5>2. CASE kind = "ok" BY <2>1, <4>4, <5>1, <5>2 DEF CallOK, Told, Settled
        <5>3. CASE kind = "failed" BY <2>1, <4>4, <5>1, <5>3 DEF CallOK, Told, Settled
        <5>4. CASE kind \in {"timeout", "oversized"} BY <4>4, <5>1, <5>4 DEF Told, Lost, Settled
        <5> QED BY <5>2, <5>3, <5>4 DEF Kinds
      <4> QED BY <2>4, <4>1, <4>2, <4>3, <4>4 DEF RequestMove
    <3> QED BY <2>2, <2>4, <3>1 DEF Remote!WorkStep, Remote!ToldStep
  <2> QED BY <2>1, <2>3, <2>4, EitherEnd
<1> QED BY <1>1, <1>2 DEF Remote!Next

(* Transport implements RemoteCall: whatever connection, timer, session or *)
(* server process is lost, a mutation runs at most once, "ok" is told only *)
(* when it succeeded, and "failed" only when it did not and never will. *)
THEOREM TruthTold == TransportSpec => AnswersAreTrue
<1>1. [TransportNext]_transportVars /\ IInv /\ IInv' =>
        [Remote!Next]_<<[r \in Mutations |-> handler[r].work], [r \in Mutations |-> request[r].told]>>
  <2>1. CASE TransportNext BY <2>1, AnswersStep
  <2>2. CASE UNCHANGED transportVars BY <2>2 DEF transportVars, clientVars, serverVars
  <2> QED BY <2>1, <2>2
<1> QED BY <1>1, AnswersInit, Invariant, PTL DEF TransportSpec, AnswersAreTrue, Remote!Spec

==============================
