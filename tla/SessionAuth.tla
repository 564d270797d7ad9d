------- MODULE SessionAuth -------
(****************************************)
(* packages/server/src/auth.ts: one pairing credential in memory, the *)
(* switch for browser access, and the store (AuthStore).  Pairings and *)
(* switches queue behind each other; switching off takes effect at once and *)
(* starts a new generation, which everything that is under way notices. *)
(* *)
(* A browser session is named after the exchange that issues it. *)
(****************************************)
EXTENDS AuthStore

LOCAL INSTANCE TLC

CONSTANTS
  Tokens,           \* pairing tokens
  MaxGeneration,    \* bound: how often browser access is switched off
  MaxSwitches,      \* bound: how many switches wait in the queue
  MaxCrashes        \* bound: how often the process is replaced

ASSUME AuthAssumption ==
  /\ Nobody \notin Tokens
  /\ MaxGeneration \in Nat /\ MaxSwitches \in Nat /\ MaxCrashes \in Nat

\* For model checking: no browser, desktop or token is treated unlike another.
Interchangeable == Permutations(Browsers) \cup Permutations(Desktops) \cup Permutations(Tokens)

VARIABLES
  access,        \* browserAccessEnabled
  generation,    \* browserGeneration
  browserQueue,  \* queued switches and exchanges, the running one first
  pairing,       \* the pending pairing's token, or Nobody
  expired,       \* tokens past their expiresAt
  exchange,      \* per browser: its call of exchangePairingToken
  wanted,        \* history: what the last switch asked for
  period,        \* history: per token, how often access had been off when it was made
  offs,          \* history: how often access was switched off, over restarts
  crashes

authVars == <<access, generation, browserQueue, pairing, expired, exchange>>
history == <<wanted, period, offs>>
sessionVars == <<storeVars, authVars, history, crashes>>

Exchange == [pc : {"idle", "queued", "issuing", "issued", "failed", "undoing", "undone", "over"},
             token : Tokens \cup {Nobody}, generation : 0..MaxGeneration,
             cookie : BOOLEAN]

Queued == [switch : BOOLEAN, enabled : BOOLEAN, generation : 0..MaxGeneration,
           browser : Browsers \cup {Nobody}]

AuthTypeOK ==
  /\ StoreTypeOK
  /\ access \in BOOLEAN /\ wanted \in BOOLEAN
  /\ generation \in 0..MaxGeneration /\ offs \in 0..MaxGeneration
  /\ browserQueue \in Seq(Queued)
  /\ pairing \in Tokens \cup {Nobody} /\ expired \in SUBSET Tokens
  /\ exchange \in [Browsers -> Exchange]
  /\ period \in [Tokens -> -1..MaxGeneration]
  /\ crashes \in 0..MaxCrashes

AuthInit ==
  /\ StoreInit
  /\ access \in BOOLEAN /\ wanted = access
  /\ generation = 0 /\ browserQueue = <<>> /\ pairing = Nobody /\ expired = {}
  /\ exchange = [b \in Browsers |-> [pc |-> "idle", token |-> Nobody, generation |-> 0,
                                     cookie |-> FALSE]]
  /\ period = [t \in Tokens |-> -1] /\ offs = 0 /\ crashes = 0
------------------------------
Switches == {i \in DOMAIN browserQueue : browserQueue[i].switch}

\* Bug: switching on starts a new generation as well.
SwitchAlwaysCounts(enabled) ==
  /\ Cardinality(Switches) < MaxSwitches
  /\ enabled \/ offs < MaxGeneration
  /\ IF enabled THEN UNCHANGED <<access, pairing, offs>>
     ELSE access' = FALSE /\ pairing' = Nobody /\ offs' = offs + 1
  /\ generation' = generation + 1
  /\ browserQueue' = Append(browserQueue, [switch |-> TRUE, enabled |-> enabled,
                                           generation |-> generation + 1, browser |-> Nobody])
  /\ wanted' = enabled
  /\ UNCHANGED <<storeVars, expired, exchange, period, crashes>>

\* setBrowserAccessEnabled up to its queue.
Switch(enabled) ==
  LET next == IF enabled THEN generation ELSE generation + 1 IN
  /\ Cardinality(Switches) < MaxSwitches
  /\ enabled \/ offs < MaxGeneration
  /\ IF enabled THEN UNCHANGED <<access, pairing, offs>>
     ELSE access' = FALSE /\ pairing' = Nobody /\ offs' = offs + 1
  /\ generation' = next
  /\ browserQueue' = Append(browserQueue, [switch |-> TRUE, enabled |-> enabled,
                                           generation |-> next, browser |-> Nobody])
  /\ wanted' = enabled
  /\ UNCHANGED <<storeVars, expired, exchange, period, crashes>>

\* Bug: a switch forgets that access may have been switched off after it was asked for.
SwitchTakesStaleEffect ==
  /\ browserQueue # <<>> /\ Head(browserQueue).switch
  /\ access' = Head(browserQueue).enabled
  /\ browserQueue' = Tail(browserQueue)
  /\ UNCHANGED <<storeVars, generation, pairing, expired, exchange, history, crashes>>

\* Its queued part.
SwitchTakesEffect ==
  /\ browserQueue # <<>> /\ Head(browserQueue).switch
  /\ access' = (Head(browserQueue).enabled /\ Head(browserQueue).generation = generation)
  /\ browserQueue' = Tail(browserQueue)
  /\ UNCHANGED <<storeVars, generation, pairing, expired, exchange, history, crashes>>

\* createPairingToken: a new token replaces the one before.
CreatePairingToken(t) ==
  /\ access /\ period[t] = -1
  /\ pairing' = t
  /\ period' = [period EXCEPT ![t] = offs]
  /\ UNCHANGED <<storeVars, access, generation, browserQueue, expired, exchange, wanted,
                 offs, crashes>>

\* Time passes.  dropExpiredPairing runs before anything looks at the pairing.  Whether a
\* token nobody can use any more has expired makes no difference.
PairingExpires(t) ==
  /\ pairing = t \/ \E b \in Browsers : exchange[b].token = t /\ exchange[b].pc # "over"
  /\ t \notin expired
  /\ expired' = expired \cup {t}
  /\ pairing' = IF pairing = t THEN Nobody ELSE pairing
  /\ UNCHANGED <<storeVars, access, generation, browserQueue, exchange, history, crashes>>

\* exchangePairingToken up to its queue: the token is used up.
Exchanged(b, t) ==
  /\ exchange[b].pc = "idle"
  /\ access /\ pairing = t /\ t \in Tokens
  /\ pairing' = Nobody
  /\ exchange' = [exchange EXCEPT ![b] = [pc |-> "queued", token |-> t,
                                          generation |-> generation, cookie |-> FALSE]]
  /\ browserQueue' = Append(browserQueue, [switch |-> FALSE, enabled |-> FALSE,
                                           generation |-> generation, browser |-> b])
  /\ UNCHANGED <<storeVars, access, generation, expired, history, crashes>>
------------------------------
Running(b, pc) == /\ browserQueue # <<>> /\ Head(browserQueue).browser = b
                  /\ exchange[b].pc = pc

\* Access was not switched off since the exchange was asked for.
SamePeriod(b) == access /\ exchange[b].generation = generation

\* An exchange that ended: with a cookie, or with null or an error.
Ended(b, cookie) == [pc |-> "over", token |-> IF cookie THEN exchange[b].token ELSE Nobody,
                     generation |-> 0, cookie |-> cookie]

\* The exchange is over, and the queue goes on.
Over(b, cookie) ==
  /\ exchange' = [exchange EXCEPT ![b] = Ended(b, cookie)]
  /\ browserQueue' = Tail(browserQueue)

\* The queued part, up to the store.
IssueSession(b) ==
  /\ Running(b, "queued")
  /\ IF SamePeriod(b)
     THEN /\ Mutate("issue", b)
          /\ exchange' = [exchange EXCEPT ![b].pc = "issuing"]
          /\ UNCHANGED browserQueue
     ELSE Over(b, FALSE) /\ UNCHANGED queue
  /\ UNCHANGED <<memory, stored, writes, asked, revoked, access, generation, pairing, expired,
                 history, crashes>>

\* Bug: access is not looked at again after the session was issued.
HandOverAnyway(b) ==
  /\ Running(b, "issued")
  /\ Over(b, TRUE)
  /\ UNCHANGED <<storeVars, access, generation, pairing, expired, history, crashes>>

\* After the store issued the session: hand over the cookie, or take the session back.
HandOver(b) ==
  /\ Running(b, "issued")
  /\ IF SamePeriod(b) THEN Over(b, TRUE) /\ UNCHANGED queue
     ELSE /\ Mutate("undo", b)
          /\ exchange' = [exchange EXCEPT ![b].pc = "undoing"]
          /\ UNCHANGED browserQueue
  /\ UNCHANGED <<memory, stored, writes, asked, revoked, access, generation, pairing, expired,
                 history, crashes>>

TakenBack(b) ==
  /\ Running(b, "undone")
  /\ Over(b, FALSE)
  /\ UNCHANGED <<storeVars, access, generation, pairing, expired, history, crashes>>

\* The catch block: the token may be tried again, unless there is a reason not to.
ExchangeFails(b) ==
  /\ Running(b, "failed")
  /\ Over(b, FALSE)
  /\ pairing' = IF SamePeriod(b) /\ exchange[b].token \notin expired /\ pairing = Nobody
                THEN exchange[b].token ELSE pairing
  /\ UNCHANGED <<storeVars, access, generation, expired, history, crashes>>
------------------------------
AuthUnchanged == UNCHANGED <<access, generation, browserQueue, pairing, expired, history, crashes>>

\* The exchange that waits for a change of the store, when the change is over.
Wake(change, ok) ==
  exchange' = [b \in Browsers |->
    IF b = change.who /\ change.kind \in {"issue", "undo"}
    THEN [exchange[b] EXCEPT !.pc = IF ~ ok THEN "failed"
                                    ELSE IF change.kind = "issue" THEN "issued" ELSE "undone"]
    ELSE exchange[b]]

StoreStep ==
  /\ \/ BeginWrite /\ UNCHANGED exchange
     \/ \E change \in StoreChange : NothingToWrite(change) /\ Wake(change, TRUE)
     \/ \E w \in writes : \/ Rename(w) /\ UNCHANGED exchange
                          \/ CommitWrite(w) /\ Wake(w.change, TRUE)
                          \/ WriteFails(w) /\ Wake(w.change, FALSE)
  /\ AuthUnchanged

\* A desktop session that never was.
Unused(d) == /\ d \notin memory \cup stored \cup asked
             /\ \A i \in DOMAIN queue : queue[i].who # d
             /\ \A w \in writes : w.change.who # d

\* Signing out, revoking one or all, resetting, the desktop's start, and the bookkeeping of
\* connections: each one call of the store.
OwnerAsks ==
  /\ Len(queue) < MaxQueue
  /\ \/ \E s \in memory : Mutate("revoke", s) \/ Mutate("touch", s)
     \/ Mutate("revokeBrowsers", Nobody) \/ Mutate("revokeAll", Nobody)
     \/ \E d \in Desktops : Unused(d) /\ (Mutate("issue", d) \/ Mutate("reset", d))
  /\ UNCHANGED <<memory, stored, writes, asked, revoked, exchange>>
  /\ AuthUnchanged

\* The server process dies; the next one starts with the access its settings say.
Crash ==
  /\ crashes < MaxCrashes
  /\ crashes' = crashes + 1
  /\ StoreRestarts
  /\ access' \in BOOLEAN /\ wanted' = access'
  /\ generation' = 0 /\ browserQueue' = <<>> /\ pairing' = Nobody
  /\ exchange' = [b \in Browsers |->
       IF exchange[b].pc \in {"idle", "over"} THEN exchange[b]
       ELSE Ended(b, FALSE)]
  /\ UNCHANGED <<expired, period, offs>>

AuthNext ==
  \/ \E enabled \in BOOLEAN : Switch(enabled)
  \/ SwitchTakesEffect
  \/ \E t \in Tokens : CreatePairingToken(t) \/ PairingExpires(t)
  \/ \E b \in Browsers, t \in Tokens : Exchanged(b, t)
  \/ \E b \in Browsers : IssueSession(b) \/ HandOver(b) \/ TakenBack(b) \/ ExchangeFails(b)
  \/ StoreStep
  \/ OwnerAsks
  \/ Crash

AuthSpec == AuthInit /\ [][AuthNext]_sessionVars
------------------------------
(* Browser access is never on after a switch asked for off, whatever *)
(* switches were still queued, and once the queue is empty it is what the *)
(* last switch asked for. *)
AccessFollowsLastSwitch ==
  /\ access => wanted
  /\ Switches = {} => access = wanted

(* A browser is given its cookie only while access is on and was never off *)
(* since the pairing token was made, however long the exchange waited. *)
NoCookieAcrossSwitchOff ==
  [][\A b \in Browsers :
       ~ exchange[b].cookie /\ exchange'[b].cookie
       => access /\ period[exchange[b].token] = offs]_sessionVars

(* A pairing token gives at most one browser a cookie, also when exchanges *)
(* fail and put it back. *)
OneCookiePerToken ==
  \A a, b \in Browsers :
    /\ exchange[a].cookie /\ exchange[b].cookie
    /\ exchange[a].token = exchange[b].token
    => a = b

(* A session that was revoked is never active again: not through a change *)
(* that was under way, a failed write or a restart. *)
RevokedStaysRevoked == revoked \cap (memory \cup stored) = {}

(* A browser that holds a cookie stays signed in until a revocation, also *)
(* over restarts. *)
PairedStaysPaired ==
  \A b \in Browsers :
    exchange[b].cookie /\ b \notin asked => b \in memory /\ b \in stored

(* What pairing gave and revoking took away holds through failing writes *)
(* and restarts. *)
PairingsHold == OneCookiePerToken /\ RevokedStaysRevoked /\ PairedStaysPaired
==============================
