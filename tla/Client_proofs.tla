------- MODULE Client_proofs -------
(****************************************)
(* What a client of the server relies on, for any values of the constants. *)
(* First its access (SessionAuth): type correctness, the switch for browser *)
(* access, what a pairing token gives, and what becomes of sessions over *)
(* failed writes and restarts.  Then what is typed into it (OpenFiles): *)
(* text is neither forgotten nor saved over a change its author never saw. *)
(****************************************)
EXTENDS OpenFiles, SessionAuth, SequenceTheorems, TLAPS

------------------------------
(* The invariants. *)

\* A generation is not counted higher than access was switched off.
TypeInv == AuthTypeOK /\ generation <= offs

\* A queued switch on that still counts is one that was asked for after the last switch
\* off; and as long as access is to be on, the last queued switch says so.
Counts(q) == q.enabled /\ q.generation = generation

AccessInv ==
  /\ access => wanted
  /\ \A i \in 1..Len(browserQueue) :
       /\ browserQueue[i].generation <= generation
       /\ browserQueue[i].switch <=> browserQueue[i].browser = Nobody
       /\ browserQueue[i].switch /\ Counts(browserQueue[i]) => wanted
  /\ wanted =>
       \/ access /\ \A i \in 1..Len(browserQueue) : ~ browserQueue[i].switch
       \/ \E i \in 1..Len(browserQueue) :
            /\ browserQueue[i].switch /\ Counts(browserQueue[i])
            /\ \A j \in 1..Len(browserQueue) : browserQueue[j].switch => j <= i

\* A token is where it can be used, or with one exchange that used it.
Live(b) == exchange[b].pc \notin {"idle", "over"}

TokenOK(b) ==
  LET e == exchange[b] IN
  /\ e.token # Nobody => e.token # pairing /\ period[e.token] # -1
  /\ Live(b) => e.token # Nobody /\ e.generation <= generation /\ ~ e.cookie
  /\ Live(b) /\ e.generation = generation => period[e.token] = offs
  /\ e.cookie => e.token # Nobody /\ e.pc = "over"

TokenInv ==
  /\ pairing # Nobody => period[pairing] = offs
  /\ \A b \in Browsers : TokenOK(b)
  /\ \A a, b \in Browsers :
       exchange[a].token # Nobody /\ exchange[a].token = exchange[b].token => a = b

\* A change that somebody waits for, and one that will give a new session.
Claims(c) == c.kind \in {"issue", "reset", "undo"}
Issues(c) == c.kind \in {"issue", "reset"}

\* What will be issued was never there, and the exchange that waits is where it should be.
ChangeOK(c) ==
  /\ Issues(c) => c.who \in Sessions /\ c.who \notin memory /\ c.who \notin asked
  /\ c.kind = "reset" => c.who \in Desktops
  /\ c.kind = "issue" /\ c.who \in Browsers => exchange[c.who].pc = "issuing"
  /\ c.kind = "undo" => c.who \in Browsers /\ exchange[c.who].pc = "undoing"

\* Nobody waits for two changes.
QueueInv ==
  /\ \A i \in 1..Len(queue) : ChangeOK(queue[i])
  /\ \A i, j \in 1..Len(queue) :
       Claims(queue[i]) /\ Claims(queue[j]) /\ queue[i].who = queue[j].who => i = j
  /\ \A w \in writes : ChangeOK(w.change)
  /\ \A w \in writes : \A i \in 1..Len(queue) :
       Claims(w.change) /\ Claims(queue[i]) => w.change.who # queue[i].who

\* One write at a time, of what follows from the sessions in memory.
WriteInv ==
  /\ \A v, w \in writes : v = w
  /\ \A w \in writes :
       /\ w.next = After(w.change)
       /\ memory \ w.next \subseteq asked
       /\ w.landed => stored = w.next

\* Where the sessions of browsers are, by how far their exchange is.
SessionOK(b) ==
  /\ exchange[b].pc \in {"idle", "queued"} => b \notin memory \cup stored \cup asked
  /\ exchange[b].pc = "issued" \/ exchange[b].cookie => b \in asked \/ (b \in memory /\ b \in stored)

StoreInv ==
  /\ QueueInv /\ WriteInv
  /\ revoked \subseteq asked
  /\ RevokedStaysRevoked
  /\ \A b \in Browsers : SessionOK(b)

IInv == TypeInv /\ AccessInv /\ TokenInv /\ StoreInv
------------------------------
(* Types. *)

\* What a change makes of the sessions, by its kind.
LEMMA AfterFacts ==
  ASSUME StoreTypeOK, NEW c \in StoreChange, Issues(c) => c.who \in Sessions
  PROVE  /\ After(c) \in SUBSET Sessions
         /\ After(c) \subseteq memory \cup {c.who}
         /\ c.kind # "issue" => After(c) \subseteq memory
         /\ c.kind = "issue" => c.who \in After(c)
<1>1. CASE c.kind = "issue" BY <1>1 DEF After, StoreTypeOK, Issues
<1>2. CASE c.kind \in {"revoke", "undo"} BY <1>2 DEF After, StoreTypeOK, Issues
<1>3. CASE c.kind = "revokeBrowsers" BY <1>3 DEF After, StoreTypeOK, Issues
<1>4. CASE c.kind \in {"revokeAll", "reset"} BY <1>4 DEF After, StoreTypeOK, Issues
<1>5. CASE c.kind = "touch" BY <1>5 DEF After, StoreTypeOK, Issues
<1> QED BY <1>1, <1>2, <1>3, <1>4, <1>5 DEF StoreChange

LEMMA ExchangeType ==
  ASSUME AuthTypeOK, NEW c \in StoreChange, NEW ok, Wake(c, ok)
  PROVE  exchange' \in [Browsers -> Exchange]
<1>1. ASSUME NEW b \in Browsers
      PROVE  exchange'[b] \in Exchange
  <2>1. exchange[b] \in Exchange BY DEF AuthTypeOK
  <2>2. exchange'[b] \in {exchange[b], [exchange[b] EXCEPT !.pc = "failed"],
                          [exchange[b] EXCEPT !.pc = "issued"], [exchange[b] EXCEPT !.pc = "undone"]}
    BY DEF Wake
  <2> QED BY <2>1, <2>2 DEF Exchange
<1> QED BY <1>1 DEF Wake

LEMMA ChangeType ==
  ASSUME NEW kind \in {"issue", "undo", "revoke", "revokeBrowsers", "revokeAll", "reset", "touch"},
         NEW who \in Sessions \cup {Nobody}
  PROVE  [kind |-> kind, who |-> who] \in StoreChange
BY DEF StoreChange

LEMMA MutateType ==
  ASSUME queue \in Seq(StoreChange), NEW kind, NEW who, Mutate(kind, who),
         kind \in {"issue", "undo", "revoke", "revokeBrowsers", "revokeAll", "reset", "touch"},
         who \in Sessions \cup {Nobody}
  PROVE  queue' \in Seq(StoreChange)
BY ChangeType DEF Mutate

LEMMA EndedType ==
  ASSUME AuthTypeOK, NEW b \in Browsers, NEW cookie \in BOOLEAN
  PROVE  Ended(b, cookie) \in Exchange
<1>1. exchange[b] \in Exchange /\ 0 \in 0..MaxGeneration BY AuthAssumption DEF AuthTypeOK
<1> QED BY <1>1 DEF Ended, Exchange

\* Every change of the store, with what it makes of the exchanges.
LEMMA StoreTypeStep ==
  ASSUME TypeInv, StoreInv, StoreStep
  PROVE  StoreTypeOK' /\ exchange' \in [Browsers -> Exchange]
<1>1. StoreTypeOK /\ exchange \in [Browsers -> Exchange] BY DEF TypeInv, AuthTypeOK
<1>2. CASE BeginWrite /\ UNCHANGED exchange
  <2> DEFINE change == Head(queue)
  <2>1. change \in StoreChange /\ Tail(queue) \in Seq(StoreChange) /\ ChangeOK(change)
    BY <1>1, <1>2 DEF StoreTypeOK, BeginWrite, Turn, StoreInv, QueueInv
  <2>2. After(change) \in SUBSET Sessions BY <1>1, <2>1, AfterFacts DEF ChangeOK
  <2>3. [change |-> change, next |-> After(change), landed |-> FALSE] \in Write
    BY <2>1, <2>2 DEF Write
  <2> QED BY <1>1, <1>2, <2>1, <2>3 DEF StoreTypeOK, BeginWrite
<1>3. ASSUME NEW change \in StoreChange, NothingToWrite(change), Wake(change, TRUE)
      PROVE  StoreTypeOK' /\ exchange' \in [Browsers -> Exchange]
  <2>1. exchange' \in [Browsers -> Exchange] BY <1>3, ExchangeType DEF TypeInv
  <2> QED BY <1>1, <1>3, <2>1 DEF NothingToWrite, Turn, StoreTypeOK
<1>4. ASSUME NEW w \in writes, Rename(w), UNCHANGED exchange
      PROVE  StoreTypeOK' /\ exchange' \in [Browsers -> Exchange]
  <2>1. w \in Write BY <1>1 DEF StoreTypeOK
  <2>2. [w EXCEPT !.landed = TRUE] \in Write BY <2>1 DEF Write
  <2>3. w.next \in SUBSET Sessions BY <2>1 DEF Write
  <2> QED BY <1>1, <1>4, <2>2, <2>3 DEF Rename, StoreTypeOK
<1>5. ASSUME NEW w \in writes, CommitWrite(w), Wake(w.change, TRUE)
      PROVE  StoreTypeOK' /\ exchange' \in [Browsers -> Exchange]
  <2>1. w.change \in StoreChange /\ w.next \in SUBSET Sessions BY <1>1 DEF StoreTypeOK, Write
  <2>2. [kind |-> "issue", who |-> w.change.who] \in StoreChange BY <2>1 DEF StoreChange
  <2>3. exchange' \in [Browsers -> Exchange] BY <1>5, <2>1, ExchangeType DEF TypeInv
  <2>4. queue' \in Seq(StoreChange) BY <1>1, <1>5, <2>2 DEF CommitWrite, StoreTypeOK
  <2> QED BY <1>1, <1>5, <2>1, <2>3, <2>4 DEF CommitWrite, StoreTypeOK
<1>6. ASSUME NEW w \in writes, WriteFails(w), Wake(w.change, FALSE)
      PROVE  StoreTypeOK' /\ exchange' \in [Browsers -> Exchange]
  <2>1. w.change \in StoreChange BY <1>1 DEF StoreTypeOK, Write
  <2>2. exchange' \in [Browsers -> Exchange] BY <1>6, <2>1, ExchangeType DEF TypeInv
  <2> QED BY <1>1, <1>6, <2>2 DEF WriteFails, StoreTypeOK
<1> QED BY <1>2, <1>3, <1>4, <1>5, <1>6 DEF StoreStep

LEMMA OwnerTypeStep ==
  ASSUME TypeInv, OwnerAsks
  PROVE  StoreTypeOK' /\ exchange' \in [Browsers -> Exchange]
<1>1. queue \in Seq(StoreChange) /\ memory \subseteq Sessions /\ Desktops \subseteq Sessions
  BY DEF TypeInv, AuthTypeOK, StoreTypeOK, Sessions
<1>2. queue' \in Seq(StoreChange) BY <1>1, MutateType DEF OwnerAsks
<1> QED BY <1>2 DEF OwnerAsks, TypeInv, AuthTypeOK, StoreTypeOK

LEMMA AuthTypeStep ==
  ASSUME TypeInv, StoreInv, [AuthNext]_sessionVars
  PROVE  TypeInv'
<1> USE DEF TypeInv, AuthTypeOK
<1>1. ASSUME NEW enabled \in BOOLEAN, Switch(enabled)
      PROVE  TypeInv'
  <2> DEFINE next == IF enabled THEN generation ELSE generation + 1
  <2>1. next \in 0..MaxGeneration /\ next <= offs' /\ offs' \in 0..MaxGeneration
    BY <1>1, AuthAssumption DEF Switch
  <2>2. [switch |-> TRUE, enabled |-> enabled, generation |-> next, browser |-> Nobody] \in Queued
    BY <2>1 DEF Queued
  <2>3. browserQueue' \in Seq(Queued) BY <1>1, <2>2 DEF Switch
  <2>4. StoreTypeOK' /\ generation' = next BY <1>1 DEF Switch, storeVars, StoreTypeOK
  <2> QED BY <1>1, <2>1, <2>3, <2>4 DEF Switch
<1>2. CASE SwitchTakesEffect BY <1>2 DEF SwitchTakesEffect, storeVars, history, StoreTypeOK, Queued
<1>3. ASSUME NEW t \in Tokens, CreatePairingToken(t)
      PROVE  TypeInv'
  BY <1>3 DEF CreatePairingToken, storeVars, StoreTypeOK
<1>4. ASSUME NEW t \in Tokens, PairingExpires(t)
      PROVE  TypeInv'
  BY <1>4 DEF PairingExpires, storeVars, history, StoreTypeOK
<1>5. ASSUME NEW b \in Browsers, NEW t \in Tokens, Exchanged(b, t)
      PROVE  TypeInv'
  <2>1. [pc |-> "queued", token |-> t, generation |-> generation, cookie |-> FALSE] \in Exchange
    BY DEF Exchange
  <2>2. [switch |-> FALSE, enabled |-> FALSE, generation |-> generation, browser |-> b] \in Queued
    BY DEF Queued
  <2>3. exchange' \in [Browsers -> Exchange] /\ browserQueue' \in Seq(Queued)
    BY <1>5, <2>1, <2>2 DEF Exchanged
  <2> QED BY <1>5, <2>3 DEF Exchanged, storeVars, history, StoreTypeOK
<1>6. ASSUME NEW b \in Browsers, IssueSession(b) \/ HandOver(b) \/ TakenBack(b) \/ ExchangeFails(b)
      PROVE  TypeInv'
  <2>1. b \in Sessions /\ exchange[b] \in Exchange BY DEF Sessions
  <2>2. queue' \in Seq(StoreChange)
    BY <1>6, <2>1, MutateType DEF IssueSession, HandOver, TakenBack, ExchangeFails, storeVars, StoreTypeOK
  <2>3. \A pc \in {"issuing", "undoing"} : [exchange EXCEPT ![b].pc = pc] \in [Browsers -> Exchange]
    BY <2>1 DEF Exchange
  <2>4. \A cookie \in BOOLEAN : Over(b, cookie) =>
          exchange' \in [Browsers -> Exchange] /\ browserQueue' \in Seq(Queued)
    BY <1>6, EndedType DEF Over, Running, IssueSession, HandOver, TakenBack, ExchangeFails
  <2>5. exchange' \in [Browsers -> Exchange] /\ browserQueue' \in Seq(Queued)
    BY <1>6, <2>3, <2>4 DEF IssueSession, HandOver, TakenBack, ExchangeFails
  <2>6. exchange[b].token \in Tokens \cup {Nobody} BY <2>1 DEF Exchange
  <2> QED BY <1>6, <2>2, <2>5, <2>6
       DEF IssueSession, HandOver, TakenBack, ExchangeFails, storeVars, history, StoreTypeOK
<1>7. CASE StoreStep BY <1>7, StoreTypeStep DEF StoreStep, AuthUnchanged, history
<1>8. CASE OwnerAsks BY <1>8, OwnerTypeStep DEF OwnerAsks, AuthUnchanged, history
<1>9. CASE Crash
  <2>1. exchange' \in [Browsers -> Exchange] BY <1>9, EndedType DEF Crash
  <2>2. StoreTypeOK' BY <1>9 DEF Crash, StoreRestarts, StoreTypeOK
  <2>3. /\ access' \in BOOLEAN /\ wanted' = access' /\ pairing' = Nobody
        /\ UNCHANGED <<expired, period, offs>>
    BY <1>9 DEF Crash
  <2>4. generation' = 0 /\ crashes' \in 0..MaxCrashes /\ browserQueue' \in Seq(Queued)
    BY <1>9, AuthAssumption DEF Crash
  <2>5. wanted' \in BOOLEAN BY <2>3
  <2> QED BY <2>1, <2>2, <2>3, <2>4, <2>5, AuthAssumption
<1>10. CASE UNCHANGED sessionVars
  BY <1>10 DEF sessionVars, storeVars, authVars, history, StoreTypeOK
<1> QED BY <1>1, <1>2, <1>3, <1>4, <1>5, <1>6, <1>7, <1>8, <1>9, <1>10 DEF AuthNext

------------------------------
(* The switch for browser access. *)

\* What Append and Tail do to a queue, by its places.
LEMMA AppendFacts ==
  ASSUME NEW S, NEW s \in Seq(S), NEW e \in S
  PROVE  /\ Append(s, e) \in Seq(S)
         /\ Len(s) \in Nat
         /\ Len(Append(s, e)) = Len(s) + 1
         /\ \A i \in 1..Len(s) : Append(s, e)[i] = s[i]
         /\ Append(s, e)[Len(s) + 1] = e
BY AppendProperties, LenProperties

LEMMA TailFacts ==
  ASSUME NEW S, NEW s \in Seq(S), s # <<>>
  PROVE  /\ Len(s) \in Nat /\ Len(s) > 0
         /\ Head(s) = s[1]
         /\ Tail(s) \in Seq(S)
         /\ Len(Tail(s)) = Len(s) - 1
         /\ \A i \in 1..(Len(s) - 1) : Tail(s)[i] = s[i + 1]
<1>1. Len(s) \in Nat /\ Len(s) > 0 /\ Head(s) = s[1] BY EmptySeq, LenProperties
<1> QED BY <1>1, HeadTailProperties

LEMMA SwitchAccess ==
  ASSUME TypeInv, AccessInv, NEW enabled \in BOOLEAN, Switch(enabled)
  PROVE  AccessInv'
<1> DEFINE next == IF enabled THEN generation ELSE generation + 1
           new == [switch |-> TRUE, enabled |-> enabled, generation |-> next, browser |-> Nobody]
           n == Len(browserQueue)
<1>1. browserQueue \in Seq(Queued) /\ generation \in Nat /\ offs \in Nat /\ generation <= offs
      /\ offs \in 0..MaxGeneration
  BY AuthAssumption DEF TypeInv, AuthTypeOK
<1>2. /\ generation' = next /\ wanted' = enabled
      /\ browserQueue' = Append(browserQueue, new)
      /\ enabled => access' = access
      /\ ~ enabled => access' = FALSE /\ offs < MaxGeneration
  BY DEF Switch
<1>3. new \in Queued BY <1>1, <1>2, AuthAssumption DEF Queued
<1>4. /\ n \in Nat /\ Len(browserQueue') = n + 1
      /\ \A i \in 1..n : browserQueue'[i] = browserQueue[i]
      /\ browserQueue'[n + 1] = new
  BY <1>1, <1>2, <1>3, AppendFacts
<1>5. \A i \in 1..n : browserQueue[i].generation <= generation /\ browserQueue[i].generation \in Nat
  <2>1. \A i \in 1..n : browserQueue[i] \in Queued BY <1>1
  <2>2. \A q \in Queued : q.generation \in Nat BY AuthAssumption DEF Queued
  <2> QED BY <2>1, <2>2 DEF AccessInv
<1>6. ASSUME NEW i \in 1..(n + 1)
      PROVE  /\ browserQueue'[i].generation <= generation'
             /\ browserQueue'[i].switch <=> browserQueue'[i].browser = Nobody
             /\ browserQueue'[i].switch /\ Counts(browserQueue[i])' => wanted'
  <2>1. CASE i \in 1..n BY <1>1, <1>2, <1>4, <1>5, <2>1 DEF AccessInv, Counts
  <2>2. CASE i = n + 1 BY <1>1, <1>2, <1>4, <2>2 DEF Counts
  <2> QED BY <1>4, <2>1, <2>2
<1>7. ASSUME wanted'
      PROVE  /\ browserQueue'[n + 1].switch /\ browserQueue'[n + 1].enabled
             /\ browserQueue'[n + 1].generation = generation'
             /\ \A j \in 1..(n + 1) : j <= n + 1
  <2>1. enabled /\ browserQueue'[n + 1] = new /\ next = generation BY <1>2, <1>4, <1>7
  <2>2. \A j \in 1..(n + 1) : j <= n + 1 BY <1>4
  <2> QED BY <1>2, <2>1, <2>2
<1>8. access' => wanted' BY <1>2
<1>9. n + 1 \in 1..(n + 1) BY <1>4
<1>10. wanted' => \E i \in 1..(n + 1) :
                    /\ browserQueue'[i].switch /\ Counts(browserQueue[i])'
                    /\ \A j \in 1..(n + 1) : browserQueue'[j].switch => j <= i
  BY <1>7, <1>9 DEF Counts
<1>11. Len(browserQueue') = n + 1 BY <1>4
<1> QED BY <1>6, <1>8, <1>10, <1>11 DEF AccessInv

LEMMA TakesEffectAccess ==
  ASSUME TypeInv, AccessInv, SwitchTakesEffect
  PROVE  AccessInv'
<1> DEFINE n == Len(browserQueue)
           first == browserQueue[1]
<1>1. browserQueue \in Seq(Queued) /\ access \in BOOLEAN /\ wanted \in BOOLEAN
  BY DEF TypeInv, AuthTypeOK
<1>2. /\ n \in Nat /\ n > 0 /\ Head(browserQueue) = first
      /\ Len(browserQueue') = n - 1
      /\ \A i \in 1..(n - 1) : browserQueue'[i] = browserQueue[i + 1]
  BY <1>1, TailFacts DEF SwitchTakesEffect
<1>3. first.switch /\ access' = Counts(first) /\ wanted' = wanted /\ generation' = generation
  BY <1>2 DEF SwitchTakesEffect, history, Counts
<1>4. \A i \in 1..(n - 1) :
        /\ browserQueue'[i].generation <= generation'
        /\ browserQueue'[i].switch <=> browserQueue'[i].browser = Nobody
        /\ browserQueue'[i].switch /\ Counts(browserQueue[i])' => wanted'
  BY <1>2, <1>3 DEF AccessInv, Counts
<1>5. ASSUME wanted
      PROVE  \/ access' /\ \A i \in 1..(n - 1) : ~ browserQueue'[i].switch
             \/ \E i \in 1..(n - 1) :
                  /\ browserQueue'[i].switch /\ Counts(browserQueue[i])'
                  /\ \A j \in 1..(n - 1) : browserQueue'[j].switch => j <= i
  <2>1. PICK i \in 1..n : /\ browserQueue[i].switch /\ Counts(browserQueue[i])
                          /\ \A j \in 1..n : browserQueue[j].switch => j <= i
    BY <1>2, <1>3, <1>5 DEF AccessInv
  <2>2. CASE i = 1 BY <1>2, <1>3, <2>1, <2>2
  <2>3. CASE i > 1
    <3>1. i - 1 \in 1..(n - 1) /\ browserQueue'[i - 1] = browserQueue[i] BY <1>2, <2>3
    <3>2. ASSUME NEW j \in 1..(n - 1), browserQueue'[j].switch
          PROVE  j <= i - 1
      <4>1. j + 1 \in 1..n /\ browserQueue[j + 1].switch BY <1>2, <3>2
      <4>2. j + 1 <= i BY <2>1, <4>1
      <4> QED BY <4>2
    <3> QED BY <1>3, <2>1, <3>1, <3>2 DEF Counts
  <2> QED BY <1>2, <2>2, <2>3
<1>6. access' => wanted'
  <2>1. 1 \in 1..n BY <1>2
  <2> QED BY <1>3, <2>1 DEF AccessInv
<1> QED BY <1>2, <1>3, <1>4, <1>5, <1>6 DEF AccessInv

\* An exchange that queues, or one that leaves the queue, is no switch.
LEMMA ExchangeQueues ==
  ASSUME TypeInv, AccessInv, NEW b \in Browsers, NEW t \in Tokens, Exchanged(b, t)
  PROVE  AccessInv'
<1> DEFINE new == [switch |-> FALSE, enabled |-> FALSE, generation |-> generation, browser |-> b]
           n == Len(browserQueue)
<1>1. browserQueue \in Seq(Queued) /\ generation \in 0..MaxGeneration BY DEF TypeInv, AuthTypeOK
<1>2. /\ UNCHANGED <<generation, wanted, access>>
      /\ browserQueue' = Append(browserQueue, new)
  BY DEF Exchanged, history
<1>3. new \in Queued BY <1>1 DEF Queued
<1>4. /\ n \in Nat /\ Len(browserQueue') = n + 1
      /\ \A i \in 1..n : browserQueue'[i] = browserQueue[i]
      /\ browserQueue'[n + 1] = new
  BY <1>1, <1>2, <1>3, AppendFacts
<1>5. b # Nobody /\ generation <= generation BY <1>1, StoreAssumption
<1>6. \A i \in 1..(n + 1) :
        /\ browserQueue'[i].generation <= generation'
        /\ browserQueue'[i].switch <=> browserQueue'[i].browser = Nobody
        /\ browserQueue'[i].switch /\ Counts(browserQueue[i])' => wanted'
  BY <1>2, <1>4, <1>5 DEF AccessInv, Counts
<1>7. \A i \in 1..n : i \in 1..(n + 1) /\ (Counts(browserQueue[i]) => Counts(browserQueue[i])')
  BY <1>2, <1>4 DEF Counts
<1>8. \A i \in 1..(n + 1) : browserQueue'[i].switch => i \in 1..n /\ browserQueue[i].switch BY <1>4
<1> QED BY <1>2, <1>4, <1>6, <1>7, <1>8 DEF AccessInv

LEMMA ExchangeLeaves ==
  ASSUME TypeInv, AccessInv, NEW b \in Browsers, Head(browserQueue).browser = b, browserQueue # <<>>,
         browserQueue' = Tail(browserQueue), UNCHANGED <<generation, wanted, access>>
  PROVE  AccessInv'
<1> DEFINE n == Len(browserQueue)
<1>1. browserQueue \in Seq(Queued) BY DEF TypeInv, AuthTypeOK
<1>2. /\ n \in Nat /\ n > 0 /\ Head(browserQueue) = browserQueue[1]
      /\ Len(browserQueue') = n - 1
      /\ \A i \in 1..(n - 1) : browserQueue'[i] = browserQueue[i + 1]
  BY <1>1, TailFacts
<1>3. ~ browserQueue[1].switch BY <1>2, StoreAssumption DEF AccessInv
<1>4. \A i \in 1..(n - 1) :
        /\ browserQueue'[i].generation <= generation'
        /\ browserQueue'[i].switch <=> browserQueue'[i].browser = Nobody
        /\ browserQueue'[i].switch /\ Counts(browserQueue[i])' => wanted'
  BY <1>2 DEF AccessInv, Counts
<1>5. ASSUME wanted
      PROVE  \/ access' /\ \A i \in 1..(n - 1) : ~ browserQueue'[i].switch
             \/ \E i \in 1..(n - 1) :
                  /\ browserQueue'[i].switch /\ Counts(browserQueue[i])'
                  /\ \A j \in 1..(n - 1) : browserQueue'[j].switch => j <= i
  <2>1. CASE access /\ \A i \in 1..n : ~ browserQueue[i].switch BY <1>2, <2>1
  <2>2. ASSUME NEW i \in 1..n, browserQueue[i].switch, Counts(browserQueue[i]),
               \A j \in 1..n : browserQueue[j].switch => j <= i
        PROVE  \E m \in 1..(n - 1) :
                  /\ browserQueue'[m].switch /\ Counts(browserQueue[m])'
                  /\ \A j \in 1..(n - 1) : browserQueue'[j].switch => j <= m
    <3>1. i - 1 \in 1..(n - 1) /\ browserQueue'[i - 1] = browserQueue[i] BY <1>2, <1>3, <2>2
    <3>2. \A j \in 1..(n - 1) : browserQueue'[j].switch => j <= i - 1 BY <1>2, <2>2
    <3> QED BY <2>2, <3>1, <3>2 DEF Counts
  <2> QED BY <1>5, <2>1, <2>2 DEF AccessInv
<1> QED BY <1>2, <1>4, <1>5 DEF AccessInv

LEMMA AccessUnchanged ==
  ASSUME AccessInv, UNCHANGED <<browserQueue, generation, wanted, access>>
  PROVE  AccessInv'
BY DEF AccessInv, Counts

LEMMA AccessStep ==
  ASSUME TypeInv, AccessInv, [AuthNext]_sessionVars
  PROVE  AccessInv'
<1>1. ASSUME NEW enabled \in BOOLEAN, Switch(enabled)
      PROVE  AccessInv'
  BY <1>1, SwitchAccess
<1>2. CASE SwitchTakesEffect BY <1>2, TakesEffectAccess
<1>3. ASSUME NEW t \in Tokens, CreatePairingToken(t) \/ PairingExpires(t)
      PROVE  AccessInv'
  BY <1>3, AccessUnchanged DEF CreatePairingToken, PairingExpires, history
<1>4. ASSUME NEW b \in Browsers, NEW t \in Tokens, Exchanged(b, t)
      PROVE  AccessInv'
  BY <1>4, ExchangeQueues
<1>5. ASSUME NEW b \in Browsers, IssueSession(b) \/ HandOver(b) \/ TakenBack(b) \/ ExchangeFails(b)
      PROVE  AccessInv'
  <2>1. UNCHANGED <<generation, wanted, access>> /\ browserQueue # <<>> /\ Head(browserQueue).browser = b
    BY <1>5 DEF IssueSession, HandOver, TakenBack, ExchangeFails, Running, history
  <2>2. UNCHANGED browserQueue \/ browserQueue' = Tail(browserQueue)
    BY <1>5 DEF IssueSession, HandOver, TakenBack, ExchangeFails, Over
  <2> QED BY <2>1, <2>2, ExchangeLeaves, AccessUnchanged
<1>6. CASE StoreStep \/ OwnerAsks
  BY <1>6, AccessUnchanged DEF StoreStep, OwnerAsks, AuthUnchanged, history
<1>7. CASE Crash BY <1>7 DEF Crash, AccessInv
<1>8. CASE UNCHANGED sessionVars BY <1>8, AccessUnchanged DEF sessionVars, authVars, history
<1> QED BY <1>1, <1>2, <1>3, <1>4, <1>5, <1>6, <1>7, <1>8 DEF AuthNext

------------------------------
(* Pairing tokens. *)

\* A change that is over moves the exchange that waited for it, and no other.
LEMMA WakeMoves ==
  ASSUME TypeInv, NEW c \in StoreChange, ChangeOK(c), NEW ok, Wake(c, ok), NEW b \in Browsers
  PROVE  /\ exchange'[b] = exchange[b] \/
              /\ b = c.who /\ c.kind \in {"issue", "undo"}
              /\ exchange[b].pc \in {"issuing", "undoing"}
              /\ exchange'[b] = [exchange[b] EXCEPT !.pc =
                   IF ~ ok THEN "failed" ELSE IF c.kind = "issue" THEN "issued" ELSE "undone"]
         /\ b = c.who /\ c.kind \in {"issue", "undo"} =>
              exchange'[b].pc = IF ~ ok THEN "failed" ELSE IF c.kind = "issue" THEN "issued" ELSE "undone"
         /\ exchange'[b].token = exchange[b].token
         /\ exchange'[b].generation = exchange[b].generation
         /\ exchange'[b].cookie = exchange[b].cookie
<1>1. exchange[b] \in Exchange BY DEF TypeInv, AuthTypeOK
<1>2. CASE ~ (b = c.who /\ c.kind \in {"issue", "undo"}) BY <1>1, <1>2 DEF Wake
<1>3. CASE b = c.who /\ c.kind \in {"issue", "undo"}
  <2>1. exchange[b].pc \in {"issuing", "undoing"} BY <1>3 DEF ChangeOK
  <2>2. exchange'[b] = [exchange[b] EXCEPT !.pc =
                          IF ~ ok THEN "failed" ELSE IF c.kind = "issue" THEN "issued" ELSE "undone"]
    BY <1>3 DEF Wake
  <2> QED BY <1>1, <1>3, <2>1, <2>2 DEF Exchange
<1> QED BY <1>2, <1>3

\* A step in which exchanges at most move on.
LEMMA TokensStay ==
  ASSUME TokenInv, UNCHANGED <<pairing, period, offs, generation>>,
         \A b \in Browsers :
           /\ exchange'[b].token = exchange[b].token
           /\ exchange'[b].generation = exchange[b].generation
           /\ exchange'[b].cookie = exchange[b].cookie
           /\ \/ exchange'[b].pc = exchange[b].pc
              \/ exchange[b].pc \notin {"idle", "over"} /\ exchange'[b].pc \notin {"idle", "over"}
  PROVE  TokenInv'
<1>1. ASSUME NEW b \in Browsers
      PROVE  TokenOK(b)'
  BY DEF TokenInv, TokenOK, Live
<1> QED BY <1>1 DEF TokenInv

\* One exchange ends, without its token or with a cookie for it.
LEMMA TokensEnd ==
  ASSUME TypeInv, TokenInv, NEW b \in Browsers, NEW cookie \in BOOLEAN, Live(b),
         exchange' = [exchange EXCEPT ![b] = Ended(b, cookie)],
         UNCHANGED <<period, offs, generation>>,
         \/ pairing' = pairing
         \/ ~ cookie /\ pairing' = exchange[b].token /\ exchange[b].generation = generation
  PROVE  TokenInv'
<1>1. /\ exchange \in [Browsers -> Exchange] /\ exchange[b].token # Nobody
      /\ exchange[b].token = exchange[b].token
  BY DEF TypeInv, AuthTypeOK, TokenInv, TokenOK
<1>2. /\ exchange'[b].token = IF cookie THEN exchange[b].token ELSE Nobody
      /\ exchange'[b].pc = "over" /\ exchange'[b].cookie = cookie
      /\ \A a \in Browsers \ {b} : exchange'[a] = exchange[a]
  BY <1>1 DEF Ended
<1>3. ASSUME NEW a \in Browsers
      PROVE  TokenOK(a)'
  <2>1. CASE a = b BY <1>1, <1>2, <2>1 DEF TokenInv, TokenOK, Live
  <2>2. CASE a # b BY <1>1, <1>2, <2>2 DEF TokenInv, TokenOK, Live
  <2> QED BY <2>1, <2>2
<1>4. \A a, c \in Browsers :
        exchange'[a].token # Nobody /\ exchange'[a].token = exchange'[c].token => a = c
  BY <1>1, <1>2 DEF TokenInv
<1>5. pairing' # Nobody => period'[pairing'] = offs' BY DEF TokenInv, TokenOK
<1> QED BY <1>3, <1>4, <1>5 DEF TokenInv

LEMMA TokenStep ==
  ASSUME TypeInv, TokenInv, StoreInv, [AuthNext]_sessionVars
  PROVE  TokenInv'
<1>1. ASSUME NEW enabled \in BOOLEAN, Switch(enabled)
      PROVE  TokenInv'
  <2>1. CASE enabled BY <1>1, <2>1, TokensStay DEF Switch
  <2>2. CASE ~ enabled
    <3>1. /\ pairing' = Nobody /\ generation' = generation + 1 /\ UNCHANGED <<exchange, period>>
          /\ generation \in Nat
      BY <1>1, <2>2, AuthAssumption DEF Switch, TypeInv, AuthTypeOK
    <3>2. ASSUME NEW b \in Browsers
          PROVE  TokenOK(b)'
      <4>1. exchange[b].generation \in Nat BY AuthAssumption DEF TypeInv, AuthTypeOK, Exchange
      <4> QED BY <3>1, <4>1 DEF TokenInv, TokenOK, Live
    <3> QED BY <3>1, <3>2 DEF TokenInv
  <2> QED BY <2>1, <2>2
<1>2. CASE SwitchTakesEffect BY <1>2, TokensStay DEF SwitchTakesEffect, history
<1>3. ASSUME NEW t \in Tokens, CreatePairingToken(t)
      PROVE  TokenInv'
  <2>1. /\ pairing' = t /\ period[t] = -1 /\ period' = [period EXCEPT ![t] = offs]
        /\ UNCHANGED <<exchange, generation, offs>>
        /\ period \in [Tokens -> -1..MaxGeneration] /\ offs \in Nat
    BY <1>3, AuthAssumption DEF CreatePairingToken, TypeInv, AuthTypeOK
  <2>2. period'[t] = offs /\ \A u \in Tokens \ {t} : period'[u] = period[u] BY <2>1
  <2>3. ASSUME NEW b \in Browsers
        PROVE  TokenOK(b)'
    <3>1. exchange[b].token \in Tokens \cup {Nobody} BY DEF TypeInv, AuthTypeOK, Exchange
    <3>2. exchange[b].token # t BY <2>1, AuthAssumption DEF TokenInv, TokenOK
    <3> QED BY <2>1, <2>2, <3>1, <3>2 DEF TokenInv, TokenOK, Live
  <2> QED BY <2>1, <2>2, <2>3 DEF TokenInv
<1>4. ASSUME NEW t \in Tokens, PairingExpires(t)
      PROVE  TokenInv'
  <2>1. pairing' \in {pairing, Nobody} /\ UNCHANGED <<exchange, generation, offs, period>>
    BY <1>4 DEF PairingExpires, history
  <2>2. \A b \in Browsers : TokenOK(b)' BY <2>1 DEF TokenInv, TokenOK, Live
  <2> QED BY <2>1, <2>2 DEF TokenInv
<1>5. ASSUME NEW b \in Browsers, NEW t \in Tokens, Exchanged(b, t)
      PROVE  TokenInv'
  <2>1. /\ pairing = t /\ t # Nobody /\ pairing' = Nobody
        /\ UNCHANGED <<generation, offs, period>>
        /\ generation \in Nat /\ offs \in Nat
    BY <1>5, AuthAssumption DEF Exchanged, history, TypeInv, AuthTypeOK
  <2>2. /\ exchange'[b] = [pc |-> "queued", token |-> t, generation |-> generation, cookie |-> FALSE]
        /\ \A a \in Browsers \ {b} : exchange'[a] = exchange[a]
    BY <1>5 DEF Exchanged, TypeInv, AuthTypeOK
  <2>3. period[t] = offs /\ \A a \in Browsers : exchange[a].token # t BY <2>1 DEF TokenInv, TokenOK
  <2>4. ASSUME NEW a \in Browsers
        PROVE  TokenOK(a)'
    BY <2>1, <2>2, <2>3 DEF TokenInv, TokenOK, Live
  <2>5. \A a, c \in Browsers :
          exchange'[a].token # Nobody /\ exchange'[a].token = exchange'[c].token => a = c
    BY <2>2, <2>3 DEF TokenInv
  <2> QED BY <2>1, <2>4, <2>5 DEF TokenInv
<1>6. ASSUME NEW b \in Browsers, IssueSession(b) \/ HandOver(b) \/ TakenBack(b) \/ ExchangeFails(b)
      PROVE  TokenInv'
  <2>1. Live(b) /\ UNCHANGED <<generation, offs, period>> /\ exchange \in [Browsers -> Exchange]
    BY <1>6 DEF IssueSession, HandOver, TakenBack, ExchangeFails, Running, Live, history, TypeInv, AuthTypeOK
  <2>2. CASE \E cookie \in BOOLEAN : Over(b, cookie) /\ UNCHANGED pairing
    BY <2>1, <2>2, TokensEnd DEF Over
  <2>3. CASE ExchangeFails(b)
    <3>1. exchange' = [exchange EXCEPT ![b] = Ended(b, FALSE)] BY <2>3 DEF ExchangeFails, Over
    <3>2. pairing' = pairing \/ (pairing' = exchange[b].token /\ exchange[b].generation = generation)
      BY <2>3 DEF ExchangeFails, SamePeriod
    <3> QED BY <2>1, <3>1, <3>2, TokensEnd
  <2>4. CASE \E pc \in {"issuing", "undoing"} : exchange' = [exchange EXCEPT ![b].pc = pc] /\ UNCHANGED pairing
    <3>1. PICK pc \in {"issuing", "undoing"} : exchange' = [exchange EXCEPT ![b].pc = pc] BY <2>4
    <3>2. ASSUME NEW a \in Browsers
          PROVE  /\ exchange'[a].token = exchange[a].token
                 /\ exchange'[a].generation = exchange[a].generation
                 /\ exchange'[a].cookie = exchange[a].cookie
                 /\ \/ exchange'[a].pc = exchange[a].pc
                    \/ exchange[a].pc \notin {"idle", "over"} /\ exchange'[a].pc \notin {"idle", "over"}
      BY <2>1, <3>1 DEF Live, Exchange
    <3> QED BY <2>1, <2>4, <3>2, TokensStay
  <2> QED BY <1>6, <2>2, <2>3, <2>4 DEF IssueSession, HandOver, TakenBack
<1>7. CASE StoreStep
  <2>1. UNCHANGED <<pairing, period, offs, generation>>
    BY <1>7 DEF StoreStep, AuthUnchanged, history
  <2>2. CASE UNCHANGED exchange BY <2>1, <2>2, TokensStay
  <2>3. ASSUME NEW c \in StoreChange, NEW ok, ChangeOK(c), Wake(c, ok)
        PROVE  TokenInv'
    <3>1. ASSUME NEW a \in Browsers
          PROVE  /\ exchange'[a].token = exchange[a].token
                 /\ exchange'[a].generation = exchange[a].generation
                 /\ exchange'[a].cookie = exchange[a].cookie
                 /\ \/ exchange'[a].pc = exchange[a].pc
                    \/ exchange[a].pc \notin {"idle", "over"} /\ exchange'[a].pc \notin {"idle", "over"}
      <4>1. /\ exchange'[a].token = exchange[a].token
            /\ exchange'[a].generation = exchange[a].generation
            /\ exchange'[a].cookie = exchange[a].cookie
        BY <2>3, WakeMoves
      <4>2. \/ exchange'[a] = exchange[a]
            \/ /\ a = c.who /\ c.kind \in {"issue", "undo"}
               /\ exchange[a].pc \in {"issuing", "undoing"}
        BY <2>3, WakeMoves
      <4>3. a = c.who /\ c.kind \in {"issue", "undo"} => exchange'[a].pc \in {"failed", "issued", "undone"}
        BY <2>3, WakeMoves
      <4> QED BY <4>1, <4>2, <4>3
    <3> QED BY <2>1, <3>1, TokensStay
  <2>4. ASSUME NEW c \in StoreChange, NothingToWrite(c), Wake(c, TRUE)
        PROVE  TokenInv'
    <3>1. ChangeOK(c)
      <4>1. queue \in Seq(StoreChange) /\ queue # <<>> /\ c = Head(queue)
        BY <2>4 DEF NothingToWrite, Turn, TypeInv, AuthTypeOK, StoreTypeOK
      <4>2. c = queue[1] /\ 1 \in 1..Len(queue) BY <4>1, TailFacts
      <4> QED BY <4>2 DEF StoreInv, QueueInv
    <3> QED BY <2>3, <2>4, <3>1
  <2>5. ASSUME NEW w \in writes, NEW ok, Wake(w.change, ok)
        PROVE  TokenInv'
    <3>1. w.change \in StoreChange /\ ChangeOK(w.change)
      BY DEF TypeInv, AuthTypeOK, StoreTypeOK, Write, StoreInv, QueueInv
    <3> QED BY <2>3, <2>5, <3>1
  <2> QED BY <1>7, <2>2, <2>4, <2>5 DEF StoreStep
<1>8. CASE OwnerAsks BY <1>8, TokensStay DEF OwnerAsks, AuthUnchanged, history
<1>9. CASE Crash
  <2>1. /\ pairing' = Nobody /\ generation' = 0 /\ UNCHANGED <<period, offs>>
        /\ \A b \in Browsers : exchange'[b] = IF exchange[b].pc \in {"idle", "over"} THEN exchange[b]
                                              ELSE Ended(b, FALSE)
    BY <1>9 DEF Crash
  <2>2. \A b \in Browsers : Ended(b, FALSE).token = Nobody /\ Ended(b, FALSE).pc = "over"
                            /\ Ended(b, FALSE).cookie = FALSE
    BY DEF Ended
  <2>3. ASSUME NEW b \in Browsers
        PROVE  TokenOK(b)'
    <3>1. exchange[b].token \in Tokens \cup {Nobody} BY DEF TypeInv, AuthTypeOK, Exchange
    <3> QED BY <2>1, <2>2, <3>1 DEF TokenInv, TokenOK, Live
  <2>4. \A a, c \in Browsers :
          exchange'[a].token # Nobody /\ exchange'[a].token = exchange'[c].token => a = c
    BY <2>1, <2>2 DEF TokenInv
  <2> QED BY <2>1, <2>3, <2>4 DEF TokenInv
<1>10. CASE UNCHANGED sessionVars BY <1>10, TokensStay DEF sessionVars, authVars, history
<1> QED BY <1>1, <1>2, <1>3, <1>4, <1>5, <1>6, <1>7, <1>8, <1>9, <1>10 DEF AuthNext

------------------------------
(* The store. *)

\* How exchanges may move in a step that finishes no change.
Quiet(b) ==
  /\ exchange[b].pc \in {"issuing", "undoing"} => exchange'[b].pc = exchange[b].pc
  /\ exchange'[b].pc \in {"idle", "queued"} => exchange[b].pc \in {"idle", "queued"}
  /\ exchange'[b].pc = "issued" \/ exchange'[b].cookie => exchange[b].pc = "issued" \/ exchange[b].cookie

LEMMA QuietChange ==
  ASSUME NEW c \in StoreChange, ChangeOK(c), UNCHANGED <<memory, asked>>, \A b \in Browsers : Quiet(b)
  PROVE  ChangeOK(c)'
BY DEF ChangeOK, Issues, Quiet

LEMMA QuietStore ==
  ASSUME TypeInv, StoreInv, UNCHANGED storeVars, \A b \in Browsers : Quiet(b)
  PROVE  StoreInv'
<1>1. UNCHANGED <<memory, stored, queue, writes, asked, revoked>> BY DEF storeVars
<1>2. (\A i \in 1..Len(queue) : queue[i] \in StoreChange) /\ (\A w \in writes : w.change \in StoreChange)
  BY DEF TypeInv, AuthTypeOK, StoreTypeOK, Write
<1>3. QueueInv'
  <2>1. (\A i \in 1..Len(queue) : ChangeOK(queue[i])') /\ (\A w \in writes : ChangeOK(w.change)')
    BY <1>1, <1>2, QuietChange DEF StoreInv, QueueInv
  <2> QED BY <1>1, <2>1 DEF StoreInv, QueueInv, Claims
<1>4. WriteInv' /\ (revoked \subseteq asked)' /\ RevokedStaysRevoked'
  BY <1>1 DEF StoreInv, WriteInv, After, RevokedStaysRevoked
<1>5. \A b \in Browsers : SessionOK(b)' BY <1>1 DEF StoreInv, SessionOK, Quiet
<1> QED BY <1>3, <1>4, <1>5 DEF StoreInv

\* A change nobody else waits for joins the queue.
LEMMA AppendStore ==
  ASSUME TypeInv, StoreInv, NEW c \in StoreChange, queue' = Append(queue, c),
         UNCHANGED <<memory, stored, writes, asked, revoked>>, \A b \in Browsers : Quiet(b),
         ChangeOK(c)',
         Claims(c) => /\ \A i \in 1..Len(queue) : Claims(queue[i]) => queue[i].who # c.who
                      /\ \A w \in writes : Claims(w.change) => w.change.who # c.who
  PROVE  StoreInv'
<1> DEFINE n == Len(queue)
<1>1. (\A i \in 1..n : queue[i] \in StoreChange) /\ (\A w \in writes : w.change \in StoreChange)
      /\ queue \in Seq(StoreChange)
  BY DEF TypeInv, AuthTypeOK, StoreTypeOK, Write
<1>2. /\ n \in Nat /\ Len(queue') = n + 1 /\ queue'[n + 1] = c
      /\ \A i \in 1..n : queue'[i] = queue[i]
  BY <1>1, AppendFacts
<1>3. (\A i \in 1..n : ChangeOK(queue[i])) /\ (\A w \in writes : ChangeOK(w.change))
  BY DEF StoreInv, QueueInv
<1>4. \A d \in StoreChange : ChangeOK(d) => ChangeOK(d)' BY QuietChange
<1>5. \A i \in 1..(n + 1) : ChangeOK(queue[i])'
  <2>1. ASSUME NEW i \in 1..(n + 1)
        PROVE  ChangeOK(queue[i])'
    <3>1. CASE i \in 1..n
      <4>1. ChangeOK(queue[i]) /\ queue[i] \in StoreChange /\ queue'[i] = queue[i]
        BY <1>1, <1>2, <1>3, <3>1
      <4> QED BY <4>1, QuietChange DEF ChangeOK, Issues
    <3>2. CASE i = n + 1 BY <1>2, <3>2 DEF ChangeOK, Issues
    <3> QED BY <1>2, <3>1, <3>2
  <2> QED BY <2>1
<1>6. \A w \in writes : ChangeOK(w.change)' BY <1>1, <1>3, <1>4
<1>7. \A i, j \in 1..(n + 1) :
        Claims(queue'[i]) /\ Claims(queue'[j]) /\ queue'[i].who = queue'[j].who => i = j
  BY <1>2 DEF StoreInv, QueueInv
<1>8. \A w \in writes : \A i \in 1..(n + 1) :
        Claims(w.change) /\ Claims(queue'[i]) => w.change.who # queue'[i].who
  BY <1>2 DEF StoreInv, QueueInv
<1>9. QueueInv' BY <1>2, <1>5, <1>6, <1>7, <1>8 DEF QueueInv, Claims
<1>10. WriteInv' /\ (revoked \subseteq asked)' /\ RevokedStaysRevoked'
  BY DEF StoreInv, WriteInv, After, RevokedStaysRevoked
<1>11. \A b \in Browsers : SessionOK(b)' BY DEF StoreInv, SessionOK, Quiet
<1> QED BY <1>9, <1>10, <1>11 DEF StoreInv

\* When a change is over, the others are still what they were, and the exchange that waited
\* has its answer.
LEMMA WokenChange ==
  ASSUME TypeInv, NEW c \in StoreChange, ChangeOK(c), NEW ok, Wake(c, ok),
         NEW d \in StoreChange, ChangeOK(d), Claims(c) /\ Claims(d) => c.who # d.who,
         Issues(d) => d.who \notin memory' /\ d.who \notin asked'
  PROVE  ChangeOK(d)'
<1>1. \A b \in Browsers : b # c.who \/ ~ Claims(c) => exchange'[b] = exchange[b]
  BY WakeMoves DEF Claims
<1> QED BY <1>1 DEF ChangeOK, Issues, Claims

LEMMA WokenSession ==
  ASSUME TypeInv, NEW c \in StoreChange, ChangeOK(c), NEW ok, Wake(c, ok), NEW b \in Browsers
  PROVE  /\ exchange'[b].pc \in {"idle", "queued"} => exchange[b].pc \in {"idle", "queued"}
         /\ exchange'[b].pc = "issued" =>
              exchange[b].pc = "issued" \/ (ok /\ c.kind = "issue" /\ b = c.who)
         /\ exchange'[b].cookie = exchange[b].cookie
<1>1. exchange'[b].cookie = exchange[b].cookie BY WakeMoves
<1>2. \/ exchange'[b] = exchange[b]
      \/ /\ b = c.who /\ c.kind \in {"issue", "undo"}
         /\ exchange'[b].pc = IF ~ ok THEN "failed" ELSE IF c.kind = "issue" THEN "issued" ELSE "undone"
  BY WakeMoves
<1> QED BY <1>1, <1>2

\* What a write puts in the place of the sessions: of those in memory, what it keeps, and
\* nothing that was revoked.
LEMMA NextFacts ==
  ASSUME TypeInv, StoreInv, NEW w \in writes
  PROVE  /\ w \in Write /\ w.change \in StoreChange /\ ChangeOK(w.change)
         /\ w.next = After(w.change)
         /\ w.next \subseteq memory \cup {w.change.who}
         /\ w.change.kind # "issue" => w.next \subseteq memory
         /\ w.change.kind = "issue" => w.change.who \in w.next
         /\ memory \ w.next \subseteq asked
         /\ writes = {w}
         /\ w.next \cap revoked = {}
         /\ \A b \in Browsers : exchange[b].pc \in {"idle", "queued"} => b \notin w.next
<1>1. w \in Write /\ w.change \in StoreChange /\ ChangeOK(w.change) /\ StoreTypeOK
  BY DEF TypeInv, AuthTypeOK, StoreTypeOK, Write, StoreInv, QueueInv
<1>2. w.next = After(w.change) /\ memory \ w.next \subseteq asked /\ writes = {w}
  BY DEF StoreInv, WriteInv
<1>3. /\ w.next \subseteq memory \cup {w.change.who}
      /\ w.change.kind # "issue" => w.next \subseteq memory
      /\ w.change.kind = "issue" => w.change.who \in w.next
  BY <1>1, <1>2, AfterFacts DEF ChangeOK
<1>4. w.next \cap revoked = {}
  <2>1. revoked \subseteq asked /\ revoked \cap memory = {} BY DEF StoreInv, RevokedStaysRevoked
  <2>2. w.change.kind = "issue" => w.change.who \notin asked BY <1>1 DEF ChangeOK, Issues
  <2> QED BY <1>3, <2>1, <2>2
<1>5. ASSUME NEW b \in Browsers, exchange[b].pc \in {"idle", "queued"}
      PROVE  b \notin w.next
  <2>1. b \notin memory BY <1>5 DEF StoreInv, SessionOK
  <2>2. ~ (w.change.kind = "issue" /\ w.change.who = b) BY <1>1, <1>5 DEF ChangeOK
  <2> QED BY <1>3, <2>1, <2>2
<1> QED BY <1>1, <1>2, <1>3, <1>4, <1>5

\* The first change of the queue.
LEMMA FirstChange ==
  ASSUME TypeInv, StoreInv, queue # <<>>
  PROVE  /\ Head(queue) = queue[1] /\ Head(queue) \in StoreChange /\ ChangeOK(Head(queue))
         /\ Len(queue) \in Nat /\ Len(queue) > 0
         /\ Len(Tail(queue)) = Len(queue) - 1
         /\ \A i \in 1..(Len(queue) - 1) : i + 1 \in 1..Len(queue) /\ Tail(queue)[i] = queue[i + 1]
         /\ \A i \in 1..(Len(queue) - 1) : Tail(queue)[i] \in StoreChange /\ ChangeOK(Tail(queue)[i])
         /\ \A i, j \in 1..(Len(queue) - 1) :
              Claims(Tail(queue)[i]) /\ Claims(Tail(queue)[j]) /\ Tail(queue)[i].who = Tail(queue)[j].who
              => i = j
         /\ \A i \in 1..(Len(queue) - 1) :
              Claims(Head(queue)) /\ Claims(Tail(queue)[i]) => Head(queue).who # Tail(queue)[i].who
<1>1. queue \in Seq(StoreChange) BY DEF TypeInv, AuthTypeOK, StoreTypeOK
<1>2. /\ Len(queue) \in Nat /\ Len(queue) > 0 /\ Head(queue) = queue[1]
      /\ Len(Tail(queue)) = Len(queue) - 1
      /\ \A i \in 1..(Len(queue) - 1) : Tail(queue)[i] = queue[i + 1]
  BY <1>1, TailFacts
<1>3. 1 \in 1..Len(queue) /\ \A i \in 1..(Len(queue) - 1) : i + 1 \in 1..Len(queue) /\ i + 1 # 1
  BY <1>2
<1>4. \A i \in 1..Len(queue) : queue[i] \in StoreChange /\ ChangeOK(queue[i])
  BY <1>1 DEF StoreInv, QueueInv
<1>5. ASSUME NEW i \in 1..(Len(queue) - 1), NEW j \in 1..(Len(queue) - 1),
             Claims(Tail(queue)[i]), Claims(Tail(queue)[j]), Tail(queue)[i].who = Tail(queue)[j].who
      PROVE  i = j
  <2>1. i + 1 = j + 1 BY <1>2, <1>3, <1>5 DEF StoreInv, QueueInv
  <2> QED BY <2>1
<1>6. ASSUME NEW i \in 1..(Len(queue) - 1), Claims(Head(queue)), Claims(Tail(queue)[i])
      PROVE  Head(queue).who # Tail(queue)[i].who
  BY <1>2, <1>3, <1>6 DEF StoreInv, QueueInv
<1> QED BY <1>2, <1>3, <1>4, <1>5, <1>6

LEMMA BeginWriteStore ==
  ASSUME TypeInv, StoreInv, BeginWrite, UNCHANGED exchange
  PROVE  StoreInv'
<1> DEFINE change == Head(queue)
           new == [change |-> change, next |-> After(change), landed |-> FALSE]
           n == Len(queue)
<1>1. /\ queue # <<>> /\ queue' = Tail(queue) /\ writes' = {new}
      /\ asked' = asked \cup (memory \ After(change))
      /\ UNCHANGED <<memory, stored, revoked>>
  BY DEF BeginWrite, Turn
<1>2. change \in StoreChange /\ ChangeOK(change) /\ n \in Nat /\ Len(queue') = n - 1
  BY <1>1, FirstChange
<1>3. \A d : ChangeOK(d) => ChangeOK(d)' BY <1>1 DEF ChangeOK, Issues
<1>4. \A i \in 1..(n - 1) : ChangeOK(queue[i])'
  <2>1. ASSUME NEW i \in 1..(n - 1)
        PROVE  ChangeOK(queue[i])'
    <3>1. ChangeOK(Tail(queue)[i]) BY <1>1, FirstChange
    <3> QED BY <1>1, <3>1 DEF ChangeOK, Issues
  <2> QED BY <2>1
<1>5. QueueInv'
  <2>1. \A i, j \in 1..(n - 1) :
          Claims(queue'[i]) /\ Claims(queue'[j]) /\ queue'[i].who = queue'[j].who => i = j
    BY <1>1, FirstChange
  <2>2. \A i \in 1..(n - 1) : Claims(change) /\ Claims(queue'[i]) => change.who # queue'[i].who
    BY <1>1, FirstChange
  <2>3. \A w \in writes' : w.change = change BY <1>1
  <2>4. \A w \in writes' : ChangeOK(w.change)' BY <1>2, <1>3, <2>3
  <2> QED BY <1>2, <1>4, <2>1, <2>2, <2>3, <2>4 DEF QueueInv, Claims
<1>6. WriteInv'
  <2>1. \A w \in writes' : w.next = After(change) /\ w.change = change /\ ~ w.landed BY <1>1
  <2>2. \A w \in writes' : w.next = After(w.change)' BY <1>1, <2>1 DEF After
  <2> QED BY <1>1, <2>1, <2>2 DEF WriteInv
<1>7. (revoked \subseteq asked)' /\ RevokedStaysRevoked' BY <1>1 DEF StoreInv, RevokedStaysRevoked
<1>8. \A b \in Browsers : SessionOK(b)' BY <1>1 DEF StoreInv, SessionOK
<1> QED BY <1>5, <1>6, <1>7, <1>8 DEF StoreInv

LEMMA NothingToWriteStore ==
  ASSUME TypeInv, StoreInv, NEW c \in StoreChange, NothingToWrite(c), Wake(c, TRUE)
  PROVE  StoreInv'
<1> DEFINE n == Len(queue)
<1>1. /\ queue # <<>> /\ c = Head(queue) /\ queue' = Tail(queue) /\ writes = {} /\ After(c) = memory
      /\ UNCHANGED <<memory, stored, writes, asked, revoked>>
  BY DEF NothingToWrite, Turn, WritesFile
<1>2. ChangeOK(c) /\ n \in Nat /\ Len(queue') = n - 1 BY <1>1, FirstChange
<1>3. c.kind # "issue"
  <2>1. Issues(c) => c.who \in Sessions /\ c.who \notin memory BY <1>2 DEF ChangeOK
  <2>2. StoreTypeOK BY DEF TypeInv, AuthTypeOK
  <2> QED BY <1>1, <2>1, <2>2, AfterFacts DEF Issues
<1>4. QueueInv'
  <2>1. ASSUME NEW i \in 1..(n - 1)
        PROVE  ChangeOK(queue[i])'
    <3>1. Tail(queue)[i] \in StoreChange /\ ChangeOK(Tail(queue)[i])
          /\ (Claims(c) /\ Claims(Tail(queue)[i]) => c.who # Tail(queue)[i].who)
      BY <1>1, FirstChange
    <3>2. \A d \in StoreChange : ChangeOK(d) /\ (Claims(c) /\ Claims(d) => c.who # d.who) => ChangeOK(d)'
      BY <1>1, <1>2, WokenChange DEF ChangeOK
    <3>3. queue'[i] = Tail(queue)[i] /\ (Tail(queue)[i])' = Tail(queue')[i] BY <1>1
    <3> QED BY <3>1, <3>2, <3>3 DEF ChangeOK, Issues
  <2>2. \A i, j \in 1..(n - 1) :
          Claims(queue'[i]) /\ Claims(queue'[j]) /\ queue'[i].who = queue'[j].who => i = j
    BY <1>1, FirstChange
  <2> QED BY <1>1, <1>2, <2>1, <2>2 DEF QueueInv, Claims
<1>5. WriteInv' /\ (revoked \subseteq asked)' /\ RevokedStaysRevoked'
  BY <1>1 DEF StoreInv, WriteInv, RevokedStaysRevoked
<1>6. ASSUME NEW b \in Browsers
      PROVE  SessionOK(b)'
  <2>1. /\ exchange'[b].pc \in {"idle", "queued"} => exchange[b].pc \in {"idle", "queued"}
        /\ exchange'[b].pc = "issued" => exchange[b].pc = "issued"
        /\ exchange'[b].cookie = exchange[b].cookie
    BY <1>2, <1>3, WokenSession
  <2> QED BY <1>1, <2>1 DEF StoreInv, SessionOK
<1> QED BY <1>4, <1>5, <1>6 DEF StoreInv

LEMMA RenameStore ==
  ASSUME TypeInv, StoreInv, NEW w \in writes, Rename(w), UNCHANGED exchange
  PROVE  StoreInv'
<1> DEFINE landed == [w EXCEPT !.landed = TRUE]
<1>1. /\ stored' = w.next /\ writes' = (writes \ {w}) \cup {landed}
      /\ UNCHANGED <<memory, queue, asked, revoked>>
  BY DEF Rename
<1>2. /\ w \in Write /\ writes = {w} /\ memory \ w.next \subseteq asked /\ w.next = After(w.change)
      /\ w.next \cap revoked = {}
      /\ \A b \in Browsers : exchange[b].pc \in {"idle", "queued"} => b \notin w.next
  BY NextFacts
<1>3. writes' = {landed} /\ landed.change = w.change /\ landed.next = w.next BY <1>1, <1>2 DEF Write
<1>4. QueueInv'
  <2>1. \A d : ChangeOK(d) => ChangeOK(d)' BY <1>1 DEF ChangeOK, Issues
  <2>2. \A i \in 1..Len(queue) : ChangeOK(queue[i])'
    <3>1. ASSUME NEW i \in 1..Len(queue)
          PROVE  ChangeOK(queue[i])'
      <4>1. ChangeOK(queue[i]) BY DEF StoreInv, QueueInv
      <4> QED BY <1>1, <4>1 DEF ChangeOK, Issues
    <3> QED BY <3>1
  <2>3. \A v \in writes' : ChangeOK(v.change)' BY <1>3, <2>1 DEF StoreInv, QueueInv
  <2>4. \A i, j \in 1..Len(queue) :
          Claims(queue[i]) /\ Claims(queue[j]) /\ queue[i].who = queue[j].who => i = j
    BY DEF StoreInv, QueueInv
  <2>5. \A v \in writes' : \A i \in 1..Len(queue) :
          Claims(v.change) /\ Claims(queue[i]) => v.change.who # queue[i].who
    BY <1>3 DEF StoreInv, QueueInv
  <2> QED BY <1>1, <2>2, <2>3, <2>4, <2>5 DEF QueueInv, Claims
<1>5. WriteInv'
  <2>1. \A v \in writes' : v.next = After(v.change)' BY <1>1, <1>2, <1>3 DEF After
  <2> QED BY <1>1, <1>2, <1>3, <2>1 DEF WriteInv
<1>6. (revoked \subseteq asked)' /\ RevokedStaysRevoked'
  BY <1>1, <1>2 DEF StoreInv, RevokedStaysRevoked
<1>7. \A b \in Browsers : SessionOK(b)' BY <1>1, <1>2 DEF StoreInv, SessionOK
<1> QED BY <1>4, <1>5, <1>6, <1>7 DEF StoreInv

\* The write landed, so the file holds what becomes current.
LEMMA CommitStore ==
  ASSUME TypeInv, StoreInv, NEW w \in writes, CommitWrite(w), Wake(w.change, TRUE)
  PROVE  StoreInv'
<1> DEFINE c == w.change
           issue == [kind |-> "issue", who |-> c.who]
           n == Len(queue)
<1>1. /\ w.landed /\ memory' = w.next /\ writes' = writes \ {w}
      /\ revoked' = revoked \cup (memory \ w.next)
      /\ queue' = IF c.kind = "reset" THEN Append(queue, issue) ELSE queue
      /\ UNCHANGED <<stored, asked>>
  BY DEF CommitWrite
<1>2. /\ c \in StoreChange /\ ChangeOK(c) /\ writes = {w}
      /\ w.next \subseteq memory \cup {c.who} /\ (c.kind # "issue" => w.next \subseteq memory)
      /\ c.kind = "issue" => c.who \in w.next
      /\ memory \ w.next \subseteq asked /\ w.next \cap revoked = {}
      /\ \A b \in Browsers : exchange[b].pc \in {"idle", "queued"} => b \notin w.next
  BY NextFacts
<1>3. stored = w.next /\ writes' = {} BY <1>1, <1>2 DEF StoreInv, WriteInv
<1>4. /\ queue \in Seq(StoreChange) /\ n \in Nat
      /\ \A i \in 1..n : queue[i] \in StoreChange /\ ChangeOK(queue[i])
  BY DEF TypeInv, AuthTypeOK, StoreTypeOK, StoreInv, QueueInv
<1>5. \A i \in 1..n : Claims(c) /\ Claims(queue[i]) => c.who # queue[i].who
  BY DEF StoreInv, QueueInv
<1>6. \A d \in StoreChange : ChangeOK(d) /\ (Claims(c) /\ Claims(d) => c.who # d.who) => ChangeOK(d)'
  <2>1. ASSUME NEW d \in StoreChange, ChangeOK(d), Claims(c) /\ Claims(d) => c.who # d.who
        PROVE  ChangeOK(d)'
    <3>1. Issues(d) => d.who \notin memory' /\ d.who \notin asked'
      BY <1>1, <1>2, <2>1 DEF ChangeOK, Issues, Claims
    <3> QED BY <1>2, <2>1, <3>1, WokenChange
  <2> QED BY <2>1
<1>7. QueueInv'
  <2>1. CASE c.kind # "reset"
    <3>1. queue' = queue BY <1>1, <2>1
    <3>2. \A i \in 1..n : ChangeOK(queue[i])'
      <4>1. ASSUME NEW i \in 1..n
            PROVE  ChangeOK(queue[i])'
        <5> DEFINE d == queue[i]
        <5>1. d \in StoreChange /\ ChangeOK(d) /\ (Claims(c) /\ Claims(d) => c.who # d.who)
          BY <1>4, <1>5
        <5>2. queue'[i] = queue[i] BY <3>1
        <5>3. \A e \in StoreChange : e = d => ChangeOK(e)' BY <1>6, <5>1
        <5> QED BY <5>1, <5>2, <5>3 DEF ChangeOK, Issues
      <4> QED BY <4>1
    <3> QED BY <1>3, <3>1, <3>2 DEF StoreInv, QueueInv, Claims
  <2>2. CASE c.kind = "reset"
    <3>1. issue \in StoreChange /\ Claims(issue) /\ Claims(c) /\ Issues(c) /\ c.kind # "issue"
      BY <1>2, <2>2 DEF StoreChange, Claims, Issues
    <3>2. /\ queue' = Append(queue, issue) /\ Len(queue') = n + 1 /\ queue'[n + 1] = issue
          /\ \A i \in 1..n : queue'[i] = queue[i]
      BY <1>1, <1>4, <2>2, <3>1, AppendFacts
    <3>3. /\ c.who \in Desktops /\ c.who \notin Browsers /\ c.who \in Sessions
          /\ c.who \notin memory' /\ c.who \notin asked'
      BY <1>1, <1>2, <2>2, <3>1, StoreAssumption DEF ChangeOK
    <3>4. \A i \in 1..n : ChangeOK(queue[i])'
      <4>1. ASSUME NEW i \in 1..n
            PROVE  ChangeOK(queue[i])'
        <5> DEFINE d == queue[i]
        <5>1. d \in StoreChange /\ ChangeOK(d) /\ (Claims(c) /\ Claims(d) => c.who # d.who)
          BY <1>4, <1>5
        <5>2. queue'[i] = queue[i] BY <3>2
        <5>3. \A e \in StoreChange : e = d => ChangeOK(e)' BY <1>6, <5>1
        <5> QED BY <5>1, <5>2, <5>3 DEF ChangeOK, Issues
      <4> QED BY <4>1
    <3>5. ASSUME NEW i \in 1..(n + 1)
          PROVE  ChangeOK(queue[i])'
      <4>1. CASE i \in 1..n BY <3>4, <4>1
      <4>2. CASE i = n + 1 BY <3>2, <3>3, <4>2 DEF ChangeOK, Issues
      <4> QED BY <1>4, <4>1, <4>2
    <3>6. \A i \in 1..(n + 1) : ChangeOK(queue[i])' BY <3>5
    <3>7. \A i, j \in 1..(n + 1) :
            Claims(queue'[i]) /\ Claims(queue'[j]) /\ queue'[i].who = queue'[j].who => i = j
      BY <1>4, <1>5, <3>1, <3>2 DEF StoreInv, QueueInv
    <3> QED BY <1>3, <3>2, <3>6, <3>7 DEF QueueInv, Claims
  <2> QED BY <2>1, <2>2
<1>8. WriteInv' BY <1>3 DEF WriteInv
<1>9. (revoked \subseteq asked)' /\ RevokedStaysRevoked'
  BY <1>1, <1>2, <1>3 DEF StoreInv, RevokedStaysRevoked
<1>10. ASSUME NEW b \in Browsers
       PROVE  SessionOK(b)'
  <2>1. /\ exchange'[b].pc \in {"idle", "queued"} => exchange[b].pc \in {"idle", "queued"}
        /\ exchange'[b].pc = "issued" => exchange[b].pc = "issued" \/ (c.kind = "issue" /\ b = c.who)
        /\ exchange'[b].cookie = exchange[b].cookie
    BY <1>2, WokenSession
  <2> QED BY <1>1, <1>2, <1>3, <2>1 DEF StoreInv, SessionOK
<1> QED BY <1>7, <1>8, <1>9, <1>10 DEF StoreInv

LEMMA WriteFailsStore ==
  ASSUME TypeInv, StoreInv, NEW w \in writes, WriteFails(w), Wake(w.change, FALSE)
  PROVE  StoreInv'
<1> DEFINE c == w.change
           n == Len(queue)
<1>1. writes' = writes \ {w} /\ UNCHANGED <<memory, stored, queue, asked, revoked>>
  BY DEF WriteFails
<1>2. c \in StoreChange /\ ChangeOK(c) /\ writes' = {} BY <1>1, NextFacts
<1>3. ASSUME NEW i \in 1..n
      PROVE  ChangeOK(queue[i])'
  <2> DEFINE d == queue[i]
  <2>1. d \in StoreChange /\ ChangeOK(d) /\ (Claims(c) /\ Claims(d) => c.who # d.who)
    BY DEF TypeInv, AuthTypeOK, StoreTypeOK, StoreInv, QueueInv
  <2>2. \A e \in StoreChange : e = d => ChangeOK(e)' BY <1>1, <1>2, <2>1, WokenChange DEF ChangeOK
  <2> QED BY <1>1, <2>1, <2>2 DEF ChangeOK, Issues
<1>4. QueueInv' BY <1>1, <1>2, <1>3 DEF StoreInv, QueueInv, Claims
<1>5. WriteInv' /\ (revoked \subseteq asked)' /\ RevokedStaysRevoked'
  BY <1>1, <1>2 DEF StoreInv, WriteInv, RevokedStaysRevoked
<1>6. ASSUME NEW b \in Browsers
      PROVE  SessionOK(b)'
  <2>1. /\ exchange'[b].pc \in {"idle", "queued"} => exchange[b].pc \in {"idle", "queued"}
        /\ exchange'[b].pc = "issued" => exchange[b].pc = "issued"
        /\ exchange'[b].cookie = exchange[b].cookie
    BY <1>2, WokenSession
  <2> QED BY <1>1, <2>1 DEF StoreInv, SessionOK
<1> QED BY <1>4, <1>5, <1>6 DEF StoreInv

LEMMA StoreStepStore ==
  ASSUME TypeInv, StoreInv, StoreStep
  PROVE  StoreInv'
<1>1. ASSUME NEW w \in writes, \/ Rename(w) /\ UNCHANGED exchange
                               \/ CommitWrite(w) /\ Wake(w.change, TRUE)
                               \/ WriteFails(w) /\ Wake(w.change, FALSE)
      PROVE  StoreInv'
  BY <1>1, RenameStore, CommitStore, WriteFailsStore
<1> QED BY <1>1, BeginWriteStore, NothingToWriteStore DEF StoreStep

\* What the owner asks for concerns a session that is there, or one that never was.
LEMMA OwnerStore ==
  ASSUME TypeInv, StoreInv, OwnerAsks
  PROVE  StoreInv'
<1>1. UNCHANGED <<memory, stored, writes, asked, revoked>> /\ UNCHANGED exchange BY DEF OwnerAsks
<1>2. \A b \in Browsers : Quiet(b) BY <1>1 DEF Quiet
<1>3. memory \subseteq Sessions BY DEF TypeInv, AuthTypeOK, StoreTypeOK
<1>4. ASSUME NEW c \in StoreChange, queue' = Append(queue, c), ~ Claims(c)
      PROVE  StoreInv'
  <2>1. ChangeOK(c)' BY <1>4 DEF ChangeOK, Issues, Claims
  <2> QED BY <1>1, <1>2, <1>4, <2>1, AppendStore
<1>5. ASSUME NEW s \in memory, Mutate("revoke", s) \/ Mutate("touch", s)
      PROVE  StoreInv'
  <2>1. \A kind \in {"revoke", "touch"} : [kind |-> kind, who |-> s] \in StoreChange
    BY <1>3 DEF StoreChange
  <2> QED BY <1>4, <1>5, <2>1 DEF Mutate, Claims
<1>6. CASE Mutate("revokeBrowsers", Nobody) \/ Mutate("revokeAll", Nobody)
  <2>1. \A kind \in {"revokeBrowsers", "revokeAll"} : [kind |-> kind, who |-> Nobody] \in StoreChange
    BY DEF StoreChange
  <2> QED BY <1>4, <1>6, <2>1 DEF Mutate, Claims
<1>7. ASSUME NEW d \in Desktops, Unused(d), NEW kind \in {"issue", "reset"}, Mutate(kind, d)
      PROVE  StoreInv'
  <2> DEFINE c == [kind |-> kind, who |-> d]
  <2>1. c \in StoreChange /\ d \in Sessions /\ d \notin Browsers /\ queue' = Append(queue, c)
    BY <1>7, StoreAssumption DEF StoreChange, Sessions, Mutate
  <2>2. queue \in Seq(StoreChange) BY DEF TypeInv, AuthTypeOK, StoreTypeOK
  <2>3. /\ d \notin memory /\ d \notin asked
        /\ \A i \in 1..Len(queue) : queue[i].who # d
        /\ \A w \in writes : w.change.who # d
    BY <1>7, <2>2 DEF Unused
  <2>4. ChangeOK(c)' BY <1>1, <2>1, <2>3 DEF ChangeOK, Issues
  <2> QED BY <1>1, <1>2, <2>1, <2>3, <2>4, AppendStore
<1> QED BY <1>5, <1>6, <1>7 DEF OwnerAsks

\* The change an exchange asks for, which waits for no other.
LEMMA ClaimStore ==
  ASSUME TypeInv, StoreInv, NEW b \in Browsers, NEW kind \in {"issue", "undo"},
         UNCHANGED <<memory, stored, writes, asked, revoked>>,
         exchange[b].pc \notin {"issuing", "undoing"},
         exchange' = [exchange EXCEPT ![b].pc = IF kind = "issue" THEN "issuing" ELSE "undoing"],
         kind = "issue" => exchange[b].pc = "queued",
         Mutate(kind, b)
  PROVE  StoreInv'
<1> DEFINE c == [kind |-> kind, who |-> b]
<1>1. c \in StoreChange /\ b \in Sessions /\ b \notin Desktops /\ queue' = Append(queue, c)
  BY StoreAssumption DEF StoreChange, Sessions, Mutate
<1>2. /\ exchange[b] \in Exchange /\ exchange'[b] = [exchange[b] EXCEPT !.pc = exchange'[b].pc]
      /\ exchange'[b].pc = (IF kind = "issue" THEN "issuing" ELSE "undoing")
      /\ \A a \in Browsers : a # b => exchange'[a] = exchange[a]
  BY DEF TypeInv, AuthTypeOK, Exchange
<1>3. exchange'[b].cookie = exchange[b].cookie BY <1>2 DEF Exchange
<1>4. \A a \in Browsers : Quiet(a) BY <1>2, <1>3 DEF Quiet
<1>5. ChangeOK(c)' BY <1>1, <1>2 DEF ChangeOK, Issues, StoreInv, SessionOK
<1>6. ASSUME NEW d \in StoreChange, ChangeOK(d), Claims(d)
      PROVE  d.who # b
  <2>1. d.kind = "reset" => d.who \in Desktops BY <1>6 DEF ChangeOK
  <2> QED BY <1>1, <1>6, <2>1 DEF ChangeOK, Claims
<1>7. /\ \A i \in 1..Len(queue) : queue[i] \in StoreChange /\ ChangeOK(queue[i])
      /\ \A w \in writes : w.change \in StoreChange /\ ChangeOK(w.change)
  BY DEF TypeInv, AuthTypeOK, StoreTypeOK, Write, StoreInv, QueueInv
<1> QED BY <1>1, <1>4, <1>5, <1>6, <1>7, AppendStore

\* An exchange that ends without having waited for the store is quiet.
LEMMA OverQuiet ==
  ASSUME TypeInv, NEW b \in Browsers, NEW cookie \in BOOLEAN, Over(b, cookie),
         exchange[b].pc \notin {"issuing", "undoing"},
         cookie => exchange[b].pc = "issued"
  PROVE  \A a \in Browsers : Quiet(a)
<1>1. exchange'[b] = Ended(b, cookie) /\ \A a \in Browsers : a # b => exchange'[a] = exchange[a]
  BY DEF Over, TypeInv, AuthTypeOK
<1>2. Ended(b, cookie).pc = "over" /\ Ended(b, cookie).cookie = cookie BY DEF Ended
<1> QED BY <1>1, <1>2 DEF Quiet

LEMMA StoreInvStep ==
  ASSUME TypeInv, StoreInv, [AuthNext]_sessionVars
  PROVE  StoreInv'
<1>1. ASSUME UNCHANGED storeVars, UNCHANGED exchange
      PROVE  StoreInv'
  <2>1. \A b \in Browsers : Quiet(b) BY <1>1 DEF Quiet
  <2> QED BY <1>1, <2>1, QuietStore
<1>2. ASSUME NEW enabled \in BOOLEAN, Switch(enabled)
      PROVE  StoreInv'
  BY <1>1, <1>2 DEF Switch
<1>3. CASE SwitchTakesEffect BY <1>1, <1>3 DEF SwitchTakesEffect
<1>4. ASSUME NEW t \in Tokens, CreatePairingToken(t) \/ PairingExpires(t)
      PROVE  StoreInv'
  BY <1>1, <1>4 DEF CreatePairingToken, PairingExpires
<1>5. ASSUME NEW b \in Browsers, NEW t \in Tokens, Exchanged(b, t)
      PROVE  StoreInv'
  <2>1. /\ UNCHANGED storeVars /\ exchange[b].pc = "idle"
        /\ exchange'[b] = [pc |-> "queued", token |-> t, generation |-> generation, cookie |-> FALSE]
        /\ \A a \in Browsers : a # b => exchange'[a] = exchange[a]
    BY <1>5 DEF Exchanged, TypeInv, AuthTypeOK
  <2>2. \A a \in Browsers : Quiet(a) BY <2>1 DEF Quiet
  <2> QED BY <2>1, <2>2, QuietStore
<1>6. ASSUME NEW b \in Browsers, IssueSession(b)
      PROVE  StoreInv'
  <2>1. exchange[b].pc = "queued" /\ UNCHANGED <<memory, stored, writes, asked, revoked>>
    BY <1>6 DEF IssueSession, Running
  <2>2. CASE SamePeriod(b) BY <1>6, <2>1, <2>2, ClaimStore DEF IssueSession
  <2>3. CASE ~ SamePeriod(b)
    <3>1. Over(b, FALSE) /\ UNCHANGED storeVars BY <1>6, <2>1, <2>3 DEF IssueSession, storeVars
    <3> QED BY <2>1, <3>1, OverQuiet, QuietStore
  <2> QED BY <2>2, <2>3
<1>7. ASSUME NEW b \in Browsers, HandOver(b)
      PROVE  StoreInv'
  <2>1. exchange[b].pc = "issued" /\ UNCHANGED <<memory, stored, writes, asked, revoked>>
    BY <1>7 DEF HandOver, Running
  <2>2. CASE SamePeriod(b)
    <3>1. Over(b, TRUE) /\ UNCHANGED storeVars BY <1>7, <2>1, <2>2 DEF HandOver, storeVars
    <3> QED BY <2>1, <3>1, OverQuiet, QuietStore
  <2>3. CASE ~ SamePeriod(b) BY <1>7, <2>1, <2>3, ClaimStore DEF HandOver
  <2> QED BY <2>2, <2>3
<1>8. ASSUME NEW b \in Browsers, TakenBack(b) \/ ExchangeFails(b)
      PROVE  StoreInv'
  <2>1. Over(b, FALSE) /\ UNCHANGED storeVars /\ exchange[b].pc \notin {"issuing", "undoing"}
    BY <1>8 DEF TakenBack, ExchangeFails, Running
  <2> QED BY <2>1, OverQuiet, QuietStore
<1>9. CASE StoreStep BY <1>9, StoreStepStore
<1>10. CASE OwnerAsks BY <1>10, OwnerStore
<1>11. CASE Crash
  <2>1. /\ memory' = stored /\ queue' = <<>> /\ writes' = {} /\ UNCHANGED <<stored, asked, revoked>>
        /\ \A b \in Browsers : exchange'[b] = IF exchange[b].pc \in {"idle", "over"} THEN exchange[b]
                                              ELSE Ended(b, FALSE)
    BY <1>11 DEF Crash, StoreRestarts
  <2>2. QueueInv' /\ WriteInv' BY <2>1 DEF QueueInv, WriteInv
  <2>3. (revoked \subseteq asked)' /\ RevokedStaysRevoked' BY <2>1 DEF StoreInv, RevokedStaysRevoked
  <2>4. \A b \in Browsers : Ended(b, FALSE).pc = "over" /\ Ended(b, FALSE).cookie = FALSE
    BY DEF Ended
  <2>5. \A b \in Browsers : SessionOK(b)' BY <2>1, <2>4 DEF StoreInv, SessionOK
  <2> QED BY <2>2, <2>3, <2>5 DEF StoreInv
<1>12. CASE UNCHANGED sessionVars BY <1>1, <1>12 DEF sessionVars, authVars
<1> QED BY <1>2, <1>3, <1>4, <1>5, <1>6, <1>7, <1>8, <1>9, <1>10, <1>11, <1>12 DEF AuthNext

------------------------------
(* The theorems. *)

LEMMA AuthInitInv ==
  ASSUME AuthInit
  PROVE  IInv
<1>1. /\ queue = <<>> /\ writes = {} /\ memory = {} /\ stored = {} /\ asked = {} /\ revoked = {}
      /\ access \in BOOLEAN /\ wanted = access
      /\ generation = 0 /\ offs = 0 /\ crashes = 0 /\ browserQueue = <<>>
      /\ pairing = Nobody /\ expired = {} /\ period = [t \in Tokens |-> -1]
      /\ exchange = [b \in Browsers |-> [pc |-> "idle", token |-> Nobody, generation |-> 0,
                                         cookie |-> FALSE]]
  BY DEF AuthInit, StoreInit
<1>2. 0 \in 0..MaxGeneration /\ 0 \in 0..MaxCrashes /\ -1 \in -1..MaxGeneration BY AuthAssumption
<1>3. exchange \in [Browsers -> Exchange] BY <1>1, <1>2 DEF Exchange
<1>4. TypeInv
  <2>1. StoreTypeOK BY <1>1 DEF StoreTypeOK
  <2>2. period \in [Tokens -> -1..MaxGeneration] BY <1>1, <1>2
  <2>3. wanted \in BOOLEAN /\ access \in BOOLEAN BY <1>1
  <2>4. generation \in 0..MaxGeneration /\ offs \in 0..MaxGeneration /\ generation <= offs
        /\ crashes \in 0..MaxCrashes
    BY <1>1, <1>2
  <2>5. browserQueue \in Seq(Queued) /\ pairing \in Tokens \cup {Nobody} /\ expired \in SUBSET Tokens
    BY <1>1
  <2> QED BY <1>3, <2>1, <2>2, <2>3, <2>4, <2>5 DEF TypeInv, AuthTypeOK
<1>5. AccessInv BY <1>1 DEF AccessInv
<1>6. TokenInv BY <1>1 DEF TokenInv, TokenOK, Live
<1>7. StoreInv BY <1>1 DEF StoreInv, QueueInv, WriteInv, RevokedStaysRevoked, SessionOK
<1> QED BY <1>4, <1>5, <1>6, <1>7 DEF IInv

(* The sessions, the queue of changes, the switch and every exchange stay *)
(* what auth.ts and auth-store.ts declare, and each invariant above holds. *)
THEOREM Invariant == AuthSpec => []IInv
<1>1. AuthInit => IInv BY AuthInitInv
<1>2. IInv /\ [AuthNext]_sessionVars => IInv'
  BY AuthTypeStep, AccessStep, TokenStep, StoreInvStep DEF IInv
<1> QED BY <1>1, <1>2, PTL DEF AuthSpec

(* The types of the state, for any browsers, desktops, tokens and bounds. *)
THEOREM AuthTypeCorrect == AuthSpec => []AuthTypeOK
<1>1. IInv => AuthTypeOK BY DEF IInv, TypeInv
<1> QED BY <1>1, Invariant, PTL

(* Browser access is what the last switch asked for, in whatever order *)
(* setBrowserAccessEnabled and its queue are served. *)
THEOREM AccessCorrect == AuthSpec => []AccessFollowsLastSwitch
<1>1. ASSUME IInv
      PROVE  AccessFollowsLastSwitch
  <2>1. browserQueue \in Seq(Queued) /\ access \in BOOLEAN /\ wanted \in BOOLEAN
    BY <1>1 DEF IInv, TypeInv, AuthTypeOK
  <2>2. Switches = {i \in 1..Len(browserQueue) : browserQueue[i].switch} BY <2>1 DEF Switches
  <2>3. access => wanted BY <1>1 DEF IInv, AccessInv
  <2>4. ASSUME Switches = {}
        PROVE  wanted => access
    BY <1>1, <2>2, <2>4 DEF IInv, AccessInv
  <2> QED BY <2>1, <2>3, <2>4 DEF AccessFollowsLastSwitch
<1> QED BY <1>1, Invariant, PTL

(* One browser per pairing token, no session after its revocation, and no *)
(* paired browser signed out by a failed write or a restart of the server. *)
THEOREM PairingsCorrect == AuthSpec => []PairingsHold
<1>1. ASSUME IInv
      PROVE  PairingsHold
  <2>1. OneCookiePerToken BY <1>1 DEF IInv, TokenInv, TokenOK, OneCookiePerToken
  <2>2. RevokedStaysRevoked /\ PairedStaysPaired
    BY <1>1 DEF IInv, StoreInv, SessionOK, PairedStaysPaired
  <2> QED BY <2>1, <2>2 DEF PairingsHold
<1> QED BY <1>1, Invariant, PTL

(* A cookie is handed over by HandOver alone, in the period of its token, *)
(* for any number of switches and restarts. *)
THEOREM NoCookieAcross == AuthSpec => NoCookieAcrossSwitchOff
<1> DEFINE Handed == \A b \in Browsers :
             ~ exchange[b].cookie /\ exchange'[b].cookie => access /\ period[exchange[b].token] = offs
<1>1. ASSUME IInv, [AuthNext]_sessionVars
      PROVE  Handed
  <2> SUFFICES ASSUME NEW b \in Browsers, ~ exchange[b].cookie, exchange'[b].cookie
               PROVE  access /\ period[exchange[b].token] = offs
    OBVIOUS
  <2>1. TypeInv /\ TokenInv /\ StoreInv /\ exchange \in [Browsers -> Exchange]
    BY <1>1 DEF IInv, TypeInv, AuthTypeOK
  <2>2. exchange' # exchange OBVIOUS
  <2>3. ASSUME NEW a \in Browsers, NEW cookie \in BOOLEAN, Over(a, cookie)
        PROVE  a = b /\ cookie
    BY <2>1, <2>3 DEF Over, Ended
  <2>4. ASSUME NEW a \in Browsers, HandOver(a)
        PROVE  access /\ period[exchange[b].token] = offs
    <3>1. CASE SamePeriod(a)
      <4>1. a = b BY <2>3, <2>4, <3>1 DEF HandOver
      <4> QED BY <2>1, <2>4, <3>1, <4>1 DEF HandOver, Running, SamePeriod, TokenInv, TokenOK, Live
    <3>2. CASE ~ SamePeriod(a) BY <2>1, <2>4, <3>2 DEF HandOver, Exchange
    <3> QED BY <3>1, <3>2
  <2>5. ASSUME NEW a \in Browsers, NEW t \in Tokens, Exchanged(a, t)
        PROVE  FALSE
    BY <2>1, <2>5 DEF Exchanged
  <2>6. ASSUME NEW a \in Browsers, IssueSession(a)
        PROVE  FALSE
    BY <2>1, <2>3, <2>6 DEF IssueSession, Exchange
  <2>7. ASSUME NEW a \in Browsers, TakenBack(a) \/ ExchangeFails(a)
        PROVE  FALSE
    BY <2>3, <2>7 DEF TakenBack, ExchangeFails
  <2>8. ASSUME NEW c \in StoreChange, NEW ok, Wake(c, ok)
        PROVE  FALSE
    BY <2>1, <2>8 DEF Wake, Exchange
  <2>9. ASSUME StoreStep
        PROVE  FALSE
    <3>1. \A w \in writes : w.change \in StoreChange
      BY <2>1 DEF TypeInv, AuthTypeOK, StoreTypeOK, Write
    <3> QED BY <2>2, <2>8, <2>9, <3>1 DEF StoreStep
  <2>10. ASSUME Crash
         PROVE  FALSE
    BY <2>10 DEF Crash, Ended
  <2> QED BY <1>1, <2>2, <2>4, <2>5, <2>6, <2>7, <2>9, <2>10
       DEF AuthNext, Switch, SwitchTakesEffect, CreatePairingToken, PairingExpires, OwnerAsks, sessionVars, authVars
<1>2. IInv /\ [AuthNext]_sessionVars => [Handed]_sessionVars BY <1>1
<1> QED BY <1>2, Invariant, PTL DEF AuthSpec, NoCookieAcrossSwitchOff

------------------------------
(* The tab model: what each function leaves of the open tabs and of the *)
(* edited ones among them. *)

SessionShape(s) ==
  /\ s = [tabs |-> s.tabs, tab |-> s.tab, active |-> s.active, preview |-> s.preview, recent |-> s.recent]
  /\ s.tab \in [OpenPaths(s) -> Tab] /\ OpenPaths(s) \subseteq Paths
  /\ s.active \in Paths \cup {Nowhere}

\* An edited tab of s is one of t.
EditsStay(s, t) == \A q \in Paths : IsDirty(s, q) => IsDirty(t, q)

\* activate: the tab becomes the active one, and no tab changes.
LEMMA ActivateFacts ==
  ASSUME NEW s, SessionShape(s), NEW p \in Paths
  PROVE  /\ SessionShape(Activate(s, p))
         /\ Activate(s, p).tab = s.tab
<1> DEFINE t == Activate(s, p)
<1>1. t = [s EXCEPT !.active = p, !.recent = Append(Without(s.recent, {p}), p)] BY DEF Activate
<1>2. t = [tabs |-> s.tabs, tab |-> s.tab, active |-> p, preview |-> s.preview,
           recent |-> Append(Without(s.recent, {p}), p)]
  BY <1>1 DEF SessionShape
<1> QED BY <1>2 DEF SessionShape, OpenPaths

\* closeTab: the other tabs stay as they are, and one of them becomes active.
LEMMA CloseFacts ==
  ASSUME NEW s, SessionShape(s), NEW ps
  PROVE  /\ SessionShape(CloseTabs(s, ps))
         /\ CloseTabs(s, ps).tab = [q \in OpenPaths(s) \ ps |-> s.tab[q]]
<1> DEFINE kept == OpenPaths(s) \ ps
           next == Neighbours(s, s.active, kept)
           closed == [s EXCEPT !.tabs = Without(@, ps), !.tab = [q \in kept |-> s.tab[q]],
                               !.recent = Without(@, ps), !.preview = IF @ \in ps THEN Nowhere ELSE @]
<1>1. next \subseteq Paths BY DEF Neighbours, SessionShape
<1>2. closed = [tabs |-> Without(s.tabs, ps), tab |-> [q \in kept |-> s.tab[q]], active |-> s.active,
                preview |-> IF s.preview \in ps THEN Nowhere ELSE s.preview,
                recent |-> Without(s.recent, ps)]
  <2> DEFINE tabs == Without(s.tabs, ps)
             recent == Without(s.recent, ps)
             tab == [q \in kept |-> s.tab[q]]
             preview == IF s.preview \in ps THEN Nowhere ELSE s.preview
  <2>1. s = [tabs |-> s.tabs, tab |-> s.tab, active |-> s.active, preview |-> s.preview,
             recent |-> s.recent]
    BY DEF SessionShape
  <2>2. closed = [s EXCEPT !.tabs = tabs, !.tab = tab, !.recent = recent, !.preview = preview]
    OBVIOUS
  <2> HIDE DEF tabs, recent, tab, preview, closed
  <2>3. closed = [tabs |-> tabs, tab |-> tab, active |-> s.active, preview |-> preview, recent |-> recent]
    BY <2>1, <2>2
  <2> QED BY <2>3 DEF tabs, recent, tab, preview
<1>3. closed.tab = [q \in kept |-> s.tab[q]] BY <1>2
<1>4. SessionShape(closed) BY <1>2, <1>3 DEF SessionShape, OpenPaths
<1> HIDE DEF closed
<1>5. CASE s.active \notin ps BY <1>3, <1>4, <1>5 DEF CloseTabs, closed
<1>6. CASE s.active \in ps /\ next = {}
  <2>1. CloseTabs(s, ps) = [closed EXCEPT !.active = Nowhere] BY <1>6 DEF CloseTabs, closed
  <2>2. SessionShape([closed EXCEPT !.active = Nowhere]) /\ [closed EXCEPT !.active = Nowhere].tab = closed.tab
    BY <1>4 DEF SessionShape, OpenPaths
  <2> QED BY <2>1, <2>2, <1>3
<1>7. CASE s.active \in ps /\ next # {}
  <2> DEFINE n == CHOOSE q \in next : TRUE
  <2>1. n \in Paths BY <1>1, <1>7
  <2>2. CloseTabs(s, ps) = Activate(closed, n) BY <1>7 DEF CloseTabs, closed
  <2> HIDE DEF n
  <2> QED BY <2>1, <2>2, <1>3, <1>4, ActivateFacts
<1> QED BY <1>5, <1>6, <1>7

\* closeTab and removeTabsUnder close no edited tab when they are given none.
LEMMA CloseCleanFacts ==
  ASSUME NEW s, SessionShape(s), NEW ps, \A q \in ps : ~IsDirty(s, q)
  PROVE  SessionShape(CloseTabs(s, ps)) /\ EditsStay(s, CloseTabs(s, ps))
<1> DEFINE t == CloseTabs(s, ps)
<1>1. SessionShape(t) /\ t.tab = [q \in OpenPaths(s) \ ps |-> s.tab[q]] BY CloseFacts
<1> HIDE DEF t
<1>2. \A q \in Paths : IsDirty(s, q) => IsDirty(t, q) BY <1>1 DEF IsDirty, OpenPaths
<1> QED BY <1>1, <1>2 DEF EditsStay, t

\* closeTab of one file leaves the edited tabs of the others.
LEMMA CloseOneFacts ==
  ASSUME NEW s, SessionShape(s), NEW p
  PROVE  /\ SessionShape(CloseTab(s, p))
         /\ \A q \in Paths \ {p} : IsDirty(s, q) => IsDirty(CloseTab(s, p), q)
<1> DEFINE ps == {p} \cap OpenPaths(s)
           t == CloseTabs(s, ps)
<1>1. SessionShape(t) /\ t.tab = [q \in OpenPaths(s) \ ps |-> s.tab[q]] BY CloseFacts
<1> HIDE DEF t
<1>2. \A q \in Paths \ {p} : IsDirty(s, q) => IsDirty(t, q) BY <1>1 DEF IsDirty, OpenPaths
<1> QED BY <1>1, <1>2 DEF CloseTab, t

\* openTab evicts no edited tab and replaces none.
LEMMA OpenedFacts ==
  ASSUME NEW s, SessionShape(s), NEW p \in Paths, NEW mode
  PROVE  /\ SessionShape(Opened(s, p, mode).session)
         /\ EditsStay(s, Opened(s, p, mode).session)
         /\ \A q \in Opened(s, p, mode).evicted : ~IsDirty(s, q)
<1> DEFINE pin == mode = "pinned"
           fresh == [pinned |-> pin, dirty |-> FALSE, missing |-> FALSE]
           slot == ~pin /\ s.preview \in OpenPaths(s) /\ ~IsDirty(s, s.preview)
           full == IF Len(s.tabs) >= MaxTabs THEN Victims(s) ELSE {}
           kept == CloseTabs(s, full)
           again == [s EXCEPT !.tab[p].pinned = @ \/ pin,
                              !.preview = IF pin /\ @ = p THEN Nowhere ELSE @]
           replaced == [s EXCEPT !.tabs[Position(s.tabs, s.preview)] = p,
                                 !.tab = Put([q \in DOMAIN @ \ {s.preview} |-> @[q]], p, fresh),
                                 !.preview = p, !.recent = Without(@, {s.preview})]
           added == [kept EXCEPT !.tabs = Append(@, p), !.tab = Put(@, p, fresh),
                                 !.preview = IF pin THEN @ ELSE p]
<1>0. fresh \in Tab BY DEF Tab
<1>1. s = [tabs |-> s.tabs, tab |-> s.tab, active |-> s.active, preview |-> s.preview,
           recent |-> s.recent]
  BY DEF SessionShape
<1>2. CASE p \in OpenPaths(s)
  <2> DEFINE tab == [s.tab EXCEPT ![p].pinned = @ \/ pin]
             preview == IF pin /\ s.preview = p THEN Nowhere ELSE s.preview
  <2>1. again = [s EXCEPT !.tab = tab, !.preview = preview] BY <1>1
  <2>2. tab \in [OpenPaths(s) -> Tab] /\ (\A q \in OpenPaths(s) : tab[q].dirty = s.tab[q].dirty)
    BY <1>2 DEF SessionShape, Tab
  <2>3. Opened(s, p, mode) = [session |-> Activate(again, p), evicted |-> {}] BY <1>2 DEF Opened
  <2> HIDE DEF tab, preview, again
  <2>4. again = [tabs |-> s.tabs, tab |-> tab, active |-> s.active, preview |-> preview, recent |-> s.recent]
    BY <2>1, <1>1
  <2>5. SessionShape(again) BY <2>4, <2>2 DEF SessionShape, OpenPaths
  <2>6. SessionShape(Activate(again, p)) /\ Activate(again, p).tab = tab
    BY <2>5, <2>4, ActivateFacts
  <2> QED BY <2>2, <2>3, <2>6 DEF EditsStay, IsDirty, OpenPaths
<1>3. CASE p \notin OpenPaths(s) /\ slot
  <2> DEFINE tabs == [s.tabs EXCEPT ![Position(s.tabs, s.preview)] = p]
             left == [q \in OpenPaths(s) \ {s.preview} |-> s.tab[q]]
             tab == Put(left, p, fresh)
             recent == Without(s.recent, {s.preview})
  <2>1. replaced = [s EXCEPT !.tabs = tabs, !.tab = tab, !.preview = p, !.recent = recent]
    BY <1>1 DEF OpenPaths
  <2>2. Opened(s, p, mode) = [session |-> Activate(replaced, p), evicted |-> {s.preview}]
    BY <1>3 DEF Opened
  <2>3. left \in [OpenPaths(s) \ {s.preview} -> Tab] /\ OpenPaths(s) \ {s.preview} \in SUBSET Paths
    BY DEF SessionShape
  <2>4. /\ tab \in [(OpenPaths(s) \ {s.preview}) \cup {p} -> Tab]
        /\ \A q \in OpenPaths(s) \ {s.preview} : tab[q] = s.tab[q]
    <3> HIDE DEF fresh, left
    <3>1. \A q \in OpenPaths(s) \ {s.preview} : left[q] = s.tab[q] BY DEF left
    <3>2. /\ tab \in [(OpenPaths(s) \ {s.preview}) \cup {p} -> Tab]
          /\ \A q \in (OpenPaths(s) \ {s.preview}) \ {p} : tab[q] = left[q]
      BY <1>0, <2>3 DEF Put
    <3> QED BY <1>3, <3>1, <3>2
  <2> HIDE DEF tabs, left, tab, recent, replaced
  <2>5. replaced = [tabs |-> tabs, tab |-> tab, active |-> s.active, preview |-> p, recent |-> recent]
    BY <2>1, <1>1
  <2>6. SessionShape(replaced) BY <2>5, <2>4 DEF SessionShape, OpenPaths
  <2>7. SessionShape(Activate(replaced, p)) /\ Activate(replaced, p).tab = tab
    BY <2>5, <2>6, ActivateFacts
  <2> QED BY <1>3, <2>2, <2>4, <2>7 DEF EditsStay, IsDirty, OpenPaths
<1>4. CASE p \notin OpenPaths(s) /\ ~slot
  <2>1. Opened(s, p, mode) = [session |-> Activate(added, p), evicted |-> full] BY <1>4 DEF Opened
  <2>2. \A q \in full : ~IsDirty(s, q) BY DEF Victims
  <2>3. SessionShape(kept) /\ kept.tab = [q \in OpenPaths(s) \ full |-> s.tab[q]] BY CloseFacts
  <2> HIDE DEF full, kept
  <2> DEFINE tabs == Append(kept.tabs, p)
             tab == Put(kept.tab, p, fresh)
             preview == IF pin THEN kept.preview ELSE p
  <2>4. kept = [tabs |-> kept.tabs, tab |-> kept.tab, active |-> kept.active,
                preview |-> kept.preview, recent |-> kept.recent]
    BY <2>3 DEF SessionShape
  <2>5. added = [kept EXCEPT !.tabs = tabs, !.tab = tab, !.preview = preview] BY <2>4
  <2>6. tab \in [OpenPaths(kept) \cup {p} -> Tab] /\ (\A q \in OpenPaths(kept) \ {p} : tab[q] = kept.tab[q])
    <3> HIDE DEF fresh
    <3>1. kept.tab \in [OpenPaths(kept) -> Tab] BY <2>3 DEF SessionShape
    <3> DEFINE f == kept.tab
               P == OpenPaths(kept)
    <3>2. f \in [P -> Tab] BY <3>1
    <3> HIDE DEF f, P
    <3>3. Put(f, p, fresh) \in [P \cup {p} -> Tab] /\ (\A q \in P \ {p} : Put(f, p, fresh)[q] = f[q])
      BY <1>0, <3>2 DEF Put
    <3> QED BY <3>3 DEF f, P
  <2> HIDE DEF tabs, tab, preview, added
  <2>7. added = [tabs |-> tabs, tab |-> tab, active |-> kept.active, preview |-> preview, recent |-> kept.recent]
    BY <2>4, <2>5
  <2>8. SessionShape(added) BY <2>3, <2>6, <2>7 DEF SessionShape, OpenPaths
  <2>9. SessionShape(Activate(added, p)) /\ Activate(added, p).tab = tab
    BY <2>7, <2>8, ActivateFacts
  <2>10. EditsStay(s, Activate(added, p))
    BY <1>4, <2>2, <2>3, <2>6, <2>9 DEF EditsStay, IsDirty, OpenPaths
  <2> QED BY <2>1, <2>2, <2>9, <2>10
<1> QED BY <1>2, <1>3, <1>4

\* setTabDirty marks one tab, if it is open, and no other.
LEMMA SetDirtyFacts ==
  ASSUME NEW s, SessionShape(s), NEW p \in Paths, NEW dirty \in BOOLEAN
  PROVE  /\ SessionShape(SetDirty(s, p, dirty))
         /\ p \in OpenPaths(s) => IsDirty(SetDirty(s, p, dirty), p) = dirty
         /\ \A q \in Paths \ {p} : IsDirty(SetDirty(s, p, dirty), q) = IsDirty(s, q)
<1>1. CASE p \notin OpenPaths(s) \/ IsDirty(s, p) = dirty BY <1>1 DEF SetDirty
<1>2. CASE p \in OpenPaths(s) /\ IsDirty(s, p) # dirty
  <2> DEFINE tab == [s.tab EXCEPT ![p].dirty = dirty, ![p].pinned = @ \/ dirty]
             preview == IF dirty /\ s.preview = p THEN Nowhere ELSE s.preview
             t == [s EXCEPT !.tab = tab, !.preview = preview]
  <2>1. s = [tabs |-> s.tabs, tab |-> s.tab, active |-> s.active, preview |-> s.preview,
             recent |-> s.recent]
    BY DEF SessionShape
  <2>2. SetDirty(s, p, dirty) = t BY <1>2, <2>1 DEF SetDirty, OpenPaths
  <2>3. s.tab \in [OpenPaths(s) -> Tab] /\ OpenPaths(s) \subseteq Paths BY DEF SessionShape
  <2>4. tab \in [OpenPaths(s) -> Tab] BY <1>2, <2>3 DEF Tab
  <2>5. tab[p].dirty = dirty /\ (\A q \in OpenPaths(s) \ {p} : tab[q] = s.tab[q])
    BY <1>2, <2>3 DEF Tab
  <2>6. t = [s EXCEPT !.tab = tab, !.preview = preview] OBVIOUS
  <2> HIDE DEF tab, preview, t
  <2>7. t = [tabs |-> s.tabs, tab |-> tab, active |-> s.active, preview |-> preview, recent |-> s.recent]
    BY <2>1, <2>6
  <2>8. SessionShape(t) BY <2>3, <2>4, <2>7 DEF SessionShape, OpenPaths
  <2> QED BY <1>2, <2>2, <2>4, <2>5, <2>7, <2>8 DEF IsDirty, OpenPaths
<1> QED BY <1>1, <1>2 DEF IsDirty

\* setTabMissing and markTabsPresent change no edit.
LEMMA SetMissingFacts ==
  ASSUME NEW s, SessionShape(s), NEW gone, NEW present
  PROVE  /\ SessionShape(SetMissing(s, gone, present))
         /\ OpenPaths(SetMissing(s, gone, present)) = OpenPaths(s)
         /\ \A q : IsDirty(SetMissing(s, gone, present), q) = IsDirty(s, q)
<1> DEFINE tab == [q \in OpenPaths(s) |-> [s.tab[q] EXCEPT !.missing = q \in gone \/ (@ /\ q \notin present)]]
           t == [s EXCEPT !.tab = tab]
<1>1. s = [tabs |-> s.tabs, tab |-> s.tab, active |-> s.active, preview |-> s.preview,
           recent |-> s.recent]
  BY DEF SessionShape
<1>2. SetMissing(s, gone, present) = t BY DEF SetMissing
<1>3. s.tab \in [OpenPaths(s) -> Tab] BY DEF SessionShape
<1>4. tab \in [OpenPaths(s) -> Tab] /\ (\A q \in OpenPaths(s) : tab[q].dirty = s.tab[q].dirty)
  BY <1>3 DEF Tab
<1> HIDE DEF tab
<1>5. t = [tabs |-> s.tabs, tab |-> tab, active |-> s.active, preview |-> s.preview, recent |-> s.recent]
  BY <1>1
<1> HIDE DEF t
<1>6. SessionShape(t) /\ OpenPaths(t) = OpenPaths(s) BY <1>4, <1>5 DEF SessionShape, OpenPaths
<1>7. \A q : IsDirty(t, q) = IsDirty(s, q) BY <1>4, <1>5, <1>6 DEF IsDirty
<1> QED BY <1>2, <1>6, <1>7

\* removeTabsUnder closes no edited tab.
LEMMA RemoveUnderFacts ==
  ASSUME NEW s, SessionShape(s), NEW removed
  PROVE  /\ SessionShape(RemoveUnder(s, removed))
         /\ EditsStay(s, RemoveUnder(s, removed))
         /\ \A q \in ClosedAmong(s, removed) : ~IsDirty(s, q)
<1> DEFINE t == SetMissing(s, removed, {})
           ps == ClosedAmong(s, removed)
<1>1. SessionShape(t) /\ (\A q : IsDirty(t, q) = IsDirty(s, q)) BY SetMissingFacts
<1>2. \A q \in ps : ~IsDirty(s, q) BY DEF ClosedAmong
<1>3. RemoveUnder(s, removed) = CloseTabs(t, ps) BY DEF RemoveUnder
<1> HIDE DEF t, ps
<1>4. SessionShape(CloseTabs(t, ps)) /\ EditsStay(t, CloseTabs(t, ps))
  BY <1>1, <1>2, CloseCleanFacts
<1> QED BY <1>1, <1>2, <1>3, <1>4 DEF EditsStay, ps

\* moveTab changes the order and nothing else.
LEMMA MoveFacts ==
  ASSUME NEW s, SessionShape(s), NEW p, NEW i
  PROVE  SessionShape(MoveTab(s, p, i)) /\ EditsStay(s, MoveTab(s, p, i))
<1> DEFINE tabs == InsertAt(RemoveAt(s.tabs, Position(s.tabs, p)), i, p)
           t == [s EXCEPT !.tabs = tabs]
<1>1. MoveTab(s, p, i) = t BY DEF MoveTab
<1> HIDE DEF tabs
<1>2. t = [tabs |-> tabs, tab |-> s.tab, active |-> s.active, preview |-> s.preview, recent |-> s.recent]
  BY DEF SessionShape
<1> HIDE DEF t
<1> QED BY <1>1, <1>2 DEF SessionShape, OpenPaths, EditsStay, IsDirty

\* renameTabPaths: the tab of the old path becomes that of the new one.
LEMMA RenamedFacts ==
  ASSUME NEW s, SessionShape(s), NEW from \in Paths, NEW to \in Paths, from # to
  PROVE  /\ SessionShape(Renamed(s, from, to))
         /\ \A q \in Paths \ {from, to} : IsDirty(Renamed(s, from, to), q) = IsDirty(s, q)
         /\ from \in OpenPaths(s) /\ to \notin OpenPaths(s)
              => IsDirty(Renamed(s, from, to), to) = IsDirty(s, from)
         /\ from \notin OpenPaths(s) => Renamed(s, from, to) = s
<1>1. CASE from \notin OpenPaths(s) BY <1>1 DEF Renamed
<1>2. CASE from \in OpenPaths(s)
  <2> DEFINE earlier == to \in OpenPaths(s) /\ Position(s.tabs, to) < Position(s.tabs, from)
             kept == IF earlier THEN to ELSE from
             left == [q \in OpenPaths(s) \ {from} |-> s.tab[q]]
             tab == Put(left, to, s.tab[kept])
             t == Renamed(s, from, to)
  <2>1. t.tab = tab /\ t.active = (IF s.active = from THEN to ELSE s.active)
        /\ t = [tabs |-> t.tabs, tab |-> t.tab, active |-> t.active, preview |-> t.preview, recent |-> t.recent]
    BY <1>2 DEF Renamed
  <2>2. kept \in OpenPaths(s) /\ (to \notin OpenPaths(s) => kept = from) BY <1>2
  <2>3. s.tab \in [OpenPaths(s) -> Tab] /\ OpenPaths(s) \subseteq Paths BY DEF SessionShape
  <2>4. /\ tab \in [(OpenPaths(s) \ {from}) \cup {to} -> Tab]
        /\ tab[to] = s.tab[kept]
        /\ \A q \in OpenPaths(s) \ {from, to} : tab[q] = s.tab[q]
    BY <2>2, <2>3 DEF Put
  <2> HIDE DEF t, tab, kept
  <2>5. SessionShape(t) BY <2>1, <2>3, <2>4 DEF SessionShape, OpenPaths
  <2>6. OpenPaths(t) = (OpenPaths(s) \ {from}) \cup {to} BY <2>1, <2>4 DEF OpenPaths
  <2>7. \A q \in Paths \ {from, to} : IsDirty(t, q) = IsDirty(s, q) BY <2>1, <2>4, <2>6 DEF IsDirty
  <2>8. to \notin OpenPaths(s) => IsDirty(t, to) = IsDirty(s, from)
    BY <1>2, <2>1, <2>2, <2>4, <2>6 DEF IsDirty
  <2> QED BY <1>2, <2>5, <2>7, <2>8 DEF t
<1> QED BY <1>1, <1>2

\* restoreSession
LEMMA RestoredFacts ==
  ASSUME NEW s, SessionShape(s)
  PROVE  SessionShape(Restored(s))
<1> DEFINE tab == [q \in OpenPaths(s) |-> [s.tab[q] EXCEPT !.dirty = FALSE, !.missing = FALSE]]
           preview == IF s.preview \in OpenPaths(s) /\ ~s.tab[s.preview].pinned THEN s.preview ELSE Nowhere
           t == [s EXCEPT !.tab = tab, !.preview = preview, !.recent = s.tabs]
<1>1. s = [tabs |-> s.tabs, tab |-> s.tab, active |-> s.active, preview |-> s.preview,
           recent |-> s.recent]
  BY DEF SessionShape
<1>2. Restored(s) = t BY <1>1 DEF Restored, OpenPaths
<1>3. tab \in [OpenPaths(s) -> Tab] BY DEF SessionShape, Tab
<1>4. t = [s EXCEPT !.tab = tab, !.preview = preview, !.recent = s.tabs] OBVIOUS
<1> HIDE DEF tab, preview, t
<1>5. t = [tabs |-> s.tabs, tab |-> tab, active |-> s.active, preview |-> preview, recent |-> s.tabs]
  BY <1>1, <1>4
<1> QED BY <1>2, <1>3, <1>5 DEF SessionShape, OpenPaths

------------------------------
(* The inductive invariant.  A file is edited while what was typed into it *)
(* is remembered and no race of its history excuses it.  Everything else *)
(* says where a text may be: what is on disk, on screen, in a draft or on *)
(* its way to be saved. *)

Unraced(p) == ~Raced(p, {"save", "tab"})
Edited(p) == Unraced(p) /\ last[p] # Nothing

\* A rename is under way that takes typed text along.
Carrying == renaming.stage \in {"sent", "done"} /\ Edited(renaming.from)

\* A text that file q may have: it is no text that will be typed next, nor the one that a
\* rename to q brings.
Spared(q, c) ==
  /\ c \in Text /\ (c <= texts \/ c > MaxTexts)
  /\ Carrying /\ q = renaming.to => c # last[renaming.from].text

\* A text of file q that is not the one typed into it.
Foreign(q, c) == Spared(q, c) /\ (Edited(q) => c # last[q].text)

HistoryTypes ==
  /\ texts \in 0..MaxTexts /\ changes \in 0..MaxChanges
  /\ last \in [Paths -> [text : Content, base : Content]]
  /\ \A p \in Paths : last[p] = Nothing \/ (last[p].text \in 1..texts /\ last[p].base \in Text)
  /\ \/ renaming = NoRename
     \/ /\ renaming \in [from : Paths, to : Paths, stage : {"sent", "done", "refused"}]
        /\ renaming.from # renaming.to

DiskInv(f) == f \in [Paths -> Content] /\ \A q \in Paths : f[q] = Absent \/ Foreign(q, f[q])

SessionInv(s) == SessionShape(s) /\ \A p \in Paths : Edited(p) => IsDirty(s, p)

DraftsInv(d) ==
  /\ d = [q \in DOMAIN d |-> d[q]] /\ DOMAIN d \subseteq Paths
  /\ \A q \in DOMAIN d : d[q] \in Draft /\ Spared(q, d[q].content)
  /\ \A p \in Paths : Edited(p) =>
       p \in DOMAIN d /\ d[p].content = last[p].text /\ d[p].expected = last[p].base

EditorInv(v) ==
  /\ v \in Viewer
  /\ v.data # Nowhere => Foreign(v.data, v.content) /\ Spared(v.data, v.draft)
  /\ Mounted(v) /\ Edited(v.data) => v.draft = last[v.data].text

RequestInv(v) ==
  /\ v.reading # "none" => v.path # Nowhere
  /\ v.reading = "answered" => v.answer = Absent \/ Foreign(v.path, v.answer)

ViewInv(v) == EditorInv(v) /\ RequestInv(v)

SaveState ==
  [from : {"none", "editor", "close"}, path : Paths \cup {Nowhere}, content : Text, expected : Text,
   stage : {"none", "sent", "compared", "saved", "conflict", "error", "closing"}]

SaveInv(w) ==
  w.stage # "none" =>
    /\ w.path \in Paths /\ Spared(w.path, w.content)
    /\ Edited(w.path) => /\ w.content = last[w.path].text /\ w.expected = last[w.path].base
                         /\ w.stage \notin {"saved", "closing"}

SavesInv(sv) == sv \in [Saves -> SaveState] /\ \A i \in Saves : SaveInv(sv[i])

\* A draft that nothing remembers has just been saved.
Explained(d, sv) ==
  \A p \in DOMAIN d : Unraced(p) /\ last[p] = Nothing =>
    \E i \in Saves : sv[i].path = p /\ sv[i].stage = "saved"

EditInv ==
  /\ HistoryTypes /\ DiskInv(disk) /\ SessionInv(session) /\ DraftsInv(drafts)
  /\ ViewInv(viewer) /\ SavesInv(save) /\ Explained(drafts, save)

\* The history as the steps see it that neither type, save nor rename.
Unmoved ==
  /\ UNCHANGED <<texts, last, raced, renaming>>
  /\ UNCHANGED changes \/ changes' \in 0..MaxChanges

\* A step that leaves the history alone keeps the invariant when each part stands.
LEMMA CommitStep ==
  ASSUME EditInv, Unmoved, DiskInv(disk'), SessionInv(session'), DraftsInv(drafts'),
         ViewInv(viewer'), SavesInv(save'), Explained(drafts', save')
  PROVE  EditInv'
<1>1. HistoryTypes' BY DEF EditInv, Unmoved, HistoryTypes
<1>2. /\ \A p : Edited(p)' = Edited(p) /\ Unraced(p)' = Unraced(p)
      /\ Carrying' = Carrying
  BY DEF Unmoved, Edited, Unraced, Raced, Carrying
<1>3. \A q, c : Spared(q, c)' = Spared(q, c) /\ Foreign(q, c)' = Foreign(q, c)
  BY <1>2 DEF Unmoved, Spared, Foreign, Edited, Unraced, Raced, Carrying
<1>4. DiskInv(disk)' BY <1>3 DEF DiskInv
<1>5. SessionInv(session)' BY <1>2 DEF SessionInv, SessionShape, IsDirty, OpenPaths
<1>6. DraftsInv(drafts)' BY <1>2, <1>3 DEF DraftsInv, Unmoved
<1>7. ViewInv(viewer)' BY <1>2, <1>3 DEF ViewInv, EditorInv, RequestInv, Unmoved, Mounted
<1>8. SavesInv(save)' BY <1>2, <1>3 DEF SavesInv, SaveInv, Unmoved
<1>9. Explained(drafts, save)' BY <1>2 DEF Explained, Unmoved
<1> QED BY <1>1, <1>4, <1>5, <1>6, <1>7, <1>8, <1>9 DEF EditInv

------------------------------
(* The viewer's functions. *)

\* A new editor shows the draft that is held, else a text of the file.
LEMMA MountInv ==
  ASSUME NEW v, NEW d, NEW p \in Paths, NEW c, EditorInv(v), DraftsInv(d), Foreign(p, c)
  PROVE  /\ EditorInv(Mount(v, p, c, d))
         /\ Mount(v, p, c, d).path = v.path /\ Mount(v, p, c, d).reading = v.reading
         /\ Mount(v, p, c, d).answer = v.answer
<1> DEFINE draft == DraftFor(d, p, c)
           dirty == draft # c
           m == Mount(v, p, c, d)
<1>1. Spared(p, draft) /\ (Edited(p) => draft = last[p].text) BY DEF DraftsInv, DraftFor, Foreign
<1>2. m = [v EXCEPT !.data = p, !.content = c, !.draft = draft, !.fileDirty = dirty,
                    !.failed = FALSE, !.saving = Nowhere]
  BY DEF Mount
<1>3. dirty \in BOOLEAN /\ v \in Viewer BY DEF EditorInv
<1>4. c \in Text /\ draft \in Text BY <1>1 DEF Foreign, Spared
<1> HIDE DEF draft, dirty, m
<1>5. /\ m \in Viewer /\ m.data = p /\ m.content = c /\ m.draft = draft /\ m.failed = FALSE
      /\ m.path = v.path /\ m.reading = v.reading /\ m.answer = v.answer
  BY <1>2, <1>3, <1>4 DEF Viewer
<1> QED BY <1>1, <1>5 DEF EditorInv, m

\* The editor of a file gets another text of it and keeps what was typed.
LEMMA RefiledInv ==
  ASSUME NEW v, EditorInv(v), Mounted(v), NEW c, Foreign(v.data, c)
  PROVE  /\ EditorInv(Refiled(v, c))
         /\ Refiled(v, c).path = v.path /\ Refiled(v, c).reading = v.reading
         /\ Refiled(v, c).answer = v.answer
<1> DEFINE draft == IF v.draft = v.content THEN c ELSE v.draft
           dirty == IF (v.draft # v.content) # (draft # c) THEN draft # c ELSE v.fileDirty
           m == Refiled(v, c)
<1>1. v \in Viewer /\ v.data # Nowhere BY DEF EditorInv, Mounted
<1>2. m = [v EXCEPT !.content = c, !.draft = draft, !.fileDirty = dirty] BY <1>1 DEF Refiled, Viewer
<1>3. dirty \in BOOLEAN BY <1>1 DEF Viewer
<1>4. Spared(v.data, draft) /\ c \in Text /\ (Edited(v.data) => draft = last[v.data].text)
  BY <1>1 DEF EditorInv, Foreign, Spared, Mounted
<1>5. draft \in Text BY <1>4 DEF Spared
<1> HIDE DEF draft, dirty, m
<1>6. /\ m \in Viewer /\ m.data = v.data /\ m.content = c /\ m.draft = draft /\ m.failed = v.failed
      /\ m.path = v.path /\ m.reading = v.reading /\ m.answer = v.answer
  BY <1>1, <1>2, <1>3, <1>4, <1>5 DEF Viewer
<1> QED BY <1>1, <1>4, <1>6 DEF EditorInv, Mounted, m

\* An empty viewer says nothing of any file.
LEMMA NoViewInv == ViewInv(NoView)
<1>1. NoView \in Viewer BY OpenFilesAssumption DEF NoView, Viewer, Text, Content, Absent
<1> QED BY <1>1 DEF ViewInv, EditorInv, RequestInv, NoView, Mounted

\* What a new request leaves of an editor: its text, or the draft of its file when an error
\* is forgotten and the editor mounts again.
Requested(v, d, m) ==
  /\ m \in Viewer /\ m.reading # "answered" /\ (m.reading # "none" => m.path # Nowhere)
  /\ m.data # Nowhere =>
       /\ m.data = v.data /\ m.content = v.content
       /\ (~v.failed /\ m.draft = v.draft) \/ m.draft = DraftFor(d, v.data, v.content)

\* The load effect leaves the editor its text, unless an error is forgotten.
LEMMA LoadFacts ==
  ASSUME NEW v, NEW d, v \in Viewer, \A q \in DOMAIN d : d[q] \in Draft
  PROVE  Requested(v, d, Load(v, d))
<1> DEFINE again == v.failed /\ v.data # Nowhere
           shown == IF again THEN Mount(v, v.data, v.content, d) ELSE [v EXCEPT !.failed = FALSE]
           m == [shown EXCEPT !.reading = "asked", !.answer = Absent]
<1>1. NoView \in Viewer BY NoViewInv DEF ViewInv, EditorInv
<1>2. /\ shown \in Viewer /\ shown.path = v.path /\ shown.data = v.data /\ shown.content = v.content
      /\ (~v.failed /\ shown.draft = v.draft) \/ shown.draft = DraftFor(d, v.data, v.content) \/ v.data = Nowhere
  <2>1. CASE again
    <3> DEFINE draft == DraftFor(d, v.data, v.content)
               dirty == draft # v.content
               w == [v EXCEPT !.data = v.data, !.content = v.content, !.draft = draft,
                              !.fileDirty = dirty, !.failed = FALSE, !.saving = Nowhere]
    <3>1. draft \in Text /\ dirty \in BOOLEAN BY DEF DraftFor, Draft, Viewer
    <3>2. shown = w BY <2>1 DEF Mount
    <3> HIDE DEF draft, dirty
    <3>3. w \in Viewer /\ w.path = v.path /\ w.data = v.data /\ w.content = v.content /\ w.draft = draft
      BY <3>1 DEF Viewer
    <3> HIDE DEF w
    <3> QED BY <3>2, <3>3 DEF draft
  <2>2. CASE ~again
    <3> DEFINE w == [v EXCEPT !.failed = FALSE]
    <3>1. w \in Viewer /\ w.path = v.path /\ w.data = v.data /\ w.content = v.content /\ w.draft = v.draft
      BY DEF Viewer
    <3> HIDE DEF w
    <3> QED BY <2>2, <3>1 DEF w
  <2> QED BY <2>1, <2>2
<1>3. Load(v, d) = IF v.path = Nowhere THEN NoView ELSE m BY DEF Load
<1> HIDE DEF shown
<1>4. /\ m \in Viewer /\ m.data = shown.data /\ m.content = shown.content /\ m.draft = shown.draft
      /\ m.path = shown.path /\ m.reading = "asked"
  BY <1>2 DEF Viewer, Content
<1> HIDE DEF m
<1> QED BY <1>1, <1>2, <1>3, <1>4 DEF Requested, NoView

\* So does the selection of a file, which loads it.
LEMMA SelectFacts ==
  ASSUME NEW v, NEW d, NEW p \in Paths \cup {Nowhere}, v \in Viewer, \A q \in DOMAIN d : d[q] \in Draft
  PROVE  Requested(v, d, Select(v, p, d))
<1> DEFINE w == [v EXCEPT !.path = p, !.fileDirty = FALSE]
<1>1. /\ w \in Viewer /\ w.data = v.data /\ w.content = v.content /\ w.draft = v.draft
      /\ w.failed = v.failed
  BY DEF Viewer
<1>2. Select(v, p, d) = Load(w, d) BY DEF Select
<1> HIDE DEF w
<1>3. Requested(w, d, Load(w, d)) BY <1>1, LoadFacts
<1> QED BY <1>1, <1>2, <1>3 DEF Requested

\* What a request leaves shows what was typed, as the editor or the drafts did.
LEMMA RequestedInv ==
  ASSUME NEW v, NEW d, NEW m, EditorInv(v), DraftsInv(d), Requested(v, d, m)
  PROVE  ViewInv(m)
<1>1. RequestInv(m) /\ m \in Viewer BY DEF Requested, RequestInv
<1>2. ASSUME m.data # Nowhere
      PROVE  /\ Foreign(m.data, m.content) /\ Spared(m.data, m.draft)
             /\ Edited(m.data) => m.draft = last[m.data].text
  <2> DEFINE p == v.data
  <2>1. p \in Paths /\ m.data = p /\ m.content = v.content /\ Foreign(p, v.content) /\ Spared(p, v.draft)
    BY <1>2 DEF Requested, EditorInv, Viewer
  <2>2. CASE ~v.failed /\ m.draft = v.draft BY <1>2, <2>1, <2>2 DEF EditorInv, Mounted
  <2>3. CASE m.draft = DraftFor(d, p, v.content) BY <2>1, <2>3 DEF DraftFor, DraftsInv, Foreign
  <2> QED BY <1>2, <2>2, <2>3 DEF Requested
<1> QED BY <1>1, <1>2 DEF ViewInv, EditorInv, Mounted

\* The file on screen is loaded again.
LEMMA LoadInv ==
  ASSUME NEW v, EditorInv(v), NEW d, DraftsInv(d)
  PROVE  ViewInv(Load(v, d))
BY LoadFacts, RequestedInv DEF EditorInv, DraftsInv

\* Another file is selected, or none.
LEMMA SelectInv ==
  ASSUME NEW v, EditorInv(v), NEW d, DraftsInv(d), NEW p \in Paths \cup {Nowhere}
  PROVE  ViewInv(Select(v, p, d))
BY SelectFacts, RequestedInv DEF EditorInv, DraftsInv

\* A draft goes only when nothing typed needs it.
LEMMA DroppedInv ==
  ASSUME NEW d, NEW ps, NEW sv, DraftsInv(d), \A p \in ps \cap Paths : ~Edited(p)
  PROVE  DraftsInv(Dropped(d, ps)) /\ (Explained(d, sv) => Explained(Dropped(d, ps), sv))
BY DEF DraftsInv, Dropped, Explained

\* An edited file's tab is marked, so what is unmarked is not edited.
LEMMA CleanIsUnedited ==
  ASSUME EditInv, NEW p \in Paths, ~IsDirty(session, p)
  PROVE  ~Edited(p)
BY DEF EditInv, SessionInv

\* A step that leaves the edited tabs leaves those of the typed texts.
LEMMA EditsStayInv ==
  ASSUME EditInv, NEW s, SessionShape(s), EditsStay(session, s)
  PROVE  SessionInv(s)
BY DEF EditInv, SessionInv, EditsStay
------------------------------
(* The steps: the viewer and the tabs. *)

\* What the server reads is a text of the file.
LEMMA ReadFileStep == EditInv /\ ReadFile => EditInv'
<1> SUFFICES ASSUME EditInv, ReadFile PROVE EditInv'
  OBVIOUS
<1> USE DEF EditInv
<1>1. viewer \in Viewer /\ viewer.path \in Paths
  BY DEF ReadFile, ViewInv, EditorInv, RequestInv, Viewer
<1>2. disk[viewer.path] \in Content /\ (disk[viewer.path] = Absent \/ Foreign(viewer.path, disk[viewer.path]))
  BY <1>1 DEF DiskInv
<1>3. /\ viewer' \in Viewer /\ viewer'.data = viewer.data /\ viewer'.content = viewer.content
      /\ viewer'.draft = viewer.draft /\ viewer'.path = viewer.path /\ viewer'.failed = viewer.failed
      /\ viewer'.answer = disk[viewer.path]
  BY <1>1, <1>2 DEF ReadFile, Viewer
<1>4. ViewInv(viewer')
  BY <1>1, <1>2, <1>3, TabAssumption DEF ViewInv, EditorInv, RequestInv, Mounted
<1> QED BY <1>4, CommitStep DEF ReadFile, Unmoved

\* An answer mounts an editor, or gives a clean one the new text.
LEMMA FileArrivesStep == EditInv /\ FileArrives => EditInv'
<1> SUFFICES ASSUME EditInv, FileArrives PROVE EditInv'
  OBVIOUS
<1> DEFINE shown == IF viewer.answer = Absent THEN [viewer EXCEPT !.failed = TRUE] ELSE Shown(viewer, drafts)
<1>1. viewer \in Viewer /\ viewer.path \in Paths /\ EditorInv(viewer) /\ DraftsInv(drafts)
  BY DEF EditInv, FileArrives, ViewInv, EditorInv, RequestInv, Viewer
<1>2. viewer.answer = Absent \/ Foreign(viewer.path, viewer.answer)
  BY DEF EditInv, FileArrives, ViewInv, RequestInv
<1>3. EditorInv(shown)
  <2>1. CASE viewer.answer = Absent
    <3> DEFINE w == [viewer EXCEPT !.failed = TRUE]
    <3>1. w \in Viewer /\ w.data = viewer.data /\ w.content = viewer.content /\ w.draft = viewer.draft /\ w.failed
      BY <1>1 DEF Viewer
    <3> HIDE DEF w
    <3>2. EditorInv(w) BY <1>1, <3>1 DEF EditorInv, Mounted
    <3> QED BY <2>1, <3>2 DEF w
  <2>2. CASE viewer.answer # Absent /\ (viewer.data # viewer.path \/ ~Mounted(viewer))
    <3>1. EditorInv(Mount(viewer, viewer.path, viewer.answer, drafts)) BY <1>1, <1>2, <2>2, MountInv
    <3> QED BY <2>2, <3>1 DEF Shown
  <2>3. CASE viewer.answer # Absent /\ viewer.data = viewer.path /\ Mounted(viewer)
    <3>1. EditorInv(Refiled(viewer, viewer.answer)) BY <1>1, <1>2, <2>3, RefiledInv
    <3> QED BY <1>1, <2>3, <3>1 DEF Shown
  <2> QED BY <2>1, <2>2, <2>3
<1>4. viewer' = [shown EXCEPT !.reading = "none", !.answer = Absent] BY DEF FileArrives
<1> HIDE DEF shown
<1>5. /\ viewer' \in Viewer /\ viewer'.data = shown.data /\ viewer'.content = shown.content
      /\ viewer'.draft = shown.draft /\ viewer'.failed = shown.failed /\ viewer'.reading = "none"
  BY <1>3, <1>4 DEF EditorInv, Viewer, Content
<1>6. ViewInv(viewer') BY <1>3, <1>5 DEF ViewInv, EditorInv, RequestInv, Mounted
<1> QED BY <1>6, CommitStep DEF FileArrives, Unmoved, EditInv

\* No edited tab makes way for the file that is opened.
LEMMA OpenFileStep == EditInv /\ OpenFile => EditInv'
<1> SUFFICES ASSUME EditInv, OpenFile PROVE EditInv'
  OBVIOUS
<1>1. PICK p \in Paths, mode \in {"preview", "pinned"} :
        LET opened == Opened(session, p, mode)
            kept == Dropped(drafts, opened.evicted)
        IN Commit(opened.session, kept, Select(viewer, p, kept))
  BY DEF OpenFile
<1> DEFINE s == Opened(session, p, mode).session
           evicted == Opened(session, p, mode).evicted
           d == Dropped(drafts, evicted)
<1>2. SessionShape(s) /\ EditsStay(session, s) /\ (\A q \in evicted : ~IsDirty(session, q))
  BY OpenedFacts DEF EditInv, SessionInv
<1>3. session' = s /\ drafts' = d /\ viewer' = Select(viewer, p, d) BY <1>1 DEF Commit
<1> HIDE DEF s, evicted
<1>4. DraftsInv(d) /\ Explained(d, save) BY <1>2, CleanIsUnedited, DroppedInv DEF EditInv
<1> HIDE DEF d
<1>5. ViewInv(viewer') BY <1>3, <1>4, SelectInv DEF EditInv, ViewInv
<1>6. SessionInv(session') BY <1>2, <1>3, EditsStayInv
<1> QED BY <1>3, <1>4, <1>5, <1>6, CommitStep DEF OpenFile, Unmoved, EditInv

\* Going to another tab changes no tab and no draft.
LEMMA ActivateFileTabStep == EditInv /\ ActivateFileTab => EditInv'
<1> SUFFICES ASSUME EditInv, ActivateFileTab PROVE EditInv'
  OBVIOUS
<1>1. PICK p \in OpenPaths(session) :
        Commit(ActivateTab(session, p), drafts, Select(viewer, p, drafts))
  BY DEF ActivateFileTab
<1>2. p \in Paths /\ SessionShape(session) BY DEF EditInv, SessionInv, SessionShape
<1>3. session' = Activate(session, p) /\ drafts' = drafts /\ viewer' = Select(viewer, p, drafts)
  BY <1>1 DEF Commit, ActivateTab
<1>4. ViewInv(viewer') BY <1>2, <1>3, SelectInv DEF EditInv, ViewInv
<1>5. SessionShape(session') /\ session'.tab = session.tab BY <1>2, <1>3, ActivateFacts
<1>6. EditsStay(session, session') BY <1>5 DEF EditsStay, IsDirty, OpenPaths
<1>7. SessionInv(session') BY <1>5, <1>6, EditsStayInv
<1> QED BY <1>3, <1>4, <1>7, CommitStep DEF ActivateFileTab, Unmoved, EditInv

\* Moving a tab changes their order only.
LEMMA ReorderFileTabStep == EditInv /\ ReorderFileTab => EditInv'
<1> SUFFICES ASSUME EditInv, ReorderFileTab PROVE EditInv'
  OBVIOUS
<1>1. PICK p, i : session' = MoveTab(session, p, i) BY DEF ReorderFileTab
<1>2. SessionShape(session) BY DEF EditInv, SessionInv
<1>3. SessionShape(session') /\ EditsStay(session, session') BY <1>1, <1>2, MoveFacts
<1>4. SessionInv(session') BY <1>3, EditsStayInv
<1> QED BY <1>4, CommitStep DEF ReorderFileTab, Unmoved, EditInv

\* The editor goes and the drafts stay.
LEMMA SwitchViewStep == EditInv /\ SwitchView => EditInv'
<1> SUFFICES ASSUME EditInv, SwitchView PROVE EditInv'
  OBVIOUS
<1>1. PICK p \in Paths \cup {Nowhere} : viewer' = Select(viewer, p, drafts)
  BY DEF SwitchView, EditInv, SessionInv, SessionShape
<1>2. ViewInv(viewer') BY <1>1, SelectInv DEF EditInv, ViewInv
<1> QED BY <1>2, CommitStep DEF SwitchView, Unmoved, EditInv

\* A save that is not under way says nothing.
LEMMA NoSaveIsState == NoSave \in SaveState /\ SaveInv(NoSave)
BY OpenFilesAssumption DEF NoSave, SaveState, SaveInv, Text

\* A save that isn't just saved, or whose draft has gone, may end.
LEMMA EndedSaveInv ==
  ASSUME NEW sv, NEW i \in Saves, SavesInv(sv)
  PROVE  /\ SavesInv([sv EXCEPT ![i] = NoSave])
         /\ \A d : /\ Explained(d, sv)
                   /\ sv[i].stage # "saved" \/ sv[i].path \notin DOMAIN d
                   => Explained(d, [sv EXCEPT ![i] = NoSave])
<1> DEFINE w == [sv EXCEPT ![i] = NoSave]
<1>1. sv \in [Saves -> SaveState] /\ (\A j \in Saves : SaveInv(sv[j])) BY DEF SavesInv
<1>2. w \in [Saves -> SaveState] /\ w[i] = NoSave /\ (\A j \in Saves \ {i} : w[j] = sv[j])
  BY <1>1, NoSaveIsState
<1> HIDE DEF w
<1>3. SavesInv(w) BY <1>1, <1>2, NoSaveIsState DEF SavesInv
<1>4. ASSUME NEW d, Explained(d, sv), sv[i].stage # "saved" \/ sv[i].path \notin DOMAIN d
      PROVE  Explained(d, w)
  <2>1. SUFFICES ASSUME NEW p \in DOMAIN d, Unraced(p), last[p] = Nothing
                 PROVE  \E j \in Saves : w[j].path = p /\ w[j].stage = "saved"
    BY DEF Explained
  <2>2. PICK j \in Saves : sv[j].path = p /\ sv[j].stage = "saved" BY <1>4, <2>1 DEF Explained
  <2>3. j # i BY <1>4, <2>2
  <2> QED BY <1>2, <2>2, <2>3
<1> QED BY <1>3, <1>4 DEF w

\* closeFileTab of a file that nothing typed needs: what is left stands.
LEMMA ClosedInv ==
  ASSUME EditInv, NEW p, Closed(p), p \in Paths => ~Edited(p)
  PROVE  /\ SessionInv(session') /\ DraftsInv(drafts') /\ ViewInv(viewer')
         /\ \A sv : Explained(drafts, sv) => Explained(drafts', sv)
<1> DEFINE s == CloseTab(session, p)
           d == Dropped(drafts, {p})
<1>1. SessionShape(s) /\ (\A q \in Paths \ {p} : IsDirty(session, q) => IsDirty(s, q))
  BY CloseOneFacts DEF EditInv, SessionInv
<1>2. /\ session' = s /\ drafts' = d
      /\ viewer' = IF viewer.path = p THEN Select(viewer, s.active, d) ELSE viewer
  BY DEF Closed, Commit
<1>3. DraftsInv(d) /\ (\A sv : Explained(drafts, sv) => Explained(d, sv)) BY DroppedInv DEF EditInv
<1> HIDE DEF s, d
<1>4. SessionInv(s) BY <1>1 DEF EditInv, SessionInv
<1>5. ViewInv(viewer') BY <1>1, <1>2, <1>3, SelectInv DEF EditInv, ViewInv, SessionShape
<1> QED BY <1>2, <1>3, <1>4, <1>5

\* A tab that closes without asking was not edited.
LEMMA CloseFileTabStep == EditInv /\ CloseFileTab => EditInv'
<1> SUFFICES ASSUME EditInv, CloseFileTab PROVE EditInv'
  OBVIOUS
<1>1. PICK p \in OpenPaths(session) :
        IF Asks(p) THEN UNCHANGED <<session, drafts, viewer>> ELSE Closed(p)
  BY DEF CloseFileTab
<1>2. p \in Paths BY DEF EditInv, SessionInv, SessionShape
<1>3. CASE Asks(p) BY <1>1, <1>3, CommitStep DEF CloseFileTab, Unmoved, EditInv
<1>4. CASE ~Asks(p)
  <2>1. Closed(p) /\ ~Edited(p) BY <1>1, <1>2, <1>4, CleanIsUnedited DEF Asks
  <2>2. UNCHANGED <<texts, changes, last, raced, renaming, disk, save>> BY DEF CloseFileTab
  <2> QED BY <2>1, <2>2, ClosedInv, CommitStep DEF Unmoved, EditInv
<1> QED BY <1>3, <1>4

LEMMA CancelStep == EditInv /\ Cancel => EditInv'
BY CommitStep DEF Cancel, Unmoved, EditInv

\* Closing a tab whose saved text is confirmed.
LEMMA CloseSavedStep == EditInv /\ CloseSaved => EditInv'
<1> SUFFICES ASSUME EditInv, CloseSaved PROVE EditInv'
  OBVIOUS
<1>1. PICK i \in Saves : /\ save[i].stage = "closing" /\ save' = [save EXCEPT ![i] = NoSave]
                         /\ Closed(save[i].path)
  BY DEF CloseSaved
<1>2. SaveInv(save[i]) /\ save \in [Saves -> SaveState] BY DEF EditInv, SavesInv
<1>3. save[i].path \in Paths /\ ~Edited(save[i].path) BY <1>1, <1>2 DEF SaveInv
<1>4. SavesInv(save') /\ (\A d : Explained(d, save) => Explained(d, save'))
  BY <1>1, <1>2, EndedSaveInv DEF EditInv
<1>5. UNCHANGED <<texts, changes, last, raced, renaming, disk>> BY DEF CloseSaved
<1> QED BY <1>1, <1>3, <1>4, <1>5, ClosedInv, CommitStep DEF Unmoved, EditInv

------------------------------
(* The steps: saving. *)

\* A new save carries what was typed and the text that its edit began from.
LEMMA BegunSaveInv ==
  ASSUME NEW sv, NEW i \in Saves, SavesInv(sv), sv[i] = NoSave,
         NEW r \in SaveState, SaveInv(r)
  PROVE  /\ SavesInv([sv EXCEPT ![i] = r])
         /\ \A d : Explained(d, sv) => Explained(d, [sv EXCEPT ![i] = r])
<1> DEFINE w == [sv EXCEPT ![i] = r]
<1>1. sv \in [Saves -> SaveState] /\ (\A j \in Saves : SaveInv(sv[j])) BY DEF SavesInv
<1>2. w \in [Saves -> SaveState] /\ w[i] = r /\ (\A j \in Saves \ {i} : w[j] = sv[j]) BY <1>1
<1>3. sv[i].stage # "saved" BY DEF NoSave
<1> HIDE DEF w
<1>4. SavesInv(w) BY <1>1, <1>2 DEF SavesInv
<1>5. \A d : Explained(d, sv) => Explained(d, w) BY <1>2, <1>3 DEF Explained
<1> QED BY <1>4, <1>5 DEF w

\* The save that a close begins takes the draft and the text it began from.
LEMMA SaveAndCloseStep == EditInv /\ SaveAndClose => EditInv'
<1> SUFFICES ASSUME EditInv, SaveAndClose PROVE EditInv'
  OBVIOUS
<1>1. UNCHANGED <<disk, texts, changes, last, raced, renaming>> BY DEF SaveAndClose
<1>2. CASE prompt \notin DOMAIN drafts
  <2>1. Closed(prompt) /\ UNCHANGED save BY <1>2 DEF SaveAndClose
  <2>2. prompt \in Paths => ~Edited(prompt) BY <1>2 DEF EditInv, DraftsInv
  <2> QED BY <1>1, <2>1, <2>2, ClosedInv, CommitStep DEF Unmoved, EditInv
<1>3. CASE prompt \in DOMAIN drafts
  <2> DEFINE r == [from |-> "close", path |-> prompt, content |-> drafts[prompt].content,
                   expected |-> drafts[prompt].expected, stage |-> "sent"]
  <2>1. PICK i \in Saves : save[i] = NoSave /\ save' = [save EXCEPT ![i] = r]
    BY <1>3 DEF SaveAndClose
  <2>2. UNCHANGED <<session, drafts, viewer>> BY <1>3 DEF SaveAndClose
  <2>3. /\ prompt \in Paths /\ drafts[prompt] \in Draft /\ Spared(prompt, drafts[prompt].content)
        /\ Edited(prompt) => /\ drafts[prompt].content = last[prompt].text
                             /\ drafts[prompt].expected = last[prompt].base
    BY <1>3 DEF EditInv, DraftsInv
  <2>4. r \in SaveState /\ SaveInv(r) BY <2>3 DEF SaveState, SaveInv, Draft
  <2> HIDE DEF r
  <2>5. SavesInv(save') /\ Explained(drafts, save') BY <2>1, <2>4, BegunSaveInv DEF EditInv
  <2> QED BY <1>1, <2>2, <2>5, CommitStep DEF Unmoved, EditInv
<1> QED BY <1>2, <1>3

\* What else the viewer remembers has no part in the invariant.
LEMMA SameEditorInv ==
  ASSUME NEW v, NEW w, ViewInv(v), w \in Viewer, w.path = v.path, w.data = v.data,
         w.content = v.content, w.draft = v.draft, w.failed = v.failed,
         w.reading = v.reading, w.answer = v.answer
  PROVE  ViewInv(w)
BY DEF ViewInv, EditorInv, RequestInv, Mounted

\* So does the save of the editor.
LEMMA SaveEditorStep == EditInv /\ SaveEditor => EditInv'
<1> SUFFICES ASSUME EditInv, SaveEditor PROVE EditInv'
  OBVIOUS
<1> DEFINE p == viewer.data
           r == [from |-> "editor", path |-> viewer.data, content |-> viewer.draft,
                 expected |-> Expected(viewer.data), stage |-> "sent"]
<1>1. PICK i \in Saves : /\ save[i] = NoSave /\ save' = [save EXCEPT ![i] = r]
                         /\ viewer' = [viewer EXCEPT !.saving = i]
  BY DEF SaveEditor
<1>2. viewer \in Viewer /\ p \in Paths /\ Spared(p, viewer.draft) /\ Foreign(p, viewer.content)
      /\ (Edited(p) => viewer.draft = last[p].text)
  BY DEF SaveEditor, EditInv, ViewInv, EditorInv, Mounted, Viewer
<1>3. Expected(p) \in Text /\ (Edited(p) => Expected(p) = last[p].base)
  BY <1>2 DEF Expected, EditInv, DraftsInv, Draft, Foreign, Spared
<1>4. r \in SaveState /\ SaveInv(r)
  <2>1. p \in Paths \cup {Nowhere} /\ viewer.draft \in Text BY <1>2 DEF Spared
  <2> QED BY <1>2, <1>3, <2>1 DEF SaveState, SaveInv
<1> HIDE DEF r
<1>5. SavesInv(save') /\ Explained(drafts, save') BY <1>1, <1>4, BegunSaveInv DEF EditInv
<1>6. ViewInv(viewer')
  <2>1. viewer' \in Viewer /\ viewer'.path = viewer.path /\ viewer'.data = viewer.data
        /\ viewer'.content = viewer.content /\ viewer'.draft = viewer.draft /\ viewer'.failed = viewer.failed
        /\ viewer'.reading = viewer.reading /\ viewer'.answer = viewer.answer
    BY <1>1, <1>2 DEF Viewer
  <2> QED BY <2>1, SameEditorInv DEF EditInv
<1> QED BY <1>5, <1>6, CommitStep DEF SaveEditor, Unmoved, EditInv

\* A save moves on.
LEMMA StagedInv ==
  ASSUME NEW sv, NEW i \in Saves, SavesInv(sv), sv[i].stage # "none",
         NEW stage \in {"compared", "saved", "conflict", "error", "closing"},
         Edited(sv[i].path) => stage \notin {"saved", "closing"}
  PROVE  /\ SavesInv([sv EXCEPT ![i].stage = stage])
         /\ \A d : /\ Explained(d, sv)
                   /\ sv[i].stage # "saved" \/ sv[i].path \notin DOMAIN d
                   => Explained(d, [sv EXCEPT ![i].stage = stage])
<1> DEFINE w == [sv EXCEPT ![i].stage = stage]
<1>1. sv \in [Saves -> SaveState] /\ (\A j \in Saves : SaveInv(sv[j])) BY DEF SavesInv
<1>2. /\ w \in [Saves -> SaveState] /\ (\A j \in Saves \ {i} : w[j] = sv[j])
      /\ w[i].path = sv[i].path /\ w[i].content = sv[i].content /\ w[i].expected = sv[i].expected
      /\ w[i].stage = stage
  BY <1>1 DEF SaveState
<1> HIDE DEF w
<1>3. SaveInv(w[i]) BY <1>1, <1>2 DEF SaveInv
<1>4. SavesInv(w) BY <1>1, <1>2, <1>3 DEF SavesInv
<1>5. ASSUME NEW d, Explained(d, sv), sv[i].stage # "saved" \/ sv[i].path \notin DOMAIN d
      PROVE  Explained(d, w)
  <2>1. SUFFICES ASSUME NEW p \in DOMAIN d, Unraced(p), last[p] = Nothing
                 PROVE  \E j \in Saves : w[j].path = p /\ w[j].stage = "saved"
    BY DEF Explained
  <2>2. PICK j \in Saves : sv[j].path = p /\ sv[j].stage = "saved" BY <1>5, <2>1 DEF Explained
  <2>3. j # i BY <1>5, <2>2
  <2> QED BY <1>2, <2>2, <2>3
<1> QED BY <1>4, <1>5 DEF w

\* The comparison sets a stage of the save.
LEMMA CompareStep == EditInv /\ Compare => EditInv'
<1> SUFFICES ASSUME EditInv, Compare PROVE EditInv'
  OBVIOUS
<1>1. PICK i \in Saves, stage \in {"error", "conflict", "compared"} :
        save[i].stage = "sent" /\ save' = [save EXCEPT ![i].stage = stage]
  BY DEF Compare, Stage
<1>2. SavesInv(save') /\ (\A d : Explained(d, save) => Explained(d, save'))
  BY <1>1, StagedInv DEF EditInv
<1> QED BY <1>2, CommitStep DEF Compare, Unmoved, EditInv

\* The editor whose save ended shows what it showed.
LEMMA ReleasedInv ==
  ASSUME NEW v, NEW i, ViewInv(v)
  PROVE  ViewInv(Released(v, i))
<1> DEFINE w == [v EXCEPT !.saving = Nowhere]
<1>1. v \in Viewer BY DEF ViewInv, EditorInv
<1>2. w \in Viewer /\ w.path = v.path /\ w.data = v.data /\ w.content = v.content /\ w.draft = v.draft
      /\ w.failed = v.failed /\ w.reading = v.reading /\ w.answer = v.answer
  BY <1>1 DEF Viewer
<1> HIDE DEF w
<1>3. ViewInv(w) BY <1>2, SameEditorInv
<1> QED BY <1>3 DEF Released, w

\* A save that failed leaves tab and draft.
LEMMA SaveFailsStep == EditInv /\ SaveFails => EditInv'
<1> SUFFICES ASSUME EditInv, SaveFails PROVE EditInv'
  OBVIOUS
<1>1. PICK i \in Saves : /\ save[i].stage \in {"conflict", "error"}
                         /\ save' = [save EXCEPT ![i] = NoSave] /\ viewer' = Released(viewer, i)
  BY DEF SaveFails
<1>2. SavesInv(save') /\ Explained(drafts, save') BY <1>1, EndedSaveInv DEF EditInv
<1>3. ViewInv(viewer') BY <1>1, ReleasedInv DEF EditInv
<1> QED BY <1>2, <1>3, CommitStep DEF SaveFails, Unmoved, EditInv

\* The draft that goes was saved, and nothing typed needs it.
LEMMA EditorSavedStep == EditInv /\ EditorSaved => EditInv'
<1> SUFFICES ASSUME EditInv, EditorSaved PROVE EditInv'
  OBVIOUS
<1>1. PICK i \in Saves :
        LET p == save[i].path
            v == [Released(viewer, i) EXCEPT !.fileDirty = FALSE]
        IN /\ save[i].stage = "saved"
           /\ save' = [save EXCEPT ![i] = NoSave]
           /\ Commit(SetDirty(session, p, FALSE), Dropped(drafts, {p}),
                     IF v.data # p THEN v
                     ELSE IF Mounted(v) THEN Refiled(v, save[i].content)
                     ELSE [v EXCEPT !.content = save[i].content])
  BY DEF EditorSaved
<1> DEFINE p == save[i].path
           c == save[i].content
           v == [Released(viewer, i) EXCEPT !.fileDirty = FALSE]
           d == Dropped(drafts, {p})
<1>2. /\ session' = SetDirty(session, p, FALSE) /\ drafts' = d
      /\ viewer' = IF v.data # p THEN v ELSE IF Mounted(v) THEN Refiled(v, c) ELSE [v EXCEPT !.content = c]
  BY <1>1 DEF Commit
<1>3. p \in Paths /\ ~Edited(p) /\ Foreign(p, c) BY <1>1 DEF EditInv, SavesInv, SaveInv, Foreign
<1>4. DraftsInv(d) /\ (\A sv : Explained(drafts, sv) => Explained(d, sv)) /\ p \notin DOMAIN d
  <2>1. p \notin DOMAIN d BY DEF Dropped
  <2> QED BY <1>3, <2>1, DroppedInv DEF EditInv
<1>5. SavesInv(save') /\ Explained(d, save')
  <2> HIDE DEF d
  <2>1. Explained(d, save) /\ SavesInv(save) BY <1>4 DEF EditInv
  <2> QED BY <1>1, <1>4, <2>1, EndedSaveInv
<1>6. SessionInv(session')
  <2>1. SessionShape(session) /\ (\A q \in Paths : Edited(q) => IsDirty(session, q))
    BY DEF EditInv, SessionInv
  <2>2. /\ SessionShape(SetDirty(session, p, FALSE))
        /\ \A q \in Paths \ {p} : IsDirty(SetDirty(session, p, FALSE), q) = IsDirty(session, q)
    BY <1>3, <2>1, SetDirtyFacts
  <2> QED BY <1>2, <1>3, <2>1, <2>2 DEF SessionInv
<1>7. ViewInv(v)
  <2> DEFINE r == Released(viewer, i)
  <2>1. ViewInv(r) BY ReleasedInv DEF EditInv
  <2>2. r \in Viewer BY <2>1 DEF ViewInv, EditorInv
  <2> HIDE DEF r
  <2>3. v = [r EXCEPT !.fileDirty = FALSE] BY DEF r
  <2> HIDE DEF v
  <2>4. v \in Viewer /\ v.path = r.path /\ v.data = r.data /\ v.content = r.content /\ v.draft = r.draft
        /\ v.failed = r.failed /\ v.reading = r.reading /\ v.answer = r.answer
    BY <2>2, <2>3 DEF Viewer
  <2> QED BY <2>1, <2>4, SameEditorInv
<1> HIDE DEF v
<1>8. ViewInv(viewer')
  <2>1. CASE v.data # p BY <1>2, <1>7, <2>1
  <2>2. CASE v.data = p /\ Mounted(v)
    <3>1. EditorInv(Refiled(v, c)) /\ Refiled(v, c).path = v.path /\ Refiled(v, c).reading = v.reading
          /\ Refiled(v, c).answer = v.answer
      BY <1>3, <1>7, <2>2, RefiledInv DEF ViewInv
    <3> QED BY <1>2, <1>7, <2>2, <3>1 DEF ViewInv, RequestInv
  <2>3. CASE v.data = p /\ ~Mounted(v)
    <3> DEFINE w == [v EXCEPT !.content = c]
    <3>1. v \in Viewer /\ c \in Text BY <1>3, <1>7 DEF ViewInv, EditorInv, Foreign, Spared
    <3>2. w \in Viewer /\ w.path = v.path /\ w.data = v.data /\ w.content = c /\ w.draft = v.draft
          /\ w.failed = v.failed /\ w.reading = v.reading /\ w.answer = v.answer
      BY <3>1 DEF Viewer
    <3> HIDE DEF w
    <3>3. ViewInv(w) BY <1>3, <1>7, <2>3, <3>2 DEF ViewInv, EditorInv, RequestInv, Mounted
    <3> QED BY <1>2, <2>3, <3>3 DEF w
  <2> QED BY <2>1, <2>2, <2>3
<1> QED BY <1>2, <1>4, <1>5, <1>6, <1>8, CommitStep DEF EditorSaved, Unmoved, EditInv

\* The same, before its tab closes.
LEMMA DraftSavedStep == EditInv /\ DraftSaved => EditInv'
<1> SUFFICES ASSUME EditInv, DraftSaved PROVE EditInv'
  OBVIOUS
<1>1. PICK i \in Saves :
        /\ save[i].stage = "saved" /\ save' = [save EXCEPT ![i].stage = "closing"]
        /\ drafts' = Dropped(drafts, {save[i].path})
        /\ session' = SetDirty(session, save[i].path, FALSE)
  BY DEF DraftSaved, Stage
<1> DEFINE p == save[i].path
           d == Dropped(drafts, {p})
<1>2. p \in Paths /\ ~Edited(p) BY <1>1 DEF EditInv, SavesInv, SaveInv
<1>3. p \notin DOMAIN d BY DEF Dropped
<1>4. DraftsInv(d) /\ Explained(d, save) BY <1>2, DroppedInv DEF EditInv
<1>5. SavesInv(save') /\ Explained(d, save')
  <2> HIDE DEF d
  <2>1. SavesInv(save) BY DEF EditInv
  <2> QED BY <1>1, <1>2, <1>3, <1>4, <2>1, StagedInv
<1>6. SessionInv(session')
  <2>1. SessionShape(session) /\ (\A q \in Paths : Edited(q) => IsDirty(session, q))
    BY DEF EditInv, SessionInv
  <2>2. /\ SessionShape(SetDirty(session, p, FALSE))
        /\ \A q \in Paths \ {p} : IsDirty(SetDirty(session, p, FALSE), q) = IsDirty(session, q)
    BY <1>2, <2>1, SetDirtyFacts
  <2> QED BY <1>1, <1>2, <2>1, <2>2 DEF SessionInv
<1> QED BY <1>1, <1>4, <1>5, <1>6, CommitStep DEF DraftSaved, Unmoved, EditInv
------------------------------
(* The steps: the files change. *)

\* What other programs write is no text that anyone typed.
LEMMA OutsideIsForeign ==
  ASSUME HistoryTypes, NEW n \in 1..MaxChanges, NEW q \in Paths
  PROVE  Foreign(q, MaxTexts + n)
<1>1. texts <= MaxTexts /\ MaxTexts \in Nat /\ texts \in Nat /\ MaxChanges \in Nat
  BY OpenFilesAssumption DEF HistoryTypes
<1>2. MaxTexts + n \in Text /\ MaxTexts + n > MaxTexts BY <1>1 DEF Text
<1>3. \A p \in Paths : last[p] # Nothing => last[p].text <= texts BY <1>1 DEF HistoryTypes
<1>4. \A p \in Paths : Edited(p) => last[p].text # MaxTexts + n
  BY <1>1, <1>3 DEF Edited, HistoryTypes
<1>5. Carrying => renaming.from \in Paths /\ Edited(renaming.from)
  BY DEF HistoryTypes, Carrying, NoRename
<1> QED BY <1>2, <1>4, <1>5 DEF Foreign, Spared

\* The listing says nothing of what was typed.
LEMMA ListFilesStep == EditInv /\ ListFiles => EditInv'
BY CommitStep DEF ListFiles, Unmoved, EditInv

\* What another program writes was not typed by the user.
LEMMA OutsideStep == EditInv /\ Outside => EditInv'
<1> SUFFICES ASSUME EditInv, Outside PROVE EditInv'
  OBVIOUS
<1>1. changes' \in 1..MaxChanges BY OpenFilesAssumption DEF Outside, Change, EditInv, HistoryTypes
<1>2. PICK p \in Paths, c \in {MaxTexts + changes', Absent} : disk' = [disk EXCEPT ![p] = c]
  BY DEF Outside
<1>3. c = Absent \/ Foreign(p, c) BY <1>1, <1>2, OutsideIsForeign DEF EditInv
<1>4. c \in Content BY <1>3 DEF Content, Foreign, Spared
<1>5. DiskInv(disk') BY <1>2, <1>3, <1>4 DEF EditInv, DiskInv
<1> QED BY <1>1, <1>5, CommitStep DEF Outside, Unmoved, EditInv

\* Tabs of files that are gone close unless they are edited.
LEMMA ApplyFilesSnapshotStep == EditInv /\ ApplyFilesSnapshot => EditInv'
<1> SUFFICES ASSUME EditInv, ApplyFilesSnapshot PROVE EditInv'
  OBVIOUS
<1> DEFINE listing == snapshot.listing
           open == OpenPaths(session)
           present == {p \in open : listing[p] # Absent}
           removed == {p \in open : listing[p] = Absent /\ p # pending}
           back == SetMissing(session, {}, present)
           s == RemoveUnder(back, removed)
           closed == ClosedAmong(back, removed)
           d == Dropped(drafts, closed)
           v == IF viewer.path \in closed THEN Select(viewer, s.active, d) ELSE viewer
           here == v.path # Nowhere /\ listing[v.path] # Absent
<1>1. /\ session' = s /\ drafts' = d
      /\ viewer' = IF here /\ snapshot.known[v.path] # listing[v.path] THEN Load(v, d) ELSE v
  BY DEF ApplyFilesSnapshot, Commit
<1> HIDE DEF present, removed, here, listing
<1>2. SessionShape(back) /\ (\A q : IsDirty(back, q) = IsDirty(session, q))
  BY SetMissingFacts DEF EditInv, SessionInv
<1> HIDE DEF back
<1>3. SessionShape(s) /\ EditsStay(back, s) /\ (\A q \in closed : ~IsDirty(back, q))
  BY <1>2, RemoveUnderFacts
<1> HIDE DEF s, closed
<1>4. DraftsInv(d) /\ Explained(d, save) BY <1>2, <1>3, CleanIsUnedited, DroppedInv DEF EditInv
<1> HIDE DEF d
<1>5. ViewInv(v) BY <1>3, <1>4, SelectInv DEF EditInv, ViewInv, SessionShape
<1> HIDE DEF v
<1>6. ViewInv(viewer') BY <1>1, <1>4, <1>5, LoadInv DEF ViewInv
<1>7. EditsStay(session, s) BY <1>2, <1>3 DEF EditsStay
<1>8. SessionInv(session') BY <1>1, <1>3, <1>7, EditsStayInv
<1> QED BY <1>1, <1>4, <1>6, <1>8, CommitStep DEF ApplyFilesSnapshot, Unmoved, EditInv

\* The tab of a deleted file closes unless it is edited.
LEMMA DeleteFileEntryStep == EditInv /\ DeleteFileEntry => EditInv'
<1> SUFFICES ASSUME EditInv, DeleteFileEntry PROVE EditInv'
  OBVIOUS
<1>1. PICK p \in Paths :
       LET s == RemoveUnder(session, {p})
           d == Dropped(drafts, ClosedAmong(session, {p}))
       IN /\ disk' = [disk EXCEPT ![p] = Absent]
          /\ Commit(s, d, IF viewer.path = p THEN Select(viewer, s.active, d) ELSE viewer)
  BY DEF DeleteFileEntry
<1> DEFINE s == RemoveUnder(session, {p})
           closed == ClosedAmong(session, {p})
           d == Dropped(drafts, closed)
<1>2. changes' \in 0..MaxChanges
  BY OpenFilesAssumption DEF DeleteFileEntry, Change, EditInv, HistoryTypes
<1>3. /\ session' = s /\ drafts' = d
      /\ viewer' = IF viewer.path = p THEN Select(viewer, s.active, d) ELSE viewer
  BY <1>1 DEF Commit
<1>4. SessionShape(s) /\ EditsStay(session, s) /\ (\A q \in closed : ~IsDirty(session, q))
  BY RemoveUnderFacts DEF EditInv, SessionInv
<1> HIDE DEF s, closed
<1>5. DraftsInv(d) /\ Explained(d, save) BY <1>4, CleanIsUnedited, DroppedInv DEF EditInv
<1> HIDE DEF d
<1>6. ViewInv(viewer') BY <1>3, <1>4, <1>5, SelectInv DEF EditInv, ViewInv, SessionShape
<1>7. SessionInv(session') BY <1>3, <1>4, EditsStayInv
<1>8. DiskInv(disk') BY <1>1 DEF EditInv, DiskInv, Content
<1> QED BY <1>2, <1>3, <1>5, <1>6, <1>7, <1>8, CommitStep DEF DeleteFileEntry, Unmoved, EditInv

\* Nothing is edited where no tab is marked, so a reload loses nothing.
\* Nothing is edited when the window loads again.
LEMMA ReloadStep == EditInv /\ Reload => EditInv'
<1> SUFFICES ASSUME EditInv, Reload PROVE EditInv'
  OBVIOUS
<1>1. \A p \in Paths : ~Edited(p) BY CleanIsUnedited DEF Reload
<1>2. session' = Restored(session) /\ drafts' = <<>> /\ viewer' = Select(NoView, session.active, <<>>)
  BY DEF Reload, Commit
<1>3. SessionShape(session') /\ session.active \in Paths \cup {Nowhere}
  BY <1>2, RestoredFacts DEF EditInv, SessionInv, SessionShape
<1>4. SessionInv(session') BY <1>1, <1>3 DEF SessionInv
<1>5. DraftsInv(<<>>) /\ Explained(<<>>, save) BY <1>1 DEF DraftsInv, Explained
<1>6. ViewInv(viewer')
  <2>1. EditorInv(NoView) BY NoViewInv DEF ViewInv
  <2> DEFINE d == <<>>
  <2>2. DraftsInv(d) BY <1>5
  <2> HIDE DEF d
  <2>3. ViewInv(Select(NoView, session.active, d)) BY <1>3, <2>1, <2>2, SelectInv
  <2> QED BY <1>2, <2>3 DEF d
<1> QED BY <1>2, <1>4, <1>5, <1>6, CommitStep DEF Reload, Unmoved, EditInv

------------------------------
(* The steps: what is typed, forgotten and renamed. *)

\* Nothing is edited that wasn't, and no text is remembered that wasn't.
Narrowed ==
  /\ texts' = texts
  /\ \A q \in Paths : Edited(q)' => Edited(q) /\ last'[q] = last[q]
  /\ Carrying' => Carrying /\ renaming'.from = renaming.from /\ renaming'.to = renaming.to

\* A rename that carries text goes from an edited file to another file.
LEMMA CarriedIsEdited ==
  ASSUME HistoryTypes, Carrying
  PROVE  /\ renaming.from \in Paths /\ renaming.to \in Paths /\ renaming.from # renaming.to
         /\ Edited(renaming.from)
BY TabAssumption DEF HistoryTypes, Carrying, NoRename

\* A text that a file may have stays one when nothing new is edited.
LEMMA NarrowedFacts ==
  ASSUME HistoryTypes, Narrowed
  PROVE  \A q \in Paths : \A c : (Spared(q, c) => Spared(q, c)') /\ (Foreign(q, c) => Foreign(q, c)')
<1>1. Carrying' => last'[renaming'.from] = last[renaming.from]
  BY CarriedIsEdited DEF Narrowed, Carrying
<1>2. \A q \in Paths : \A c : Spared(q, c) => Spared(q, c)' BY <1>1 DEF Narrowed, Spared
<1>3. \A q \in Paths : \A c : Foreign(q, c) => Foreign(q, c)' BY <1>2 DEF Narrowed, Foreign
<1> QED BY <1>2, <1>3

\* What an untouched part says stays true when nothing new is edited.
LEMMA NarrowedStep ==
  ASSUME EditInv, Narrowed
  PROVE  /\ disk' = disk => DiskInv(disk)'
         /\ session' = session => SessionInv(session)'
         /\ drafts' = drafts => DraftsInv(drafts)'
         /\ viewer' = viewer => ViewInv(viewer)'
         /\ save' = save => SavesInv(save)'
<1> USE DEF EditInv
<1>1. \A q \in Paths : \A c : (Spared(q, c) => Spared(q, c)') /\ (Foreign(q, c) => Foreign(q, c)')
  BY NarrowedFacts
<1>2. \A q \in Paths : Edited(q)' => Edited(q) /\ last'[q] = last[q] BY DEF Narrowed
<1>3. disk' = disk => DiskInv(disk)' BY <1>1 DEF DiskInv
<1>4. session' = session => SessionInv(session)'
  BY <1>2 DEF SessionInv, SessionShape, IsDirty, OpenPaths
<1>5. drafts' = drafts => DraftsInv(drafts)' BY <1>1, <1>2 DEF DraftsInv
<1>6. viewer' = viewer => ViewInv(viewer)'
  BY <1>1, <1>2 DEF ViewInv, EditorInv, RequestInv, Mounted, Viewer
<1>7. save' = save => SavesInv(save)' BY <1>1, <1>2 DEF SavesInv, SaveInv
<1> QED BY <1>3, <1>4, <1>5, <1>6, <1>7

\* A tab is closed and what was typed into it given up.
LEMMA DiscardStep == EditInv /\ Discard => EditInv'
<1> SUFFICES ASSUME EditInv, Discard PROVE EditInv'
  OBVIOUS
<1> DEFINE p == prompt
           s == CloseTab(session, p)
           d == Dropped(drafts, {p})
<1>1. /\ session' = s /\ drafts' = d
      /\ viewer' = IF viewer.path = p THEN Select(viewer, s.active, d) ELSE viewer
      /\ last' = [last EXCEPT ![p] = Nothing]
      /\ UNCHANGED <<disk, texts, changes, save, renaming, raced>>
  BY DEF Discard, Closed, Commit
<1>2. HistoryTypes' BY <1>1 DEF EditInv, HistoryTypes, Nothing, Content, Absent
<1>3. \A q \in Paths : last'[q] = (IF q = p THEN Nothing ELSE last[q]) /\ Unraced(q)' = Unraced(q)
  BY <1>1 DEF EditInv, HistoryTypes, Unraced, Raced
<1>4. \A q \in Paths : Edited(q)' => Edited(q) /\ last'[q] = last[q] /\ q # p BY <1>3 DEF Edited
<1>5. Narrowed
  <2>1. renaming' = renaming BY <1>1
  <2>2. Carrying' => renaming.from \in Paths /\ Edited(renaming.from)'
    BY <2>1, TabAssumption DEF Carrying, EditInv, HistoryTypes, NoRename
  <2>3. Carrying' => Carrying BY <1>4, <2>1, <2>2 DEF Carrying
  <2> QED BY <1>1, <1>4, <2>1, <2>3 DEF Narrowed
<1>6. \A q \in Paths : \A c : (Spared(q, c) => Spared(q, c)') /\ (Foreign(q, c) => Foreign(q, c)')
  BY <1>5, NarrowedFacts DEF EditInv
<1>7. SessionShape(s) /\ (\A q \in Paths \ {p} : IsDirty(session, q) => IsDirty(s, q))
  BY CloseOneFacts DEF EditInv, SessionInv
<1>8. SessionInv(session)'
  <2>1. SessionShape(session)' /\ (\A q \in Paths : IsDirty(session, q)' = IsDirty(s, q))
    BY <1>1, <1>7 DEF SessionShape, IsDirty, OpenPaths
  <2> HIDE DEF s
  <2> QED BY <1>4, <1>7, <2>1 DEF SessionInv, EditInv
<1>9. DraftsInv(drafts)' /\ (\A q \in DOMAIN d : d[q] \in Draft /\ Spared(q, d[q].content))
  BY <1>1, <1>4, <1>6 DEF EditInv, DraftsInv, Dropped
<1> HIDE DEF d, s
<1>10. ViewInv(viewer)'
  <2>1. CASE viewer.path # p BY <1>1, <1>5, <2>1, NarrowedStep
  <2>2. CASE viewer.path = p
    <3>1. Requested(viewer, d, viewer')
      BY <1>1, <1>7, <1>9, <2>2, SelectFacts DEF EditInv, ViewInv, EditorInv, SessionShape
    <3>2. RequestInv(viewer)' /\ viewer' \in Viewer BY <3>1 DEF Requested, RequestInv
    <3>3. ASSUME viewer'.data # Nowhere
          PROVE  /\ Foreign(viewer.data, viewer.content)' /\ Spared(viewer.data, viewer.draft)'
                 /\ Edited(viewer.data)' => viewer'.draft = last'[viewer'.data].text
      <4> DEFINE q == viewer.data
      <4>1. q \in Paths /\ viewer'.data = q /\ viewer'.content = viewer.content /\ Foreign(q, viewer.content)
            /\ Spared(q, viewer.draft)
        BY <3>1, <3>3 DEF EditInv, ViewInv, EditorInv, Requested, Viewer
      <4>2. CASE ~viewer.failed /\ viewer'.draft = viewer.draft
        BY <1>4, <1>6, <3>3, <4>1, <4>2 DEF EditInv, ViewInv, EditorInv, Mounted
      <4>3. CASE viewer'.draft = DraftFor(d, q, viewer.content)
        BY <1>1, <1>4, <1>6, <1>9, <4>1, <4>3 DEF DraftFor, DraftsInv, Foreign
      <4> QED BY <3>1, <3>3, <4>2, <4>3 DEF Requested
    <3> QED BY <3>2, <3>3 DEF ViewInv, EditorInv, Mounted
  <2> QED BY <2>1, <2>2
<1>11. Explained(drafts, save)' BY <1>1, <1>3 DEF EditInv, Explained, Dropped, DraftsInv, d
<1> QED BY <1>1, <1>2, <1>5, <1>8, <1>9, <1>10, <1>11, NarrowedStep DEF EditInv

\* The file is replaced with what was typed: from then on nothing of it is unsaved.
LEMMA ReplaceStep == EditInv /\ Replace => EditInv'
<1> SUFFICES ASSUME EditInv, Replace PROVE EditInv'
  OBVIOUS
<1>1. PICK i \in Saves :
        /\ save[i].stage = "compared" /\ save' = [save EXCEPT ![i].stage = "saved"]
        /\ disk' = [disk EXCEPT ![save[i].path] = save[i].content]
        /\ last' = IF last[save[i].path].text # save[i].content THEN last
                   ELSE [last EXCEPT ![save[i].path] = Nothing]
  BY DEF Replace, Stage
<1>0. PICK p \in Paths, c \in Text :
        /\ p = save[i].path /\ c = save[i].content
        /\ Spared(p, c) /\ (Edited(p) => c = last[p].text)
  BY <1>1 DEF EditInv, SavesInv, SaveInv, Spared
<1>2. UNCHANGED <<texts, changes, session, drafts, viewer, renaming, raced>> BY DEF Replace
<1>3. /\ p \in Paths /\ Spared(p, c) /\ (Edited(p) => c = last[p].text)
      /\ save \in [Saves -> SaveState] /\ (\A j \in Saves : SaveInv(save[j]))
  BY <1>0 DEF EditInv, SavesInv
<1>4. HistoryTypes' BY <1>0, <1>1, <1>2 DEF EditInv, HistoryTypes, Nothing, Content, Absent
<1>5. /\ \A q \in Paths : Unraced(q)' = Unraced(q)
      /\ \A q \in Paths \ {p} : last'[q] = last[q]
      /\ last'[p] \in {last[p], Nothing} /\ (last[p].text = c => last'[p] = Nothing)
  BY <1>0, <1>1, <1>2 DEF EditInv, HistoryTypes, Unraced, Raced
<1>6. \A q \in Paths : Edited(q)' => Edited(q) /\ last'[q] = last[q] /\ q # p
  <2>1. Edited(p)' => FALSE BY <1>3, <1>5 DEF Edited
  <2> QED BY <1>3, <1>5, <2>1 DEF Edited
<1>7. Narrowed
  <2>1. Carrying' => renaming.from \in Paths /\ Edited(renaming.from)'
    BY <1>2, TabAssumption DEF Carrying, EditInv, HistoryTypes, NoRename
  <2>2. Carrying' => Carrying BY <1>2, <1>6, <2>1 DEF Carrying
  <2> QED BY <1>2, <1>6, <2>2 DEF Narrowed
<1>8. \A q \in Paths : \A t : (Spared(q, t) => Spared(q, t)') /\ (Foreign(q, t) => Foreign(q, t)')
  BY <1>7, NarrowedFacts DEF EditInv
<1>9. Foreign(p, c)' BY <1>3, <1>6, <1>8 DEF Foreign
<1>10. DiskInv(disk)' BY <1>0, <1>1, <1>8, <1>9 DEF EditInv, DiskInv, Content
<1>11. /\ save' \in [Saves -> SaveState] /\ (\A j \in Saves \ {i} : save'[j] = save[j])
       /\ save'[i].path = p /\ save'[i].content = c /\ save'[i].expected = save[i].expected
       /\ save'[i].stage = "saved"
  BY <1>0, <1>1, <1>3 DEF SaveState
<1>12. SavesInv(save)'
  <2>1. ASSUME NEW j \in Saves \ {i} PROVE SaveInv(save[j])' BY <1>3, <1>6, <1>8, <1>11 DEF SaveInv
  <2>2. SaveInv(save[i])' BY <1>3, <1>6, <1>8, <1>11 DEF SaveInv
  <2> QED BY <1>11, <2>1, <2>2 DEF SavesInv
<1>13. Explained(drafts, save)'
  <2>1. SUFFICES ASSUME NEW q \in DOMAIN drafts, Unraced(q), last'[q] = Nothing
                 PROVE  \E j \in Saves : save'[j].path = q /\ save'[j].stage = "saved"
    BY <1>2, <1>5 DEF Explained, EditInv, DraftsInv
  <2>2. CASE q = p BY <1>11, <2>2
  <2>3. CASE q # p
    <3>1. q \in Paths /\ last[q] = Nothing BY <1>5, <2>1, <2>3 DEF EditInv, DraftsInv
    <3>2. PICK j \in Saves : save[j].path = q /\ save[j].stage = "saved"
      BY <2>1, <3>1 DEF EditInv, Explained
    <3> QED BY <1>0, <1>11, <2>3, <3>2
  <2> QED BY <2>2, <2>3
<1> QED BY <1>2, <1>4, <1>7, <1>10, <1>12, <1>13, NarrowedStep DEF EditInv

\* A file that a rename may move has no unsaved text.
LEMMA RenameFileEntryStep == EditInv /\ RenameFileEntry => EditInv'
<1> SUFFICES ASSUME EditInv, RenameFileEntry PROVE EditInv'
  OBVIOUS
<1>1. PICK p \in Paths, q \in Paths :
        p # q /\ ~IsDirty(session, p) /\ renaming' = [from |-> p, to |-> q, stage |-> "sent"]
  BY DEF RenameFileEntry, Movable
<1>2. UNCHANGED <<disk, texts, session, drafts, viewer, save, last, raced>> /\ changes' \in 0..MaxChanges
  BY OpenFilesAssumption DEF RenameFileEntry, Change, EditInv, HistoryTypes
<1>3. HistoryTypes' BY <1>1, <1>2 DEF EditInv, HistoryTypes
<1>4. \A r : Edited(r)' = Edited(r) /\ Unraced(r)' = Unraced(r) BY <1>2 DEF Edited, Unraced, Raced
<1>5. ~Carrying'
  <2>1. ~Edited(p) BY <1>1, CleanIsUnedited
  <2>2. Carrying' => Edited(p)' BY <1>1 DEF Carrying
  <2> QED BY <1>4, <2>1, <2>2
<1>6. Narrowed BY <1>2, <1>4, <1>5 DEF Narrowed
<1>7. Explained(drafts, save)' BY <1>2, <1>4 DEF EditInv, Explained
<1> QED BY <1>2, <1>3, <1>6, <1>7, NarrowedStep DEF EditInv

\* The moved file's text is none that was typed into it, nor one that a tab of the new
\* path holds.
LEMMA RenameOnDiskStep == EditInv /\ RenameOnDisk => EditInv'
<1> SUFFICES ASSUME EditInv, RenameOnDisk PROVE EditInv'
  OBVIOUS
<1> DEFINE moved == disk[renaming.from] # Absent /\ disk[renaming.to] = Absent
<1>0. PICK from \in Paths, to \in Paths :
        /\ renaming = [from |-> from, to |-> to, stage |-> "sent"] /\ from # to
  BY DEF RenameOnDisk, EditInv, HistoryTypes, NoRename
<1>1. UNCHANGED <<texts, changes, session, drafts, viewer, save, last>> BY DEF RenameOnDisk
<1>2. /\ renaming' = [from |-> from, to |-> to, stage |-> IF moved THEN "done" ELSE "refused"]
      /\ raced' = raced \cup (IF moved /\ to \in OpenPaths(session) THEN {<<to, "tab">>} ELSE {})
      /\ disk' = IF moved THEN [disk EXCEPT ![to] = disk[from], ![from] = Absent] ELSE disk
  BY <1>0 DEF RenameOnDisk
<1>3. HistoryTypes' BY <1>0, <1>1, <1>2 DEF EditInv, HistoryTypes
<1>4. \A r : (Unraced(r)' => Unraced(r)) /\ (Edited(r)' => Edited(r))
  BY <1>1, <1>2 DEF Edited, Unraced, Raced
<1>5. Narrowed
  <2>1. Carrying' => Carrying BY <1>0, <1>2, <1>4 DEF Carrying
  <2> QED BY <1>0, <1>1, <1>2, <1>4, <2>1 DEF Narrowed
<1>6. Explained(drafts, save)' BY <1>1, <1>4 DEF EditInv, Explained
<1>7. DiskInv(disk)'
  <2>1. CASE ~moved BY <1>2, <1>5, <2>1, NarrowedStep
  <2>2. CASE moved
    <3>1. Foreign(from, disk[from]) /\ disk[from] \in Content BY <1>0, <2>2 DEF EditInv, DiskInv
    <3>2. Edited(to)' => FALSE
      <4>1. to \in OpenPaths(session) => ~Unraced(to)'
        <5>1. <<to, "tab">> \in {to} \X {"save", "tab"} OBVIOUS
        <5>2. to \in OpenPaths(session) => <<to, "tab">> \in raced' BY <1>2, <2>2
        <5> QED BY <5>1, <5>2 DEF Unraced, Raced
      <4>2. to \notin OpenPaths(session) => ~Edited(to) BY CleanIsUnedited DEF IsDirty
      <4> QED BY <1>4, <4>1, <4>2 DEF Edited
    <3>3. Carrying' => disk[from] # last[from].text
      BY <1>0, <1>5, <3>1 DEF Narrowed, Foreign, Carrying
    <3>4. ASSUME NEW c, c = disk[from] PROVE Foreign(to, c)'
      BY <1>0, <1>1, <1>2, <3>1, <3>2, <3>3, <3>4 DEF Foreign, Spared
    <3>5. \A q \in Paths : \A c : Foreign(q, c) => Foreign(q, c)' BY <1>5, NarrowedFacts DEF EditInv
    <3>6. disk' = [disk EXCEPT ![to] = disk[from], ![from] = Absent] BY <1>2, <2>2
    <3>7. /\ disk' \in [Paths -> Content] /\ disk'[to] = disk[from] /\ disk'[from] = Absent
          /\ \A q \in Paths \ {from, to} : disk'[q] = disk[q]
      BY <1>0, <3>1, <3>6 DEF EditInv, DiskInv, Content
    <3> QED BY <3>4, <3>5, <3>7 DEF EditInv, DiskInv
  <2> QED BY <2>1, <2>2
<1> QED BY <1>1, <1>3, <1>5, <1>6, <1>7, NarrowedStep DEF EditInv

\* The user types a text that nothing has yet, or takes all edits back.
LEMMA TypeStep == EditInv /\ Type => EditInv'
<1> SUFFICES ASSUME EditInv, Type PROVE EditInv'
  OBVIOUS
<1>0. PICK p \in Paths : p = viewer.data /\ p # Nowhere
  BY TabAssumption DEF Type, EditInv, ViewInv, EditorInv, Mounted, Viewer
<1>1. PICK t : 
        /\ t \in (IF texts < MaxTexts THEN {texts + 1} ELSE {}) \cup {viewer.content}
        /\ t # viewer.draft
        /\ texts' = IF t = viewer.content THEN texts ELSE t
        /\ viewer' = [viewer EXCEPT !.draft = t, !.fileDirty = t # viewer.content]
        /\ drafts' = Stored(drafts, p, t, viewer.content)
        /\ session' = IF t = viewer.content THEN SetDirty(session, p, FALSE)
                      ELSE IF p \in DOMAIN drafts THEN session ELSE SetDirty(session, p, TRUE)
        /\ last' = [last EXCEPT ![p] = IF t = viewer.content THEN Nothing
                                      ELSE [text |-> t, base |-> IF @ = Nothing THEN viewer.content ELSE @.base]]
        /\ raced' = raced \cup (IF SavesOf(p) # {} THEN {<<p, "save">>} ELSE {})
                         \cup (IF p \notin OpenPaths(session) THEN {<<p, "tab">>} ELSE {})
  BY <1>0 DEF Type
<1> DEFINE content == viewer.content
<1>2. UNCHANGED <<disk, changes, save, renaming>> BY DEF Type
<1>3. viewer \in Viewer /\ Mounted(viewer) /\ Foreign(p, content) /\ Spared(p, viewer.draft)
  BY <1>0 DEF Type, EditInv, ViewInv, EditorInv
<1>4. content \in Text /\ texts \in Nat /\ MaxTexts \in Nat /\ MaxChanges \in Nat /\ texts <= MaxTexts
  BY <1>3, OpenFilesAssumption DEF Foreign, Spared, EditInv, HistoryTypes
<1>5. /\ SavesOf(p) # {} => ~Unraced(p)'
      /\ p \notin OpenPaths(session) => ~Unraced(p)'
      /\ \A q : Unraced(q)' => Unraced(q)
      /\ \A q \in Paths \ {p} : Unraced(q)' = Unraced(q) /\ last'[q] = last[q]
  <2>1. <<p, "save">> \in {p} \X {"save", "tab"} /\ <<p, "tab">> \in {p} \X {"save", "tab"} OBVIOUS
  <2>2. /\ SavesOf(p) # {} => <<p, "save">> \in raced'
        /\ p \notin OpenPaths(session) => <<p, "tab">> \in raced'
    BY <1>1
  <2>3. \A q : Unraced(q)' => Unraced(q) BY <1>1 DEF Unraced, Raced
  <2>4. \A q \in Paths \ {p} : Unraced(q)' = Unraced(q) BY <1>1 DEF Unraced, Raced
  <2>5. \A q \in Paths \ {p} : last'[q] = last[q] BY <1>1 DEF EditInv, HistoryTypes
  <2> QED BY <2>1, <2>2, <2>3, <2>4, <2>5 DEF Unraced, Raced
<1>6. CASE t = content
  <2>1. /\ texts' = texts /\ drafts' = Dropped(drafts, {p}) /\ session' = SetDirty(session, p, FALSE)
        /\ last' = [last EXCEPT ![p] = Nothing]
    BY <1>1, <1>6 DEF Stored
  <2>2. HistoryTypes' BY <1>2, <2>1 DEF EditInv, HistoryTypes, Nothing, Content, Absent
  <2>3. \A q \in Paths : Edited(q)' => Edited(q) /\ last'[q] = last[q] /\ q # p
    BY <1>5, <2>1 DEF Edited, EditInv, HistoryTypes
  <2>4. Narrowed
    <3>1. Carrying' => renaming.from \in Paths /\ Edited(renaming.from)'
      BY <1>2, TabAssumption DEF Carrying, EditInv, HistoryTypes, NoRename
    <3>2. Carrying' => Carrying BY <1>2, <2>3, <3>1 DEF Carrying
    <3> QED BY <1>2, <2>1, <2>3, <3>2 DEF Narrowed
  <2>5. \A q \in Paths : \A c : (Spared(q, c) => Spared(q, c)') /\ (Foreign(q, c) => Foreign(q, c)')
    BY <2>4, NarrowedFacts DEF EditInv
  <2>6. SessionInv(session)'
    <3>1. SessionShape(session) /\ (\A q \in Paths : Edited(q) => IsDirty(session, q))
      BY DEF EditInv, SessionInv
    <3> DEFINE s == SetDirty(session, p, FALSE)
    <3>2. SessionShape(s) /\ (\A q \in Paths \ {p} : IsDirty(s, q) = IsDirty(session, q))
      BY <3>1, SetDirtyFacts
    <3> HIDE DEF s
    <3>3. SessionShape(session)' /\ (\A q \in Paths : IsDirty(session, q)' = IsDirty(s, q))
      BY <2>1, <3>2 DEF SessionShape, IsDirty, OpenPaths, s
    <3> QED BY <2>3, <3>1, <3>2, <3>3 DEF SessionInv
  <2>7. DraftsInv(drafts)' BY <2>1, <2>3, <2>5 DEF EditInv, DraftsInv, Dropped
  <2>8. ViewInv(viewer)'
    <3> DEFINE dirty == t # content
    <3>0. dirty \in BOOLEAN /\ viewer' = [viewer EXCEPT !.draft = t, !.fileDirty = dirty] BY <1>1
    <3> HIDE DEF dirty
    <3>1. /\ viewer' \in Viewer /\ viewer'.path = viewer.path /\ viewer'.data = p /\ viewer'.content = content
          /\ viewer'.draft = content /\ viewer'.failed = viewer.failed /\ viewer'.reading = viewer.reading
          /\ viewer'.answer = viewer.answer
      BY <1>0, <1>3, <1>4, <1>6, <3>0 DEF Viewer
    <3>2. RequestInv(viewer)' BY <1>3, <2>5, <3>1 DEF EditInv, ViewInv, RequestInv, Viewer
    <3>3. EditorInv(viewer)' BY <1>3, <2>3, <2>5, <3>1 DEF EditorInv, Mounted, Foreign
    <3> QED BY <3>2, <3>3 DEF ViewInv
  <2>9. Explained(drafts, save)' BY <1>2, <1>5, <2>1 DEF EditInv, Explained, Dropped, DraftsInv
  <2> QED BY <1>2, <2>2, <2>4, <2>6, <2>7, <2>8, <2>9, NarrowedStep DEF EditInv
<1>7. CASE t # content
  <2> DEFINE base == IF last[p] = Nothing THEN content ELSE last[p].base
             expected == IF p \in DOMAIN drafts THEN drafts[p].expected ELSE content
  <2>1. /\ t = texts + 1 /\ t \in 1..MaxTexts /\ texts' = t
        /\ last' = [last EXCEPT ![p] = [text |-> t, base |-> base]]
    BY <1>1, <1>4, <1>7
  <2>2. /\ drafts' = [q \in DOMAIN drafts \cup {p} |->
                        IF q # p THEN drafts[q] ELSE [content |-> t, expected |-> expected]]
        /\ session' = IF p \in DOMAIN drafts THEN session ELSE SetDirty(session, p, TRUE)
    BY <1>1, <1>7 DEF Stored
  <2>3. base \in Text /\ expected \in Text /\ t \in Text
    BY <1>4, <2>1 DEF EditInv, HistoryTypes, DraftsInv, Draft, Text
  <2> HIDE DEF base, expected
  <2>4. /\ last' \in [Paths -> [text : Content, base : Content]] /\ last'[p] = [text |-> t, base |-> base]
        /\ last'[p] # Nothing
    BY <2>1, <2>3 DEF EditInv, HistoryTypes, Content, Nothing, Absent
  <2>5. HistoryTypes'
    <3>1. \A q \in Paths : last'[q] = Nothing \/ (last'[q].text \in 1..texts' /\ last'[q].base \in Text)
      BY <1>4, <1>5, <2>1, <2>3, <2>4 DEF EditInv, HistoryTypes
    <3> QED BY <1>2, <1>4, <2>1, <2>4, <3>1 DEF EditInv, HistoryTypes
  <2>6. /\ \A q \in Paths \ {p} : Edited(q)' = Edited(q)
        /\ Edited(p)' => p \in OpenPaths(session) /\ SavesOf(p) = {} /\ Unraced(p)
    BY <1>5 DEF Edited
  <2>7. \A q \in Paths : Edited(q) => last[q].text <= texts
    BY <1>4 DEF EditInv, HistoryTypes, Edited
  <2>8. Carrying' => /\ renaming.from \in Paths /\ renaming.to \in Paths /\ renaming.from # renaming.to
                     /\ Edited(renaming.from)'
    BY <1>2, TabAssumption DEF Carrying, EditInv, HistoryTypes, NoRename
  <2>9. \A c \in Text : c <= texts \/ c > MaxTexts => c # t /\ (c <= texts' \/ c > MaxTexts)
    BY <1>4, <2>1 DEF Text
  <2>10. \A q \in Paths : \A c : Spared(q, c) => Spared(q, c)' /\ c # t
    <3>1. ASSUME NEW q \in Paths, NEW c, Spared(q, c), Carrying', q = renaming.to
          PROVE  c # last'[renaming.from].text
      <4>1. CASE renaming.from = p BY <2>4, <2>9, <3>1, <4>1 DEF Spared
      <4>2. CASE renaming.from # p
        <5>1. Carrying /\ last'[renaming.from] = last[renaming.from]
          BY <1>2, <1>5, <2>6, <2>8, <3>1, <4>2 DEF Carrying
        <5> QED BY <3>1, <5>1 DEF Spared
      <4> QED BY <4>1, <4>2
    <3> QED BY <1>2, <2>9, <3>1 DEF Spared
  <2>11. \A q \in Paths : \A c : Foreign(q, c) => Foreign(q, c)'
    <3>1. ASSUME NEW q \in Paths, NEW c, Foreign(q, c), Edited(q)'
          PROVE  c # last'[q].text
      BY <1>5, <2>4, <2>6, <2>10, <3>1 DEF Foreign
    <3> QED BY <2>10, <3>1 DEF Foreign
  <2>12. Spared(p, t)'
    <3>1. Carrying' /\ p = renaming.to => t # last'[renaming.from].text
      <4>1. SUFFICES ASSUME Carrying', p = renaming.to PROVE t # last'[renaming.from].text OBVIOUS
      <4>2. PICK from \in Paths \ {p} : from = renaming.from /\ Edited(from)' BY <1>2, <2>8, <4>1
      <4>3. Edited(from) /\ last'[from] = last[from] BY <1>5, <2>6, <4>2
      <4>4. last[from].text \in 1..texts BY <4>3 DEF EditInv, HistoryTypes, Edited
      <4>5. t # last[from].text BY <1>4, <2>1, <4>4
      <4> QED BY <4>2, <4>3, <4>5
    <3> QED BY <1>2, <1>4, <2>1, <2>3, <3>1 DEF Spared
  <2>13. Edited(p)' => /\ p \in DOMAIN drafts => Edited(p)
                       /\ expected = base
    <3>1. SUFFICES ASSUME Edited(p)' PROVE (p \in DOMAIN drafts => Edited(p)) /\ expected = base
      OBVIOUS
    <3>2. p \in DOMAIN drafts => last[p] # Nothing BY <2>6, <3>1 DEF EditInv, Explained, SavesOf
    <3> QED BY <2>6, <3>1, <3>2 DEF EditInv, DraftsInv, Edited, base, expected
  <2>14. SessionInv(session)'
    <3>1. SessionShape(session) /\ (\A q \in Paths : Edited(q) => IsDirty(session, q))
      BY DEF EditInv, SessionInv
    <3> DEFINE s == SetDirty(session, p, TRUE)
    <3>2. /\ SessionShape(s) /\ (\A q \in Paths \ {p} : IsDirty(s, q) = IsDirty(session, q))
          /\ p \in OpenPaths(session) => IsDirty(s, p)
      BY <3>1, SetDirtyFacts
    <3> HIDE DEF s
    <3>3. session' = IF p \in DOMAIN drafts THEN session ELSE s BY <2>2 DEF s
    <3>4. SessionShape(session)' /\ (\A q \in Paths : IsDirty(session, q)' = IF p \in DOMAIN drafts THEN IsDirty(session, q) ELSE IsDirty(s, q))
      BY <3>1, <3>2, <3>3 DEF SessionShape, IsDirty, OpenPaths
    <3> QED BY <2>6, <2>13, <3>1, <3>2, <3>4 DEF SessionInv
  <2>15. DraftsInv(drafts)'
    <3>1. /\ drafts' = [q \in DOMAIN drafts' |-> drafts'[q]] /\ DOMAIN drafts' = DOMAIN drafts \cup {p}
          /\ drafts'[p] = [content |-> t, expected |-> expected]
          /\ \A q \in DOMAIN drafts \ {p} : drafts'[q] = drafts[q]
      BY <2>2
    <3>2. DraftsInv(drafts) BY DEF EditInv
    <3>3. \A q \in DOMAIN drafts' : drafts'[q] \in Draft BY <2>3, <3>1, <3>2 DEF DraftsInv, Draft
    <3>4. ASSUME NEW q \in DOMAIN drafts' PROVE Spared(q, drafts[q].content)'
      BY <2>10, <2>12, <3>1, <3>2 DEF DraftsInv, Spared
    <3>5. \A q \in Paths : Edited(q)' => /\ q \in DOMAIN drafts' /\ drafts'[q].content = last'[q].text
                                         /\ drafts'[q].expected = last'[q].base
      BY <1>5, <2>4, <2>6, <2>13, <3>1, <3>2 DEF DraftsInv
    <3> QED BY <3>1, <3>2, <3>3, <3>4, <3>5 DEF DraftsInv
  <2>16. ViewInv(viewer)'
    <3> DEFINE dirty == t # content
    <3>0. dirty \in BOOLEAN /\ viewer' = [viewer EXCEPT !.draft = t, !.fileDirty = dirty] BY <1>1
    <3> HIDE DEF dirty
    <3>1. /\ viewer' \in Viewer /\ viewer'.path = viewer.path /\ viewer'.data = p /\ viewer'.content = content
          /\ viewer'.draft = t /\ viewer'.failed = viewer.failed /\ viewer'.reading = viewer.reading
          /\ viewer'.answer = viewer.answer
      BY <1>0, <1>3, <2>3, <3>0 DEF Viewer
    <3>2. RequestInv(viewer)' BY <1>3, <2>11, <3>1 DEF EditInv, ViewInv, RequestInv, Viewer
    <3>3. EditorInv(viewer)'
      BY <1>3, <2>4, <2>11, <2>12, <3>1 DEF EditorInv, Mounted, Spared, Foreign
    <3> QED BY <3>2, <3>3 DEF ViewInv
  <2>17. SavesInv(save)'
    <3>1. ASSUME NEW i \in Saves PROVE SaveInv(save[i])'
      <4>1. SaveInv(save[i]) /\ save' = save BY <1>2 DEF EditInv, SavesInv
      <4>2. save[i].stage # "none" /\ save[i].path = p => ~Edited(p)' BY <2>6 DEF SavesOf
      <4> QED BY <1>5, <2>6, <2>10, <4>1, <4>2 DEF SaveInv
    <3> QED BY <1>2, <3>1 DEF EditInv, SavesInv
  <2>18. Explained(drafts, save)'
    <3>1. DOMAIN drafts' = DOMAIN drafts \cup {p} /\ DOMAIN drafts \subseteq Paths
      BY <2>2 DEF EditInv, DraftsInv
    <3> QED BY <1>2, <1>5, <2>4, <3>1 DEF EditInv, Explained
  <2>19. DiskInv(disk)' BY <1>2, <2>11 DEF EditInv, DiskInv
  <2> QED BY <2>5, <2>14, <2>15, <2>16, <2>17, <2>18, <2>19 DEF EditInv
<1> QED BY <1>6, <1>7

\* What was typed moves with its file, unless the new path has a tab, an editor or a save of
\* its own, or the old one is being saved.
LEMMA RenameAnsweredStep == EditInv /\ RenameAnswered => EditInv'
<1> SUFFICES ASSUME EditInv, RenameAnswered PROVE EditInv'
  OBVIOUS
<1>0. renaming' = NoRename /\ UNCHANGED <<disk, texts, changes, save>> BY DEF RenameAnswered
<1>1. ~Carrying' BY <1>0 DEF Carrying, NoRename
<1>2. CASE renaming.stage = "refused"
  <2>1. UNCHANGED <<session, drafts, viewer, last, raced>> BY <1>2 DEF RenameAnswered
  <2>2. \A q : Edited(q)' = Edited(q) /\ Unraced(q)' = Unraced(q) BY <2>1 DEF Edited, Unraced, Raced
  <2>3. Narrowed /\ HistoryTypes' BY <1>0, <1>1, <2>1, <2>2 DEF Narrowed, EditInv, HistoryTypes
  <2>4. Explained(drafts, save)' BY <1>0, <2>1, <2>2 DEF EditInv, Explained
  <2> QED BY <1>0, <2>1, <2>3, <2>4, NarrowedStep DEF EditInv
<1>3. CASE renaming.stage = "done"
  <2>0. PICK from \in Paths, to \in Paths :
          /\ from # to /\ renaming = [from |-> from, to |-> to, stage |-> "done"]
    BY <1>3 DEF EditInv, HistoryTypes, NoRename
  <2> DEFINE d == IF from \in OpenPaths(session) THEN RenamedDrafts(drafts, from, to) ELSE drafts
             s == Renamed(session, from, to)
  <2>1. /\ session' = s /\ drafts' = d
        /\ viewer' = IF viewer.path = from THEN Select(viewer, to, d) ELSE viewer
        /\ last' = IF last[from] = Nothing THEN last ELSE [last EXCEPT ![to] = last[from], ![from] = Nothing]
        /\ raced' = raced \cup {<<to, r[2]>> : r \in {x \in raced : x[1] = from}}
                         \cup (IF to \in OpenPaths(session) \cup {viewer.data} THEN {<<to, "tab">>} ELSE {})
                         \cup (IF SavesOf(from) \cup SavesOf(to) # {} THEN {<<to, "save">>} ELSE {})
    BY <1>3, <2>0 DEF RenameAnswered, Commit
  <2>2. HistoryTypes' BY <1>0, <2>1 DEF EditInv, HistoryTypes, Nothing, Content, Absent
  <2>3. /\ \A q : Unraced(q)' => Unraced(q)
        /\ Unraced(to)' => /\ Unraced(from) /\ to \notin OpenPaths(session) /\ viewer.data # to
                           /\ SavesOf(from) = {} /\ SavesOf(to) = {}
    <3>1. \A q : Unraced(q)' => Unraced(q) BY <2>1 DEF Unraced, Raced
    <3>2. <<to, "save">> \in {to} \X {"save", "tab"} /\ <<to, "tab">> \in {to} \X {"save", "tab"}
      OBVIOUS
    <3>3. Unraced(to)' => <<to, "save">> \notin raced' /\ <<to, "tab">> \notin raced'
      BY <3>2 DEF Unraced, Raced
    <3>4. /\ to \in OpenPaths(session) \/ viewer.data = to => <<to, "tab">> \in raced'
          /\ SavesOf(from) # {} \/ SavesOf(to) # {} => <<to, "save">> \in raced'
      BY <2>1
    <3>5. ASSUME ~Unraced(from) PROVE <<to, "save">> \in raced' \/ <<to, "tab">> \in raced'
      <4>1. PICK r \in raced : r \in {from} \X {"save", "tab"} BY <3>5 DEF Unraced, Raced
      <4>2. r[1] = from /\ r[2] \in {"save", "tab"} BY <4>1
      <4>3. <<to, r[2]>> \in raced' BY <2>1, <4>1, <4>2
      <4> QED BY <4>2, <4>3
    <3> QED BY <3>1, <3>3, <3>4, <3>5
  <2>4. \A q \in Paths \ {from, to} : Edited(q)' => Edited(q) /\ last'[q] = last[q]
    BY <2>0, <2>1, <2>3 DEF Edited, EditInv, HistoryTypes
  <2>5. ~Edited(from)' BY <2>0, <2>1 DEF Edited, EditInv, HistoryTypes
  <2>6. Edited(to)' => /\ Edited(from) /\ last'[to] = last[from] /\ Carrying
                       /\ to \notin OpenPaths(session) /\ viewer.data # to /\ SavesOf(to) = {}
    <3>1. SUFFICES ASSUME Edited(to)' PROVE /\ Edited(from) /\ last'[to] = last[from]
      BY <2>0, <2>3 DEF Edited, Carrying
    <3>2. Unraced(to) /\ Unraced(from) /\ to \notin OpenPaths(session) /\ last'[to] # Nothing
      BY <2>3, <3>1 DEF Edited
    <3>3. ~Edited(to) BY <3>2, CleanIsUnedited DEF IsDirty
    <3>4. last[from] # Nothing BY <2>1, <3>2, <3>3 DEF Edited
    <3> QED BY <2>0, <2>1, <3>2, <3>4 DEF Edited, EditInv, HistoryTypes
  <2>7. \A q \in Paths : \A c : Spared(q, c) => Spared(q, c)' BY <1>0, <1>1 DEF Spared
  <2>8. \A q \in Paths : \A c : Foreign(q, c) => Foreign(q, c)'
    <3>1. ASSUME NEW q \in Paths, NEW c, Foreign(q, c), Edited(q)' PROVE c # last'[q].text
      <4>1. CASE q = to BY <2>0, <2>6, <3>1, <4>1 DEF Foreign, Spared
      <4>2. CASE q # to BY <2>4, <2>5, <3>1, <4>2 DEF Foreign
      <4> QED BY <4>1, <4>2
    <3> QED BY <2>7, <3>1 DEF Foreign
  <2>9. DiskInv(disk)' BY <1>0, <2>8 DEF EditInv, DiskInv
  <2>10. SavesInv(save)'
    <3>1. ASSUME NEW i \in Saves PROVE SaveInv(save[i])'
      <4>1. SaveInv(save[i]) /\ save' = save BY <1>0 DEF EditInv, SavesInv
      <4>2. save[i].stage # "none" /\ save[i].path = to => ~Edited(to)' BY <2>6 DEF SavesOf
      <4> QED BY <2>4, <2>5, <2>7, <4>1, <4>2 DEF SaveInv
    <3> QED BY <1>0, <3>1 DEF EditInv, SavesInv
  <2>11. DraftsInv(drafts) BY DEF EditInv
  <2>12. /\ d = [q \in DOMAIN d |-> d[q]] /\ DOMAIN d \subseteq Paths
         /\ \A q \in DOMAIN d \ {to} : q \in DOMAIN drafts /\ d[q] = drafts[q]
         /\ \A q \in DOMAIN drafts \ {from, to} : q \in DOMAIN d
         /\ to \in DOMAIN d => \/ to \in DOMAIN drafts /\ d[to] = drafts[to]
                               \/ from \in DOMAIN drafts /\ d[to] = drafts[from]
         /\ from \in DOMAIN drafts /\ from \in OpenPaths(session) => to \in DOMAIN d /\ d[to] = drafts[from]
         /\ from \in DOMAIN d => from \notin OpenPaths(session) /\ from \in DOMAIN drafts
    BY <2>0, <2>11 DEF RenamedDrafts, DraftsInv
  <2> HIDE DEF d, s
  <2>13. \A q \in DOMAIN d : d[q] \in Draft BY <2>11, <2>12 DEF DraftsInv
  <2>14. ASSUME NEW q \in DOMAIN d PROVE d[q].content \in Text /\ (d[q].content <= texts \/ d[q].content > MaxTexts)
    BY <2>11, <2>12 DEF DraftsInv, Spared
  <2>15. \A q \in Paths : Edited(q)' => /\ q \in DOMAIN d /\ d[q].content = last'[q].text
                                       /\ d[q].expected = last'[q].base
    <3>1. Edited(from) => from \in OpenPaths(session) BY DEF EditInv, SessionInv, IsDirty
    <3>2. Edited(to)' => /\ to \in DOMAIN d /\ d[to].content = last'[to].text
                         /\ d[to].expected = last'[to].base
      BY <2>6, <2>11, <2>12, <3>1 DEF DraftsInv
    <3> QED BY <2>4, <2>5, <2>11, <2>12, <3>2 DEF DraftsInv
  <2>16. DraftsInv(drafts)'
    <3>1. ASSUME NEW q \in DOMAIN drafts' PROVE Spared(q, drafts[q].content)'
      BY <1>0, <1>1, <2>1, <2>14, <3>1 DEF Spared
    <3> QED BY <2>1, <2>12, <2>13, <2>15, <3>1 DEF DraftsInv
  <2>17. SessionInv(session)'
    <3>1. SessionShape(session) /\ (\A q \in Paths : Edited(q) => IsDirty(session, q))
      BY DEF EditInv, SessionInv
    <3>2. /\ SessionShape(s)
          /\ \A q \in Paths \ {from, to} : IsDirty(s, q) = IsDirty(session, q)
          /\ from \in OpenPaths(session) /\ to \notin OpenPaths(session) => IsDirty(s, to) = IsDirty(session, from)
      BY <2>0, <3>1, RenamedFacts DEF s
    <3>3. SessionShape(session)' /\ (\A q \in Paths : IsDirty(session, q)' = IsDirty(s, q))
      BY <2>1, <3>2 DEF SessionShape, IsDirty, OpenPaths
    <3>4. Edited(to)' => IsDirty(s, to) BY <2>6, <3>1, <3>2 DEF IsDirty
    <3> QED BY <2>4, <2>5, <3>1, <3>2, <3>3, <3>4 DEF SessionInv
  <2>18. Explained(drafts, save)'
    <3>1. SUFFICES ASSUME NEW q \in DOMAIN d, Unraced(q)', last'[q] = Nothing
                   PROVE  \E i \in Saves : save[i].path = q /\ save[i].stage = "saved"
      BY <1>0, <2>1 DEF Explained
    <3>2. Explained(drafts, save) /\ Unraced(q) /\ q \in Paths BY <2>3, <2>12, <3>1 DEF EditInv
    <3>3. CASE q = from
      <4>1. from \in DOMAIN drafts /\ ~Edited(from)
        BY <2>12, <3>1, <3>3, CleanIsUnedited DEF IsDirty
      <4>2. last[from] = Nothing BY <3>2, <3>3, <4>1 DEF Edited
      <4> QED BY <3>2, <3>3, <4>1, <4>2 DEF Explained
    <3>4. CASE q = to
      <4>1. /\ Unraced(from) /\ Unraced(to) /\ to \notin OpenPaths(session)
            /\ SavesOf(from) = {} /\ SavesOf(to) = {}
        BY <2>3, <3>1, <3>2, <3>4
      <4>2. last[to] = Nothing BY <4>1, CleanIsUnedited DEF Edited, IsDirty
      <4>3. last[from] = Nothing BY <2>0, <2>1, <3>1, <3>4 DEF EditInv, HistoryTypes
      <4>4. PICK p \in {from, to} : p \in DOMAIN drafts BY <2>12, <3>1, <3>4
      <4>5. PICK i \in Saves : save[i].path = p /\ save[i].stage = "saved"
        BY <3>2, <4>1, <4>2, <4>3, <4>4 DEF Explained
      <4> QED BY <4>1, <4>4, <4>5 DEF SavesOf
    <3>5. CASE q \notin {from, to}
      <4>1. q \in DOMAIN drafts /\ last[q] = Nothing
        BY <2>1, <2>12, <3>1, <3>2, <3>5 DEF EditInv, HistoryTypes
      <4> QED BY <3>2, <4>1 DEF Explained
    <3> QED BY <3>3, <3>4, <3>5
  <2>19. ViewInv(viewer)'
    <3>1. viewer \in Viewer /\ ViewInv(viewer) BY DEF EditInv, ViewInv, EditorInv
    <3>2. \A q \in Paths : q = viewer.data /\ Edited(q)' => Edited(q) /\ last'[q] = last[q]
      BY <2>4, <2>5, <2>6
    <3>3. CASE viewer.path # from
      BY <2>1, <2>7, <2>8, <3>1, <3>2, <3>3 DEF ViewInv, EditorInv, RequestInv, Mounted, Viewer
    <3>4. CASE viewer.path = from
      <4>1. Requested(viewer, d, viewer') BY <2>0, <2>1, <2>13, <3>1, <3>4, SelectFacts
      <4>2. RequestInv(viewer)' /\ viewer' \in Viewer BY <4>1 DEF Requested, RequestInv
      <4>3. ASSUME viewer'.data # Nowhere
            PROVE  /\ Foreign(viewer.data, viewer.content)' /\ Spared(viewer.data, viewer.draft)'
                   /\ Edited(viewer.data)' => viewer'.draft = last'[viewer'.data].text
        <5>1. PICK q \in Paths :
                /\ q = viewer.data /\ viewer'.data = q /\ viewer'.content = viewer.content
                /\ Foreign(q, viewer.content) /\ Spared(q, viewer.draft)
          BY <3>1, <4>1, <4>3 DEF ViewInv, EditorInv, Requested, Viewer
        <5>2. CASE ~viewer.failed /\ viewer'.draft = viewer.draft
          BY <2>7, <2>8, <3>1, <3>2, <5>1, <5>2, TabAssumption DEF ViewInv, EditorInv, Mounted
        <5>3. CASE viewer'.draft = DraftFor(d, q, viewer.content)
          <6>1. CASE q \in DOMAIN d
            BY <1>0, <1>1, <2>8, <2>14, <2>15, <5>1, <5>3, <6>1 DEF DraftFor, Spared
          <6>2. CASE q \notin DOMAIN d BY <2>7, <2>8, <2>15, <5>1, <5>3, <6>2 DEF DraftFor, Foreign
          <6> QED BY <6>1, <6>2
        <5> QED BY <4>1, <4>3, <5>1, <5>2, <5>3 DEF Requested
      <4> QED BY <4>2, <4>3 DEF ViewInv, EditorInv, Mounted
    <3> QED BY <3>3, <3>4
  <2> QED BY <2>2, <2>9, <2>10, <2>16, <2>17, <2>18, <2>19 DEF EditInv
<1> QED BY <1>2, <1>3 DEF RenameAnswered

------------------------------
(* The theorem. *)

\* Nothing is typed at first.
LEMMA InitInv == Init => EditInv
<1> SUFFICES ASSUME Init PROVE EditInv
  OBVIOUS
<1>1. \A p \in Paths : last[p] = Nothing BY DEF Init
<1>2. (\A p \in Paths : ~Edited(p)) /\ ~Carrying BY <1>1 DEF Edited, Carrying, Init, NoRename
<1>3. 0 \in 0..MaxTexts /\ 0 \in 0..MaxChanges /\ 0 \in Text BY OpenFilesAssumption DEF Text
<1>4. HistoryTypes
  <2>1. Nothing \in [text : Content, base : Content] BY DEF Nothing, Content
  <2> QED BY <1>1, <1>3, <2>1 DEF HistoryTypes, Init
<1>5. DiskInv(disk) BY <1>2, <1>3 DEF DiskInv, Foreign, Spared, Init, Content
<1>6. SessionInv(session)
  <2>1. session = [tabs |-> <<>>, tab |-> <<>>, active |-> Nowhere, preview |-> Nowhere, recent |-> <<>>]
    BY DEF Init, EmptySession
  <2>2. <<>> \in [{} -> Tab] /\ DOMAIN <<>> = {} OBVIOUS
  <2> QED BY <1>2, <2>1, <2>2 DEF SessionInv, SessionShape, OpenPaths
<1>7. DraftsInv(drafts) /\ Explained(drafts, save) BY <1>2 DEF DraftsInv, Explained, Init
<1>8. ViewInv(viewer) BY NoViewInv DEF Init
<1>9. SavesInv(save) BY NoSaveIsState DEF SavesInv, Init
<1> QED BY <1>4, <1>5, <1>6, <1>7, <1>8, <1>9 DEF EditInv

\* The invariant says what is held and what a save compares with.
LEMMA EditInvIsSafe == EditInv => EditsAreSafe
<1> SUFFICES ASSUME EditInv PROVE EditsAreSafe
  OBVIOUS
<1>1. UnsavedIsHeld
  <2>1. ASSUME NEW p \in Paths, Edited(p) PROVE Held(p)
    BY <2>1 DEF EditInv, DraftsInv, SessionInv, ViewInv, EditorInv, Held
  <2> QED BY <2>1 DEF UnsavedIsHeld, Edited, Unraced
<1>2. ComparedWithBase
  <2>1. SUFFICES ASSUME NEW i \in Saves, save[i].stage = "sent", Unraced(save[i].path),
                        last[save[i].path].text = save[i].content
                 PROVE  save[i].expected = last[save[i].path].base
    BY DEF ComparedWithBase, Unraced
  <2>2. save[i].path \in Paths /\ save[i].content \in Text /\ SaveInv(save[i])
    BY <2>1 DEF EditInv, SavesInv, SaveInv, SaveState
  <2>3. last[save[i].path] # Nothing BY <2>1, <2>2 DEF Nothing, Absent, Text
  <2> QED BY <2>1, <2>2, <2>3 DEF SaveInv, Edited
<1> QED BY <1>1, <1>2 DEF EditsAreSafe

\* Whatever the user opens, types, closes, saves and renames, and whatever other programs do
\* to the files meanwhile, text that was typed and neither saved nor given up is held in a
\* draft under an edited tab, and a save compares with the text that its author began from,
\* unless typing met a save or a close, or a rename met another file's tab, editor or save.
THEOREM EditsStaySafe == Spec => []EditsAreSafe
<1>1. EditInv /\ UNCHANGED vars => EditInv'
  <2> SUFFICES ASSUME EditInv, UNCHANGED vars PROVE EditInv'
    OBVIOUS
  <2> QED BY CommitStep DEF vars, Unmoved, EditInv
<1>2. EditInv /\ [Next]_vars => EditInv'
  BY <1>1, ReadFileStep, FileArrivesStep, TypeStep, OpenFileStep, ActivateFileTabStep, ReorderFileTabStep,
     SwitchViewStep, CloseFileTabStep, CancelStep, DiscardStep, SaveAndCloseStep, SaveEditorStep, CompareStep,
     ReplaceStep, SaveFailsStep, EditorSavedStep, DraftSavedStep, CloseSavedStep, OutsideStep, ListFilesStep,
     ApplyFilesSnapshotStep, RenameFileEntryStep, RenameOnDiskStep, RenameAnsweredStep, DeleteFileEntryStep,
     ReloadStep DEF Next
<1> QED BY <1>2, InitInv, EditInvIsSafe, PTL DEF Spec
==============================
