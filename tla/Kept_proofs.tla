------- MODULE Kept_proofs -------
(****************************************)
(* What is kept follows what the program knows to have changed, for any *)
(* number of readers, questions, changes, checks and restarts: reads from *)
(* GitHub (AnswersKeepUp) and statuses of the AI programs (StatusesKeepUp), *)
(* of which KeptIsCurrent of the composed run consists; then the types of *)
(* all services side by side. *)
(****************************************)
EXTENDS MCServices, Services_proofs, Transport_proofs, SequenceTheorems

------------------------------
(* What is read from GitHub.  A value is of the moment at which a flight *)
(* looked.  A flight of the current generation began after what is known to *)
(* have changed, and the account only moves forward: so a value whose reader *)
(* began with the account in use is of that account. *)

\* GitHub and the account move forward.
Forward ==
  /\ moments \in Seq([github : Nat, account : Nat]) /\ Now \in 1..MaxMoments
  /\ \A m \in 1..Now : moments[m].account < m
  /\ \A m, n \in 1..Now : m <= n => GitHub(m) <= GitHub(n) /\ moments[m].account <= moments[n].account
  /\ changed \in Nat /\ changed <= GitHub(Now)

\* A flight, as it is recorded: its account is no later than the one it saw.
SoundFlight(x) ==
  /\ x \in Flight
  /\ x.stage = "free" => x.gen # "current"
  /\ x.stage # "free" => x.scope = Repository /\ x.key[2] <= AuthRevision
  /\ x.stage = "settled" => x.seen # None
  /\ x.stage # "free" /\ x.seen # None =>
       /\ x.seen \in 1..Now /\ x.key[2] <= moments[x.seen].account
       /\ x.gen = "current" => GitHub(x.seen) >= changed

\* The moment is none too early for the call of r.
LateEnough(r, m) ==
  /\ m \in 1..Now /\ moments[m].account >= call[r].revision
  /\ GitHub(m) >= call[r].asked.changed
  /\ call[r].epoch = settledEpoch => GitHub(m) >= changed

\* x is the flight that r waits for.
Awaits(r, x) ==
  /\ x.stage # "free" /\ x.key[2] = call[r].revision
  /\ x.seen # None => LateEnough(r, x.seen)

CallTypes == 
  [stage : {"none"}]
  \cup [stage : {"routing"}, asked : [resource : Resources, changed : Nat, reported : Nat]]
  \cup [stage : {"reading"}, asked : [resource : Resources, changed : Nat, reported : Nat],
        attempt : Nat, revision : Nat, epoch : Nat, key : Nat]
  \cup [stage : {"forgetting"}, asked : [resource : Resources, changed : Nat, reported : Nat],
        value : Nat, account : Nat, entries : Nat \cup {None}]

SoundCall(r) ==
  /\ call[r].stage # "none" => call[r].asked.changed <= changed
  /\ call[r].stage = "reading" =>
       /\ call[r].epoch <= settledEpoch /\ call[r].revision <= AuthRevision
       /\ reader[r].pc # "idle"
       /\ reader[r].pc = "waiting" =>
            /\ reader[r].scope = Repository /\ reader[r].key[2] = call[r].revision
            /\ reader[r].flight \in Flights /\ Awaits(r, flight[reader[r].flight])
       /\ reader[r].pc = "returned" => LateEnough(r, reader[r].result)
  /\ call[r].stage # "reading" => reader[r].pc = "idle"
  /\ call[r].stage = "forgetting" =>
       /\ call[r].value \in 1..Now /\ moments[call[r].value].account = call[r].account
       /\ GitHub(call[r].value) >= call[r].asked.changed

SoundlyKept(k) ==
  settled[k] # None =>
    /\ settled[k].value \in 1..Now /\ moments[settled[k].value].account = settled[k].account
    /\ GitHub(settled[k].value) >= changed

SoundFlights(fl) == fl = [f \in Flights |-> fl[f]] /\ \A f \in Flights : SoundFlight(fl[f])

KeptSoundly == settled = [k \in Kept |-> settled[k]] /\ \A k \in Kept : SoundlyKept(k)

GitHubInv ==
  /\ Forward
  /\ SoundFlights(flight)
  /\ reader \in [Readers -> Reader] /\ call \in [Readers -> CallTypes] /\ \A r \in Readers : SoundCall(r)
  /\ KeptSoundly
  /\ settledEpoch \in Nat /\ reported \in Nat
  /\ AnswersKeepUp

\* The keys of the reads end with the account.
LEMMA ReadKeys ==
  /\ \A k \in Keys : k[2] \in 0..MaxMoments
  /\ \A resource \in Resources, a \in 0..MaxMoments : <<resource, a>> \in Keys /\ <<resource, a>>[2] = a
  /\ AnyKey \in Keys /\ AnyScope = Repository /\ MaxMoments \in Nat /\ Scopes = {Repository}
<1>1. Keys # {} /\ Scopes = {Repository} /\ Keys = {"details", "conversation", "live-state"} \X (0..MaxMoments) /\ MaxMoments \in Nat
  BY ReadAssumption, GitHubReadsAssumption
<1>2. AnyKey \in Keys /\ AnyScope = Repository BY <1>1 DEF AnyKey, AnyScope
<1> QED BY <1>1, <1>2 DEF Resources, Kept

\* The account in use.
LEMMA AccountNow ==
  ASSUME Forward
  PROVE  /\ Now \in 1..MaxMoments /\ MaxMoments \in Nat /\ AuthRevision \in 0..MaxMoments /\ GitHub(Now) \in Nat
         /\ \A m \in 1..Now : /\ GitHub(m) \in Nat /\ moments[m].account \in Nat
                              /\ GitHub(m) <= GitHub(Now) /\ moments[m].account <= AuthRevision
<1>1. MaxMoments \in Nat /\ Now \in 1..MaxMoments BY GitHubReadsAssumption DEF Forward
<1>2. \A m \in 1..Now : moments[m] \in [github : Nat, account : Nat]
  <2>1. moments \in Seq([github : Nat, account : Nat]) BY DEF Forward
  <2> QED BY <2>1, ElementOfSeq, Zenon DEF Now
<1>3. \A m \in 1..Now : moments[m].github \in Nat /\ moments[m].account \in Nat /\ moments[m].account < m
  BY <1>2 DEF Forward
<1>4. Now \in 1..Now BY <1>1
<1>5. \A m \in 1..Now : m <= Now BY <1>1
<1>6. AuthRevision \in 0..MaxMoments BY <1>1, <1>3, <1>4 DEF AuthRevision
<1>7. \A m \in 1..Now : GitHub(m) <= GitHub(Now) /\ moments[m].account <= AuthRevision
  BY <1>4, <1>5 DEF Forward, AuthRevision
<1> QED BY <1>1, <1>3, <1>4, <1>6, <1>7 DEF GitHub

\* A flight that is free again.
LEMMA FreeIsSound == SoundFlight(FreeFlight)
<1>1. FreeFlight \in Flight BY ReadKeys DEF FreeFlight, Flight
<1> QED BY <1>1 DEF SoundFlight, FreeFlight

\* The same flight, except for its generation.
SameFlight(x, y) == x.stage = y.stage /\ x.scope = y.scope /\ x.key = y.key /\ x.seen = y.seen

\* A generation that leaves the map takes its flights along.
LEMMA MapLeft ==
  ASSUME NEW fl, SoundFlights(fl), NEW flag \in {"dropped", "invalidated"}
  PROVE  /\ SoundFlights(LeaveMap(fl, Repository, flag))
         /\ \A f \in Flights : /\ SameFlight(LeaveMap(fl, Repository, flag)[f], fl[f])
                               /\ LeaveMap(fl, Repository, flag)[f].gen # "current"
<1>1. PICK next : next = LeaveMap(fl, Repository, flag) OBVIOUS
<1>2. ASSUME NEW f \in Flights
      PROVE  next[f] \in Flight /\ SameFlight(next[f], fl[f]) /\ next[f].gen # "current" /\ SoundFlight(next[f])
  <2>1. SoundFlight(fl[f]) /\ fl[f] \in Flight BY DEF SoundFlights, SoundFlight
  <2>2. next[f] = IF fl[f].gen = "current" /\ fl[f].scope = Repository THEN [fl[f] EXCEPT !.gen = flag] ELSE fl[f]
    BY <1>1 DEF LeaveMap, InGeneration
  <2>3. next[f] \in Flight /\ SameFlight(next[f], fl[f]) BY <2>1, <2>2 DEF Flight, SameFlight
  <2>4. next[f].gen # "current"
    <3>1. fl[f].gen # "current" \/ fl[f].scope = Repository BY <2>1 DEF SoundFlight, Flight
    <3> QED BY <2>1, <2>2, <3>1 DEF Flight
  <2> QED BY <2>1, <2>3, <2>4 DEF SoundFlight, SameFlight
<1>3. next = [f \in Flights |-> next[f]] BY <1>1 DEF LeaveMap
<1>4. SoundFlights(next) BY <1>2, <1>3 DEF SoundFlights
<1> QED BY <1>1, <1>2, <1>4

\* A reader that is gone may free its flight, which nobody else waits for.
LEMMA ForgottenSound ==
  ASSUME SoundFlights(flight), NEW r \in Readers, NEW g \in Flights
  PROVE  /\ SoundFlights(Forgotten(flight, g, r))
         /\ \A q \in Readers \ {r} : reader[q].flight \in Flights =>
               Forgotten(flight, g, r)[reader[q].flight] = flight[reader[q].flight]
<1>1. PICK next : next = Forgotten(flight, g, r) OBVIOUS
<1>2. \/ next = flight
      \/ next = [flight EXCEPT ![g] = FreeFlight] /\ \A q \in Readers \ {r} : reader[q].flight # g
  BY <1>1 DEF Forgotten
<1>3. flight = [f \in Flights |-> flight[f]] /\ \A f \in Flights : SoundFlight(flight[f])
  BY DEF SoundFlights
<1>4. next = [f \in Flights |-> next[f]] /\ \A f \in Flights : next[f] = flight[f] \/ (f = g /\ next[f] = FreeFlight)
  BY <1>2, <1>3
<1>5. \A f \in Flights : SoundFlight(next[f]) BY <1>3, <1>4, FreeIsSound
<1>6. \A q \in Readers \ {r} : reader[q].flight \in Flights => next[reader[q].flight] = flight[reader[q].flight]
  BY <1>2, <1>3
<1>7. SoundFlights(next) BY <1>4, <1>5 DEF SoundFlights
<1> QED BY <1>1, <1>6, <1>7

\* The flight that a call gets: current, and of the account that was asked for.
FoundFor(x, account) ==
  /\ x.stage # "free" /\ x.key[2] = account
  /\ x.seen # None => x.seen \in 1..Now /\ moments[x.seen].account >= account /\ GitHub(x.seen) >= changed

\* A call joins a flight or starts one; the flights of the others stay.
LEMMA AttachSound ==
  ASSUME Forward, NEW fl, SoundFlights(fl), NEW r \in Readers, reader \in [Readers -> Reader],
         NEW c, c \in Reader, c.scope = Repository, c.key[2] <= AuthRevision, Attach(r, fl, c)
  PROVE  /\ SoundFlights(flight')
         /\ \A f \in Flights : fl[f].stage # "free" => flight'[f] = fl[f]
         /\ \E g \in Flights : /\ reader' = [reader EXCEPT ![r] = [c EXCEPT !.flight = g]]
                               /\ FoundFor(flight'[g], c.key[2])
<1>1. /\ fl = [f \in Flights |-> fl[f]]
      /\ \A f \in Flights : SoundFlight(fl[f])
      /\ c.scope \in Scopes /\ c.key \in Keys /\ c.key[2] \in Nat
  BY ReadKeys DEF SoundFlights, Reader
<1>2. CASE \E g \in {f \in Unreleased(fl, c.scope) : fl[f].key = c.key} :
             flight' = fl /\ reader' = [reader EXCEPT ![r] = [c EXCEPT !.flight = g]]
  <2>1. PICK g \in Flights : /\ fl[g].stage = "pending" /\ fl[g].gen = "current" /\ fl[g].key = c.key
                             /\ flight' = fl /\ reader' = [reader EXCEPT ![r] = [c EXCEPT !.flight = g]]
    BY <1>2 DEF Unreleased, InGeneration
  <2>2. SoundFlight(fl[g]) BY <1>1
  <2>3. FoundFor(fl[g], c.key[2])
    <3>1. fl[g].seen # None => fl[g].seen \in 1..Now /\ fl[g].key[2] <= moments[fl[g].seen].account /\ GitHub(fl[g].seen) >= changed
      BY <2>1, <2>2 DEF SoundFlight
    <3>2. fl[g].seen # None => moments[fl[g].seen].account \in Nat BY <3>1, AccountNow
    <3> QED BY <2>1, <3>1, <3>2, <1>1 DEF FoundFor
  <2> QED BY <2>1, <2>3
<1>3. CASE \E g \in Flights :
             /\ fl[g].stage = "free"
             /\ flight' = [fl EXCEPT ![g] = [stage |-> "pending", gen |-> "current", scope |-> c.scope, key |-> c.key, seen |-> None]]
             /\ reader' = [reader EXCEPT ![r] = [c EXCEPT !.flight = g]]
  <2>1. PICK g \in Flights :
             /\ fl[g].stage = "free"
             /\ flight' = [fl EXCEPT ![g] = [stage |-> "pending", gen |-> "current", scope |-> c.scope, key |-> c.key, seen |-> None]]
             /\ reader' = [reader EXCEPT ![r] = [c EXCEPT !.flight = g]]
    BY <1>3
  <2>2. PICK x : x = [stage |-> "pending", gen |-> "current", scope |-> c.scope, key |-> c.key, seen |-> None]
    OBVIOUS
  <2>3. flight' = [f \in Flights |-> flight'[f]] /\ \A f \in Flights : flight'[f] = IF f = g THEN x ELSE fl[f]
    BY <2>1, <2>2, <1>1
  <2>4. SoundFlight(x) /\ FoundFor(x, c.key[2])
    <3>1. x \in Flight BY <1>1, <2>2 DEF Flight
    <3> QED BY <3>1, <2>2 DEF SoundFlight, FoundFor
  <2>5. \A f \in Flights : SoundFlight(flight'[f]) BY <2>3, <2>4, <1>1
  <2>6. \A f \in Flights : fl[f].stage # "free" => flight'[f] = fl[f] BY <2>3, <2>1
  <2>7. SoundFlights(flight') BY <2>3, <2>5 DEF SoundFlights
  <2>8. flight'[g] = x BY <2>3
  <2> QED BY <2>1, <2>4, <2>6, <2>7, <2>8
<1> QED BY <1>2, <1>3 DEF Attach

\* What is not about one call: GitHub, the account and the epoch of what is kept.
Elsewhere == UNCHANGED <<moments, settledEpoch, changed>>

LEMMA SameMoments ==
  ASSUME Elsewhere
  PROVE  /\ AuthRevision' = AuthRevision /\ Now' = Now /\ moments' = moments /\ changed' = changed /\ settledEpoch' = settledEpoch
         /\ \A m : GitHub(m)' = GitHub(m)
BY DEF Elsewhere, GitHub, AuthRevision, Now

\* A call that doesn't move, and whose flight is still like before.
LEMMA CallStays ==
  ASSUME GitHubInv, Elsewhere, NEW q \in Readers, call'[q] = call[q], reader'[q] = reader[q],
         reader[q].pc = "waiting" => Awaits(q, flight'[reader[q].flight])
  PROVE  SoundCall(q)'
<1>1. SoundCall(q) BY DEF GitHubInv
<1>2. \A m : LateEnough(q, m)' = LateEnough(q, m) BY SameMoments DEF LateEnough
<1>3. reader[q].pc = "waiting" => Awaits(q, flight[reader[q].flight])' BY <1>2 DEF Awaits
<1> QED BY <1>1, <1>2, <1>3, SameMoments DEF SoundCall

\* What is kept, if it isn't touched.
LEMMA KeptStays ==
  ASSUME GitHubInv, Elsewhere, settled' = settled
  PROVE  KeptSoundly'
BY SameMoments DEF GitHubInv, KeptSoundly, SoundlyKept

\* A step of calls and flights.
LEMMA CallsMove ==
  ASSUME GitHubInv, Elsewhere, SoundFlights(flight'), KeptSoundly', reported' \in Nat,
         reader' \in [Readers -> Reader], call' \in [Readers -> CallTypes],
         \A q \in Readers : SoundCall(q)', AnswersKeepUp'
  PROVE  GitHubInv'
<1>1. Forward' BY SameMoments DEF GitHubInv, Forward
<1>2. SoundFlights(flight)'
  <2>1. \A f \in Flights : SoundFlight(flight'[f]) <=> SoundFlight(flight[f])'
    BY SameMoments DEF SoundFlight
  <2> QED BY <2>1 DEF SoundFlights
<1>3. settledEpoch' \in Nat BY DEF Elsewhere, GitHubInv
<1> QED BY <1>1, <1>2, <1>3 DEF GitHubInv

\* The flights of the other calls are in use.
LEMMA OthersAwait ==
  ASSUME GitHubInv, NEW q \in Readers, reader[q].pc = "waiting"
  PROVE  /\ call[q].stage = "reading" /\ reader[q].flight \in Flights
         /\ reader[q].scope = Repository /\ reader[q].key[2] = call[q].revision
         /\ flight[reader[q].flight].stage # "free" /\ Awaits(q, flight[reader[q].flight])
BY DEF GitHubInv, SoundCall, Awaits

\* The step of a call that joins or starts a flight.
LEMMA AttachedMoves ==
  ASSUME GitHubInv, Elsewhere, settled' = settled, reported' = reported,
         NEW r \in Readers, NEW fl, SoundFlights(fl),
         \A q \in Readers \ {r} : reader[q].flight \in Flights => fl[reader[q].flight] = flight[reader[q].flight],
         NEW c, c \in Reader, c.pc = "waiting", c.scope = Repository, Attach(r, fl, c),
         NEW d, d \in CallTypes, d.stage = "reading", call' = [call EXCEPT ![r] = d],
         d.asked.changed <= changed, d.epoch <= settledEpoch, d.revision = c.key[2], d.revision <= AuthRevision,
         missed' = missed
  PROVE  GitHubInv'
<1>1. Forward /\ reader \in [Readers -> Reader] /\ call \in [Readers -> CallTypes] /\ AnswersKeepUp
  BY DEF GitHubInv
<1>2. PICK g \in Flights : reader' = [reader EXCEPT ![r] = [c EXCEPT !.flight = g]] /\ FoundFor(flight'[g], c.key[2])
  BY <1>1, AttachSound
<1>3. SoundFlights(flight') /\ \A f \in Flights : fl[f].stage # "free" => flight'[f] = fl[f]
  BY <1>1, AttachSound
<1>4. /\ call'[r] = d /\ call' \in [Readers -> CallTypes] /\ \A q \in Readers \ {r} : call'[q] = call[q] /\ reader'[q] = reader[q]
      /\ reader' \in [Readers -> Reader]
      /\ reader'[r].pc = "waiting" /\ reader'[r].scope = Repository /\ reader'[r].key = c.key /\ reader'[r].flight = g
  <2>1. [c EXCEPT !.flight = g] \in Reader BY DEF Reader
  <2> QED BY <1>1, <1>2, <2>1 DEF Reader
<1>5. \A q \in Readers \ {r} : reader[q].pc = "waiting" => Awaits(q, flight'[reader[q].flight])
  <2> SUFFICES ASSUME NEW q \in Readers \ {r}, reader[q].pc = "waiting" PROVE Awaits(q, flight'[reader[q].flight])
    OBVIOUS
  <2>1. reader[q].flight \in Flights /\ flight[reader[q].flight].stage # "free" /\ Awaits(q, flight[reader[q].flight])
    BY OthersAwait
  <2>2. flight'[reader[q].flight] = flight[reader[q].flight] BY <2>1, <1>3
  <2> QED BY <2>1, <2>2
<1>6. /\ AuthRevision' = AuthRevision /\ Now' = Now /\ moments' = moments /\ changed' = changed /\ settledEpoch' = settledEpoch
      /\ \A m : GitHub(m)' = GitHub(m)
  BY SameMoments
<1>7. Awaits(r, flight[g])'
  <2>1. PICK x : x = flight'[g] OBVIOUS
  <2>2. x.stage # "free" /\ x.key[2] = d.revision BY <2>1, <1>2 DEF FoundFor
  <2>3. ASSUME x.seen # None
        PROVE  /\ x.seen \in 1..Now /\ moments[x.seen].account >= d.revision /\ GitHub(x.seen) >= changed
               /\ GitHub(x.seen) >= d.asked.changed
    <3>1. x.seen \in 1..Now /\ moments[x.seen].account >= d.revision /\ GitHub(x.seen) >= changed
      BY <2>1, <2>3, <1>2 DEF FoundFor
    <3>2. GitHub(x.seen) \in Nat /\ changed \in Nat BY <3>1, <1>1, AccountNow DEF Forward
    <3>3. d.asked.changed \in Nat BY DEF CallTypes
    <3> QED BY <3>1, <3>2, <3>3
  <2> QED BY <2>1, <2>2, <2>3, <1>4, <1>6 DEF Awaits, LateEnough
<1>8. SoundCall(r)' BY <1>4, <1>6, <1>7 DEF SoundCall
<1>9. AnswersKeepUp' BY <1>1 DEF AnswersKeepUp
<1>10. \A q \in Readers : SoundCall(q)' BY <1>4, <1>5, <1>8, CallStays
<1>11. KeptSoundly' /\ reported' \in Nat BY KeptStays DEF GitHubInv
<1> QED BY <1>3, <1>4, <1>9, <1>10, <1>11, CallsMove

\* A call that goes on without a flight of its own; the flights stay for the others.
LEMMA DetachedMoves ==
  ASSUME GitHubInv, Elsewhere, NEW r \in Readers, SoundFlights(flight'),
         \A q \in Readers \ {r} : reader[q].flight \in Flights => flight'[reader[q].flight] = flight[reader[q].flight],
         NEW c, c \in Reader, reader' = [reader EXCEPT ![r] = c],
         NEW d, d \in CallTypes, call' = [call EXCEPT ![r] = d],
         SoundCall(r)', AnswersKeepUp', KeptSoundly', reported' \in Nat
  PROVE  GitHubInv'
<1>1. Forward /\ reader \in [Readers -> Reader] /\ call \in [Readers -> CallTypes] BY DEF GitHubInv
<1>2. /\ call' \in [Readers -> CallTypes] /\ \A q \in Readers \ {r} : call'[q] = call[q] /\ reader'[q] = reader[q]
      /\ reader' \in [Readers -> Reader]
  BY <1>1
<1>3. \A q \in Readers \ {r} : reader[q].pc = "waiting" => Awaits(q, flight'[reader[q].flight])
  <2> SUFFICES ASSUME NEW q \in Readers \ {r}, reader[q].pc = "waiting" PROVE Awaits(q, flight'[reader[q].flight])
    OBVIOUS
  <2>1. reader[q].flight \in Flights /\ Awaits(q, flight[reader[q].flight]) BY OthersAwait
  <2> QED BY <2>1
<1>4. \A q \in Readers : SoundCall(q)' BY <1>2, <1>3, CallStays
<1> QED BY <1>2, <1>4, CallsMove

LEMMA IdleType == IdleReader \in Reader /\ NoCall \in CallTypes
<1>1. IdleReader \in Reader BY ReadKeys DEF IdleReader, Reader, LastAttempt
<1> QED BY <1>1 DEF NoCall, CallTypes

\* getPullRequest, getPullRequestConversation and getPullRequestLiveState.
LEMMA CallKeeps ==
  ASSUME GitHubInv, NEW r \in Readers, NEW resource \in Resources, Call(r, resource)
  PROVE  GitHubInv'
<1>1. PICK d : d = [stage |-> "routing", asked |-> [resource |-> resource, changed |-> changed, reported |-> reported]]
  OBVIOUS
<1>2. d \in CallTypes /\ call' = [call EXCEPT ![r] = d] /\ Elsewhere /\ flight' = flight /\ reader' = reader /\ missed' = missed
  <2>1. changed \in Nat /\ reported \in Nat BY DEF GitHubInv, Forward
  <2> QED BY <1>1, <2>1 DEF Call, CallTypes, Elsewhere, readVars
<1>3. call[r].stage = "none" /\ reader \in [Readers -> Reader] /\ SoundCall(r) /\ SoundFlights(flight) /\ call \in [Readers -> CallTypes]
  BY DEF Call, GitHubInv
<1>4. reader[r].pc = "idle" /\ reader' = [reader EXCEPT ![r] = reader[r]]
  BY <1>2, <1>3 DEF SoundCall
<1>5. SoundCall(r)'
  <2>1. changed' = changed /\ changed \in Nat BY <1>2 DEF Elsewhere, GitHubInv, Forward
  <2>2. call'[r] = d BY <1>2, <1>3
  <2> QED BY <1>1, <1>2, <1>4, <2>1, <2>2 DEF SoundCall
<1>6. AnswersKeepUp' BY <1>2 DEF GitHubInv, AnswersKeepUp
<1>7. KeptSoundly' /\ reported' \in Nat /\ \A f \in Flights : flight'[f] = flight[f]
  BY <1>2, KeptStays DEF GitHubInv, Call
<1> QED BY <1>2, <1>3, <1>4, <1>5, <1>6, <1>7, DetachedMoves

\* A read begins.
LEMMA MissKeeps ==
  ASSUME GitHubInv, NEW r \in Readers, Miss(r)
  PROVE  GitHubInv'
<1>1. PICK c : c = [pc |-> "waiting", scope |-> Repository, key |-> <<call[r].asked.resource, AuthRevision>>,
                    retryInvalidated |-> TRUE, attempt |-> 0, flight |-> None, floor |-> 0, result |-> None]
  OBVIOUS
<1>2. PICK d : d = [stage |-> "reading", asked |-> call[r].asked, attempt |-> 0, revision |-> AuthRevision,
                    epoch |-> settledEpoch, key |-> AuthRevision]
  OBVIOUS
<1>3. /\ call[r].stage = "routing" /\ call' = [call EXCEPT ![r] = d] /\ Attach(r, flight, c)
      /\ UNCHANGED <<moments, mutating, settled, settledEpoch, calls, mutations, writes, changed, reported, missed>>
  BY <1>1, <1>2 DEF Miss, Share, RunRead
<1>4. /\ Forward /\ call[r] \in CallTypes /\ SoundCall(r) /\ SoundFlights(flight)
      /\ settledEpoch \in Nat /\ AuthRevision \in 0..MaxMoments
  BY AccountNow DEF GitHubInv
<1>5. call[r].asked \in [resource : Resources, changed : Nat, reported : Nat] /\ call[r].asked.changed <= changed
  BY <1>3, <1>4 DEF CallTypes, SoundCall
<1>6. c \in Reader /\ c.pc = "waiting" /\ c.scope = Repository /\ c.key[2] = AuthRevision
  BY <1>1, <1>4, <1>5, ReadKeys DEF Reader, LastAttempt
<1>7. d \in CallTypes /\ d.stage = "reading" /\ d.asked = call[r].asked /\ d.epoch = settledEpoch /\ d.revision = AuthRevision
  BY <1>2, <1>4, <1>5 DEF CallTypes
<1>8. Elsewhere BY <1>3 DEF Elsewhere
<1>9. /\ settled' = settled /\ reported' = reported /\ missed' = missed
      /\ \A q \in Readers \ {r} : reader[q].flight \in Flights => flight[reader[q].flight] = flight[reader[q].flight]
  BY <1>3
<1>10. d.asked.changed <= changed /\ d.epoch <= settledEpoch /\ d.revision = c.key[2] /\ d.revision <= AuthRevision /\ c \in Reader
  BY <1>4, <1>5, <1>6, <1>7
<1> QED BY <1>3, <1>4, <1>6, <1>7, <1>8, <1>9, <1>10, AttachedMoves

\* An answer that is of the account, and no older than the change.
LEMMA AnswerKeepsUp ==
  ASSUME AnswersKeepUp, NEW r \in Readers, NEW m, NEW account, Answer(r, m, account),
         moments[m].account = account, ~ GitHub(m) < call[r].asked.changed
  PROVE  AnswersKeepUp' /\ call' = [call EXCEPT ![r] = NoCall]
BY DEF Answer, AnswersKeepUp

\* A call that is over.
LEMMA OverKeeps ==
  ASSUME GitHubInv, Elsewhere, NEW r \in Readers, flight' = flight,
         (reader[r].pc = "idle" /\ reader' = reader) \/ CallerDone(r),
         NEW d, d \in {NoCall} \cup CallTypes, call' = [call EXCEPT ![r] = d],
         d.stage \in {"none", "forgetting"}, d.stage = "forgetting" => d.asked = call[r].asked /\ call[r].stage # "none",
         d.stage = "forgetting" => /\ d.value \in 1..Now /\ moments[d.value].account = d.account
                                   /\ GitHub(d.value) >= d.asked.changed,
         AnswersKeepUp', KeptSoundly', reported' \in Nat
  PROVE  GitHubInv'
<1>1. PICK c \in Reader : c.pc = "idle" /\ reader' = [reader EXCEPT ![r] = c]
  <2>1. CASE reader[r].pc = "idle" /\ reader' = reader BY <2>1 DEF GitHubInv
  <2>2. CASE CallerDone(r) BY <2>2, IdleType DEF CallerDone, IdleReader
  <2> QED BY <2>1, <2>2
<1>2. call'[r] = d /\ reader'[r].pc = "idle" /\ SoundCall(r) BY <1>1 DEF GitHubInv
<1>3. SoundCall(r)' BY <1>2, SameMoments DEF SoundCall
<1>4. d \in CallTypes BY IdleType
<1>5. SoundFlights(flight') /\ \A q \in Readers \ {r} : reader[q].flight \in Flights => flight'[reader[q].flight] = flight[reader[q].flight]
  BY DEF GitHubInv
<1> QED BY <1>1, <1>3, <1>4, <1>5, DetachedMoves

LEMMA HitKeeps ==
  ASSUME GitHubInv, NEW r \in Readers, Hit(r)
  PROVE  GitHubInv'
<1>1. PICK k \in Kept : /\ call[r].stage = "routing" /\ settled[k] # None /\ settled[k].account = AuthRevision
                        /\ Answer(r, settled[k].value, AuthRevision)
                        /\ UNCHANGED <<readVars, moments, settled, settledEpoch, changed, reported>>
  BY DEF Hit
<1>2. /\ SoundlyKept(k) /\ SoundCall(r) /\ Forward /\ AnswersKeepUp /\ call[r] \in CallTypes
      /\ reported \in Nat
  BY DEF GitHubInv, KeptSoundly
<1>3. /\ settled[k].value \in 1..Now /\ moments[settled[k].value].account = AuthRevision
      /\ GitHub(settled[k].value) >= changed /\ GitHub(settled[k].value) \in Nat /\ changed \in Nat
  BY <1>1, <1>2, AccountNow DEF SoundlyKept, Forward
<1>4. call[r].asked.changed \in Nat /\ call[r].asked.changed <= changed /\ reader[r].pc = "idle"
  BY <1>1, <1>2 DEF SoundCall, CallTypes
<1>5. ~ GitHub(settled[k].value) < call[r].asked.changed BY <1>3, <1>4
<1>6. AnswersKeepUp' /\ call' = [call EXCEPT ![r] = NoCall] BY <1>1, <1>2, <1>3, <1>5, AnswerKeepsUp
<1>7. Elsewhere /\ flight' = flight /\ reader' = reader /\ settled' = settled /\ reported' = reported
  BY <1>1 DEF Elsewhere, readVars
<1>8. NoCall.stage = "none" /\ KeptSoundly' BY <1>7, KeptStays DEF NoCall
<1> QED BY <1>2, <1>4, <1>6, <1>7, <1>8, OverKeeps

\* What a read returned.
LEMMA ReturnedValue ==
  ASSUME GitHubInv, NEW r \in Readers, Returned(r), SameAccount(r)
  PROVE  /\ call[r].stage = "reading" /\ call[r] \in CallTypes
         /\ reader[r].result \in 1..Now /\ moments[reader[r].result].account = AuthRevision
         /\ GitHub(reader[r].result) \in Nat /\ changed \in Nat
         /\ GitHub(reader[r].result) >= call[r].asked.changed /\ ~ GitHub(reader[r].result) < call[r].asked.changed
         /\ call[r].epoch = settledEpoch => GitHub(reader[r].result) >= changed
<1>1. call[r].stage = "reading" /\ reader[r].pc = "returned" /\ call[r].revision = AuthRevision
  BY DEF Returned, SameAccount
<1>2. SoundCall(r) /\ Forward /\ call[r] \in CallTypes /\ changed \in Nat BY DEF GitHubInv, Forward
<1>3. PICK m : m = reader[r].result OBVIOUS
<1>4. LateEnough(r, m) BY <1>1, <1>2, <1>3 DEF SoundCall
<1>5. m \in 1..Now /\ moments[m].account >= AuthRevision /\ GitHub(m) >= call[r].asked.changed /\ (call[r].epoch = settledEpoch => GitHub(m) >= changed)
  BY <1>1, <1>4 DEF LateEnough
<1>6. GitHub(m) \in Nat /\ moments[m].account \in Nat /\ moments[m].account <= AuthRevision /\ AuthRevision \in Nat
  BY <1>2, <1>5, AccountNow
<1>7. call[r].asked.changed \in Nat BY <1>1, <1>2 DEF CallTypes
<1>8. moments[m].account = AuthRevision /\ ~ GitHub(m) < call[r].asked.changed BY <1>5, <1>6, <1>7
<1> QED BY <1>1, <1>2, <1>3, <1>5, <1>6, <1>8

LEMMA SettledEndsKeeps ==
  ASSUME GitHubInv, NEW r \in Readers, SettledEnds(r)
  PROVE  GitHubInv'
<1>1. PICK k \in Kept : k = call[r].asked.resource BY DEF SettledEnds
<1>2. /\ Returned(r) /\ SameAccount(r)
      /\ settled' = IF Keeps(r) THEN [settled EXCEPT ![k] = [account |-> AuthRevision, value |-> reader[r].result]] ELSE settled
      /\ Answer(r, reader[r].result, AuthRevision) /\ CallerDone(r)
      /\ UNCHANGED <<moments, settledEpoch, changed, reported>>
  BY <1>1 DEF SettledEnds
<1>3. Elsewhere /\ flight' = flight /\ reported' \in Nat /\ AnswersKeepUp
  BY <1>2 DEF Elsewhere, CallerDone, GitHubInv
<1>4. AnswersKeepUp' /\ call' = [call EXCEPT ![r] = NoCall]
  BY <1>2, <1>3, ReturnedValue, AnswerKeepsUp
<1>5. KeptSoundly'
  <2>1. CASE ~Keeps(r) BY <2>1, <1>2, <1>3, KeptStays
  <2>2. CASE Keeps(r)
    <3>1. settled = [j \in Kept |-> settled[j]] /\ \A j \in Kept : SoundlyKept(j)
      BY DEF GitHubInv, KeptSoundly
    <3>2. PICK x : x = [account |-> AuthRevision, value |-> reader[r].result] OBVIOUS
    <3>3. x.account = AuthRevision /\ x.value = reader[r].result BY <3>2
    <3>4. x.value \in 1..Now /\ moments[x.value].account = x.account /\ GitHub(x.value) >= changed
      BY <1>2, <2>2, <3>3, ReturnedValue DEF Keeps
    <3>5. settled' = [j \in Kept |-> settled'[j]] /\ \A j \in Kept : settled'[j] = IF j = k THEN x ELSE settled[j]
      BY <1>2, <2>2, <3>1, <3>2
    <3>6. \A j \in Kept : SoundlyKept(j)'
      <4> TAKE j \in Kept
      <4>1. CASE j = k BY <4>1, <3>4, <3>5, <1>3, SameMoments DEF SoundlyKept
      <4>2. CASE j # k BY <4>2, <3>1, <3>5, <1>3, SameMoments DEF SoundlyKept
      <4> QED BY <4>1, <4>2
    <3> QED BY <3>5, <3>6 DEF KeptSoundly
  <2> QED BY <2>1, <2>2
<1>6. NoCall.stage = "none" BY DEF NoCall
<1> QED BY <1>2, <1>3, <1>4, <1>5, <1>6, OverKeeps

LEMMA LiveStateReadKeeps ==
  ASSUME GitHubInv, NEW r \in Readers, LiveStateRead(r)
  PROVE  GitHubInv'
<1>0. PICK entries \in {settledEpoch, None} :
        call' = [call EXCEPT ![r] = [stage |-> "forgetting", asked |-> call[r].asked, value |-> reader[r].result,
                                     account |-> AuthRevision, entries |-> entries]]
  BY DEF LiveStateRead
<1>1. PICK d :
        /\ d = [stage |-> "forgetting", asked |-> call[r].asked, value |-> reader[r].result, account |-> AuthRevision,
                entries |-> entries]
        /\ call' = [call EXCEPT ![r] = d]
  BY <1>0
<1>2. /\ Returned(r) /\ SameAccount(r) /\ CallerDone(r)
      /\ UNCHANGED <<moments, settled, settledEpoch, changed, reported, missed>>
  BY DEF LiveStateRead
<1>3. Elsewhere /\ flight' = flight /\ reported' \in Nat /\ AnswersKeepUp' /\ settled' = settled
  BY <1>2 DEF Elsewhere, CallerDone, GitHubInv, AnswersKeepUp
<1>4. KeptSoundly' BY <1>3, KeptStays
<1>5. /\ call[r].stage = "reading" /\ call[r] \in CallTypes /\ reader[r].result \in 1..Now
      /\ moments[reader[r].result].account = AuthRevision /\ GitHub(reader[r].result) >= call[r].asked.changed
  BY <1>2, ReturnedValue
<1>6. AuthRevision \in Nat /\ Now \in Nat /\ entries \in Nat \cup {None} BY <1>1, AccountNow DEF GitHubInv
<1>7. /\ d.stage = "forgetting" /\ d.asked = call[r].asked /\ d.value \in 1..Now /\ moments[d.value].account = d.account
      /\ GitHub(d.value) >= d.asked.changed /\ d \in CallTypes
  BY <1>1, <1>5, <1>6 DEF CallTypes
<1> QED BY <1>1, <1>2, <1>3, <1>4, <1>5, <1>7, OverKeeps

LEMMA GiveUpKeeps ==
  ASSUME GitHubInv, NEW r \in Readers, GiveUp(r)
  PROVE  GitHubInv'
<1>1. /\ call' = [call EXCEPT ![r] = NoCall] /\ CallerDone(r)
      /\ UNCHANGED <<moments, settled, settledEpoch, changed, reported, missed>>
  BY DEF GiveUp
<1>2. Elsewhere /\ flight' = flight /\ reported' \in Nat /\ AnswersKeepUp' /\ settled' = settled
  BY <1>1 DEF Elsewhere, CallerDone, GitHubInv, AnswersKeepUp
<1>3. KeptSoundly' /\ NoCall.stage = "none" BY <1>2, KeptStays DEF NoCall
<1> QED BY <1>1, <1>2, <1>3, OverKeeps

\* forgetOutdated drops everything that is kept, or nothing.
LEMMA ForgetOutdatedKeeps ==
  ASSUME GitHubInv, NEW r \in Readers, ForgetOutdated(r)
  PROVE  GitHubInv'
<1>1. /\ call[r].stage = "forgetting" /\ (settled' = settled \/ settled' = [k \in Kept |-> None])
      /\ Answer(r, call[r].value, call[r].account)
      /\ reported' = IF GitHub(call[r].value) > reported THEN GitHub(call[r].value) ELSE reported
      /\ UNCHANGED <<readVars, moments, settledEpoch, changed>>
  BY DEF ForgetOutdated
<1>2. Elsewhere /\ flight' = flight /\ reader' = reader /\ AnswersKeepUp
  BY <1>1 DEF Elsewhere, readVars, GitHubInv
<1>3. SoundCall(r) /\ Forward /\ call[r] \in CallTypes /\ reported \in Nat BY DEF GitHubInv
<1>4. /\ call[r].value \in 1..Now /\ moments[call[r].value].account = call[r].account
      /\ GitHub(call[r].value) >= call[r].asked.changed /\ call[r].asked.changed \in Nat /\ reader[r].pc = "idle"
  BY <1>1, <1>3 DEF SoundCall, CallTypes
<1>5. GitHub(call[r].value) \in Nat BY <1>3, <1>4, AccountNow
<1>6. ~ GitHub(call[r].value) < call[r].asked.changed /\ reported' \in Nat BY <1>1, <1>3, <1>4, <1>5
<1>7. AnswersKeepUp' /\ call' = [call EXCEPT ![r] = NoCall] BY <1>1, <1>2, <1>4, <1>6, AnswerKeepsUp
<1>8. KeptSoundly'
  <2>1. CASE settled' = settled BY <2>1, <1>2, KeptStays
  <2>2. CASE settled' = [k \in Kept |-> None] BY <2>2 DEF KeptSoundly, SoundlyKept
  <2> QED BY <1>1, <2>1, <2>2
<1>9. NoCall.stage = "none" BY DEF NoCall
<1> QED BY <1>2, <1>4, <1>6, <1>7, <1>8, <1>9, OverKeeps

LEMMA ReturnsKeeps ==
  ASSUME GitHubInv, NEW r \in Readers, ReadReturns(r)
  PROVE  GitHubInv'
<1>1. PICK g : g = reader[r].flight OBVIOUS
<1>2. /\ reader[r].pc = "waiting" /\ flight[g].stage = "settled" /\ flight' = Forgotten(flight, g, r)
      /\ reader' = [reader EXCEPT ![r].pc = "returned", ![r].flight = None, ![r].result = flight[g].seen]
      /\ call' = call /\ UNCHANGED gitHubVars
  BY <1>1 DEF ReadReturns, ReturnRead, Landed, gitHubVars
<1>3. call[r].stage = "reading" /\ g \in Flights /\ flight[g].stage # "free" /\ Awaits(r, flight[g])
  BY <1>1, <1>2, OthersAwait
<1>4. /\ SoundFlights(flight) /\ SoundFlight(flight[g]) /\ SoundCall(r) /\ Forward /\ AnswersKeepUp
      /\ reader \in [Readers -> Reader] /\ call \in [Readers -> CallTypes]
  BY <1>3 DEF GitHubInv, SoundFlights
<1>5. flight[g].seen # None /\ LateEnough(r, flight[g].seen) /\ flight[g].seen \in Nat
  <2>1. flight[g].seen # None BY <1>2, <1>4 DEF SoundFlight
  <2>2. LateEnough(r, flight[g].seen) BY <2>1, <1>3 DEF Awaits
  <2>3. flight[g].seen \in Nat BY <2>1, <1>4 DEF SoundFlight, Flight
  <2> QED BY <2>1, <2>2, <2>3
<1>6. PICK c \in Reader : c.pc = "returned" /\ c.result = flight[g].seen /\ reader' = [reader EXCEPT ![r] = c]
  <2>1. PICK c : c = [reader[r] EXCEPT !.pc = "returned", !.flight = None, !.result = flight[g].seen]
    OBVIOUS
  <2>2. reader[r] \in Reader BY <1>4
  <2>3. c \in Reader /\ c.pc = "returned" /\ c.result = flight[g].seen
    BY <2>1, <2>2, <1>5 DEF Reader
  <2>4. reader' = [reader EXCEPT ![r] = c] BY <2>1, <1>2, <1>4
  <2> QED BY <2>3, <2>4
<1>7. Elsewhere /\ settled' = settled /\ reported' = reported /\ missed' = missed
  BY <1>2 DEF Elsewhere, gitHubVars
<1>8. PICK d \in CallTypes : d = call[r] BY <1>4
<1>9. call' = [call EXCEPT ![r] = d] /\ call'[r] = call[r] BY <1>2, <1>8, <1>4
<1>10. SoundCall(r)'
  <2>1. PICK m : m = flight[g].seen OBVIOUS
  <2>2. LateEnough(r, m)' /\ reader'[r].pc = "returned" /\ reader'[r].result = m
    BY <2>1, <1>4, <1>5, <1>6, <1>7, <1>9, SameMoments DEF LateEnough
  <2>3. LateEnough(r, reader[r].result)' BY <2>2, <1>9, <1>7, SameMoments DEF LateEnough
  <2> QED BY <2>2, <2>3, <1>3, <1>4, <1>7, <1>9, SameMoments DEF SoundCall
<1>11. /\ SoundFlights(flight')
       /\ \A q \in Readers \ {r} : reader[q].flight \in Flights => flight'[reader[q].flight] = flight[reader[q].flight]
  BY <1>2, <1>3, <1>4, ForgottenSound
<1>12. AnswersKeepUp' /\ KeptSoundly' /\ reported' \in Nat
  BY <1>4, <1>7, KeptStays DEF AnswersKeepUp, GitHubInv
<1> QED BY <1>6, <1>7, <1>8, <1>9, <1>10, <1>11, <1>12, DetachedMoves

LEMMA RetriesKeeps ==
  ASSUME GitHubInv, NEW r \in Readers, ReadRetries(r)
  PROVE  GitHubInv'
<1>1. PICK g : g = reader[r].flight OBVIOUS
<1>2. PICK fl : fl = Forgotten(flight, g, r) OBVIOUS
<1>3. PICK c : c = [reader[r] EXCEPT !.attempt = IF @ < LastAttempt THEN @ + 1 ELSE @, !.floor = 0]
  OBVIOUS
<1>4. reader[r].pc = "waiting" /\ Attach(r, fl, c) /\ UNCHANGED gitHubVars
  BY <1>1, <1>2, <1>3 DEF ReadRetries, RetryRead, Landed
<1>5. call[r].stage = "reading" /\ g \in Flights /\ reader[r].scope = Repository /\ reader[r].key[2] = call[r].revision
  BY <1>1, <1>4, OthersAwait
<1>6. /\ SoundFlights(flight) /\ SoundCall(r) /\ reader[r] \in Reader /\ call \in [Readers -> CallTypes]
  BY DEF GitHubInv
<1>7. /\ SoundFlights(fl)
      /\ \A q \in Readers \ {r} : reader[q].flight \in Flights => fl[reader[q].flight] = flight[reader[q].flight]
  BY <1>2, <1>5, <1>6, ForgottenSound
<1>8. c \in Reader /\ c.pc = "waiting" /\ c.scope = Repository /\ c.key[2] = call[r].revision
  <2>1. PICK n \in 0..LastAttempt : n = IF reader[r].attempt < LastAttempt THEN reader[r].attempt + 1 ELSE reader[r].attempt
    <3>1. reader[r].attempt \in 0..2 BY <1>6 DEF Reader, LastAttempt
    <3> QED BY <3>1 DEF LastAttempt
  <2>2. c = [reader[r] EXCEPT !.attempt = n, !.floor = 0] BY <2>1, <1>3
  <2>3. c \in Reader /\ c.pc = reader[r].pc /\ c.scope = reader[r].scope /\ c.key = reader[r].key
    BY <2>2, <1>6 DEF Reader
  <2> QED BY <2>3, <1>4, <1>5
<1>9. PICK d \in CallTypes : d = call[r] BY <1>6
<1>10. call' = [call EXCEPT ![r] = d] /\ Elsewhere /\ settled' = settled /\ reported' = reported /\ missed' = missed
  BY <1>4, <1>6, <1>9 DEF gitHubVars, Elsewhere
<1>11. d.stage = "reading" /\ d.asked.changed <= changed /\ d.epoch <= settledEpoch /\ d.revision = c.key[2] /\ d.revision <= AuthRevision
  BY <1>5, <1>6, <1>8, <1>9 DEF SoundCall
<1> QED BY <1>4, <1>7, <1>8, <1>9, <1>10, <1>11, AttachedMoves

LEMMA ReadAgainKeeps ==
  ASSUME GitHubInv, NEW r \in Readers, ReadAgain(r)
  PROVE  GitHubInv'
<1>1. PICK idle : idle = [reader EXCEPT ![r] = IdleReader] OBVIOUS
<1>2. PICK c : c = [idle[r] EXCEPT !.pc = "waiting", !.scope = Repository, !.retryInvalidated = TRUE,
                                   !.key = <<call[r].asked.resource, AuthRevision>>]
  OBVIOUS
<1>3. PICK d : d = [call[r] EXCEPT !.attempt = @ + 1, !.revision = AuthRevision] OBVIOUS
<1>4. /\ call[r].stage = "reading" /\ call' = [call EXCEPT ![r].attempt = @ + 1, ![r].revision = AuthRevision]
      /\ Attach(r, flight, c) /\ UNCHANGED <<moments, settled, settledEpoch, changed, reported, missed>>
  BY <1>1, <1>2 DEF ReadAgain, Returned
<1>5. /\ SoundFlights(flight) /\ SoundCall(r) /\ reader \in [Readers -> Reader] /\ call \in [Readers -> CallTypes]
      /\ AuthRevision \in 0..MaxMoments
  BY AccountNow DEF GitHubInv
<1>6. idle[r] = IdleReader /\ IdleReader \in Reader BY <1>1, <1>5, IdleType
<1>7. call[r].asked.resource \in Resources /\ call[r] \in CallTypes BY <1>4, <1>5 DEF CallTypes
<1>8. c \in Reader /\ c.pc = "waiting" /\ c.scope = Repository /\ c.key[2] = AuthRevision
  BY <1>2, <1>5, <1>6, <1>7, ReadKeys DEF Reader
<1>9. /\ d \in CallTypes /\ d.stage = "reading" /\ d.asked = call[r].asked /\ d.epoch = call[r].epoch /\ d.revision = AuthRevision
  <2>1. call[r] \in [stage : {"reading"}, asked : [resource : Resources, changed : Nat, reported : Nat],
                    attempt : Nat, revision : Nat, epoch : Nat, key : Nat]
    BY <1>4, <1>7 DEF CallTypes
  <2>2. PICK n \in Nat : n = call[r].attempt + 1 BY <2>1
  <2>3. d = [call[r] EXCEPT !.attempt = n, !.revision = AuthRevision] /\ AuthRevision \in Nat
    BY <2>2, <1>3, <1>5
  <2>4. d \in [stage : {"reading"}, asked : [resource : Resources, changed : Nat, reported : Nat],
              attempt : Nat, revision : Nat, epoch : Nat, key : Nat]
        /\ d.stage = "reading" /\ d.asked = call[r].asked /\ d.epoch = call[r].epoch /\ d.revision = AuthRevision
    BY <2>1, <2>3
  <2> QED BY <2>4 DEF CallTypes
<1>10. call' = [call EXCEPT ![r] = d] /\ Elsewhere /\ settled' = settled /\ reported' = reported /\ missed' = missed
  BY <1>3, <1>4, <1>5 DEF Elsewhere
<1>11. d.asked.changed <= changed /\ d.epoch <= settledEpoch /\ d.revision = c.key[2] /\ d.revision <= AuthRevision /\ c.key[2] <= AuthRevision
  BY <1>4, <1>5, <1>8, <1>9 DEF SoundCall
<1>12. \A q \in Readers \ {r} : reader[q].flight \in Flights => flight[reader[q].flight] = flight[reader[q].flight]
  OBVIOUS
<1>13. SoundFlights(flight) /\ Attach(r, flight, c) /\ d \in CallTypes /\ d.stage = "reading" /\ c \in Reader /\ c.pc = "waiting" /\ c.scope = Repository
  BY <1>4, <1>5, <1>8, <1>9
<1> QED BY <1>10, <1>11, <1>12, <1>13, AttachedMoves

\* Flights that go on: still of the same key, and having looked by now at most.
LEMMA FlightsMove ==
  ASSUME GitHubInv, UNCHANGED gitHubVars, reader' = reader, SoundFlights(flight'),
         \A f \in Flights : flight[f].stage # "free" =>
            flight'[f].stage # "free" /\ flight'[f].key = flight[f].key /\ flight'[f].seen \in {flight[f].seen, Now}
  PROVE  GitHubInv'
<1>1. Elsewhere /\ call' = call /\ settled' = settled /\ reported' = reported /\ missed' = missed
  BY DEF Elsewhere, gitHubVars
<1>2. Forward /\ reader \in [Readers -> Reader] /\ call \in [Readers -> CallTypes] /\ AnswersKeepUp /\ reported \in Nat
  BY DEF GitHubInv
<1>3. ASSUME NEW q \in Readers PROVE SoundCall(q)'
  <2>1. ASSUME reader[q].pc = "waiting" PROVE Awaits(q, flight'[reader[q].flight])
    <3>1. PICK g \in Flights : g = reader[q].flight BY <2>1, OthersAwait
    <3>2. call[q].stage = "reading" /\ flight[g].stage # "free" /\ Awaits(q, flight[g]) /\ SoundCall(q) /\ call[q] \in CallTypes
      BY <2>1, <3>1, <1>2, OthersAwait DEF GitHubInv
    <3>3. PICK x : x = flight'[g] OBVIOUS
    <3>4. x.stage # "free" /\ x.key[2] = call[q].revision /\ x.seen \in {flight[g].seen, Now}
      BY <3>2, <3>3 DEF Awaits
    <3>5. LateEnough(q, Now)
      <4>1. /\ Now \in 1..Now /\ moments[Now].account = AuthRevision /\ AuthRevision \in Nat
            /\ GitHub(Now) \in Nat /\ GitHub(Now) >= changed /\ changed \in Nat
        <5>1. Now \in 1..MaxMoments /\ MaxMoments \in Nat BY <1>2, AccountNow
        <5> QED BY <5>1, <1>2, AccountNow DEF Forward, AuthRevision
      <4>2. call[q].asked.changed \in Nat /\ call[q].asked.changed <= changed /\ call[q].revision \in Nat /\ call[q].revision <= AuthRevision
        BY <3>2 DEF CallTypes, SoundCall
      <4> QED BY <4>1, <4>2 DEF LateEnough
    <3>6. x.seen # None => LateEnough(q, x.seen) BY <3>2, <3>4, <3>5 DEF Awaits
    <3> QED BY <3>1, <3>3, <3>4, <3>6 DEF Awaits
  <2> QED BY <2>1, <1>1, CallStays
<1>4. KeptSoundly' /\ AnswersKeepUp' /\ reported' \in Nat /\ reader' \in [Readers -> Reader] /\ call' \in [Readers -> CallTypes]
  BY <1>1, <1>2, KeptStays DEF AnswersKeepUp
<1> QED BY <1>1, <1>3, <1>4, CallsMove

LEMMA LooksKeeps ==
  ASSUME GitHubInv, NEW g \in Flights, ReadLooks(g)
  PROVE  GitHubInv'
<1>1. /\ flight[g].stage = "pending" /\ flight' = [flight EXCEPT ![g].seen = Now] /\ reader' = reader /\ UNCHANGED gitHubVars
  BY DEF ReadLooks, Look
<1>2. SoundFlights(flight) /\ Forward /\ flight = [f \in Flights |-> flight[f]] /\ \A f \in Flights : SoundFlight(flight[f])
  BY DEF GitHubInv, SoundFlights
<1>3. PICK x : x = [flight[g] EXCEPT !.seen = Now] OBVIOUS
<1>4. flight[g] \in Flight /\ SoundFlight(flight[g]) BY <1>2 DEF SoundFlight
<1>5. Now \in 1..Now /\ Now \in Nat /\ AuthRevision = moments[Now].account /\ changed <= GitHub(Now)
  <2>1. Now \in 1..MaxMoments /\ MaxMoments \in Nat BY <1>2, AccountNow
  <2> QED BY <2>1, <1>2 DEF AuthRevision, Forward
<1>6. /\ x \in Flight /\ x.seen = Now /\ x.stage = flight[g].stage /\ x.gen = flight[g].gen /\ x.scope = flight[g].scope
      /\ x.key = flight[g].key
  BY <1>3, <1>4, <1>5 DEF Flight
<1>7. SoundFlight(x)
  <2>1. GitHub(Now) \in Nat /\ changed \in Nat BY <1>2, AccountNow DEF Forward
  <2> QED BY <1>1, <1>4, <1>5, <1>6, <2>1 DEF SoundFlight
<1>8. flight' = [f \in Flights |-> flight'[f]] /\ \A f \in Flights : flight'[f] = IF f = g THEN x ELSE flight[f]
  BY <1>1, <1>2, <1>3
<1>9. SoundFlights(flight') BY <1>2, <1>7, <1>8 DEF SoundFlights
<1>10. \A f \in Flights : flight[f].stage # "free" =>
         flight'[f].stage # "free" /\ flight'[f].key = flight[f].key /\ flight'[f].seen \in {flight[f].seen, Now}
  BY <1>6, <1>8
<1> QED BY <1>1, <1>9, <1>10, FlightsMove

\* A flight that has landed leaves the map, and with the last one its generation.
LEMMA ReleasedSound ==
  ASSUME SoundFlights(flight), NEW g \in Flights, flight[g].stage = "pending", flight[g].seen # None
  PROVE  /\ SoundFlights(Released(flight, g))
         /\ \A f \in Flights : flight[f].stage # "free" =>
              /\ Released(flight, g)[f].stage # "free" /\ Released(flight, g)[f].key = flight[f].key
              /\ Released(flight, g)[f].seen = flight[f].seen
<1>1. flight = [f \in Flights |-> flight[f]] /\ \A f \in Flights : SoundFlight(flight[f])
  BY DEF SoundFlights
<1>2. PICK x : x = [flight[g] EXCEPT !.stage = "settled"] OBVIOUS
<1>3. PICK gone : gone = [flight EXCEPT ![g] = x] OBVIOUS
<1>4. SoundFlight(flight[g]) /\ flight[g] \in Flight BY <1>1 DEF SoundFlight
<1>5. x \in Flight /\ x.stage = "settled" /\ x.gen = flight[g].gen /\ x.scope = flight[g].scope /\ x.key = flight[g].key /\ x.seen = flight[g].seen
  BY <1>2, <1>4 DEF Flight
<1>6. SoundFlight(x) BY <1>4, <1>5 DEF SoundFlight
<1>7. gone = [f \in Flights |-> gone[f]] /\ \A f \in Flights : gone[f] = IF f = g THEN x ELSE flight[f]
  BY <1>1, <1>3
<1>8. SoundFlights(gone) BY <1>1, <1>6, <1>7 DEF SoundFlights
<1>9. \A f \in Flights : flight[f].stage # "free" => gone[f].stage # "free" /\ gone[f].key = flight[f].key /\ gone[f].seen = flight[f].seen
  BY <1>5, <1>7
<1>10. flight[g].scope = Repository BY <1>4 DEF SoundFlight
<1>11. PICK left : left = LeaveMap(gone, Repository, "dropped") OBVIOUS
<1>12. Released(flight, g) = gone \/ Released(flight, g) = left
  BY <1>2, <1>3, <1>10, <1>11, <1>1 DEF Released
<1>13. SoundFlights(left) /\ \A f \in Flights : left[f].stage = gone[f].stage /\ left[f].key = gone[f].key /\ left[f].seen = gone[f].seen
  BY <1>8, <1>11, MapLeft DEF SameFlight
<1> QED BY <1>8, <1>9, <1>12, <1>13

LEMMA LandsKeeps ==
  ASSUME GitHubInv, NEW g \in Flights, ReadLands(g)
  PROVE  GitHubInv'
<1>1. /\ flight[g].stage = "pending" /\ flight[g].seen # None
      /\ flight' = [Released(flight, g) EXCEPT ![g].seen = @] /\ reader' = reader /\ UNCHANGED gitHubVars
  BY DEF ReadLands, Land
<1>2. SoundFlights(flight) BY DEF GitHubInv
<1>3. PICK next : next = Released(flight, g) OBVIOUS
<1>4. /\ SoundFlights(next)
      /\ \A f \in Flights : flight[f].stage # "free" => next[f].stage # "free" /\ next[f].key = flight[f].key /\ next[f].seen = flight[f].seen
  BY <1>1, <1>2, <1>3, ReleasedSound
<1>5. next = [f \in Flights |-> next[f]] /\ next[g] \in Flight BY <1>4 DEF SoundFlights, SoundFlight
<1>6. flight' = next
  <2>1. [next[g] EXCEPT !.seen = next[g].seen] = next[g] BY <1>5 DEF Flight
  <2> QED BY <2>1, <1>1, <1>3, <1>5
<1> QED BY <1>1, <1>4, <1>6, FlightsMove

\* Something happens on GitHub, or the account changes: what was seen remains what it was.
LEMMA MomentKeeps ==
  ASSUME GitHubInv, NEW github \in {GitHub(Now), GitHub(Now) + 1}, NEW account \in {AuthRevision, AuthRevision + 1},
         Moment(github, account), UNCHANGED <<readVars, settled, settledEpoch, call, changed, reported, missed>>
  PROVE  GitHubInv'
<1>1. /\ Forward /\ SoundFlights(flight) /\ reader \in [Readers -> Reader] /\ call \in [Readers -> CallTypes]
      /\ (\A r \in Readers : SoundCall(r)) /\ KeptSoundly /\ AnswersKeepUp /\ settledEpoch \in Nat /\ reported \in Nat
  BY DEF GitHubInv
<1>2. /\ Now \in 1..MaxMoments /\ MaxMoments \in Nat /\ AuthRevision \in Nat /\ GitHub(Now) \in Nat /\ AuthRevision < Now
      /\ \A m \in 1..Now : /\ GitHub(m) \in Nat /\ moments[m].account \in Nat /\ moments[m].account < m
                           /\ GitHub(m) <= GitHub(Now) /\ moments[m].account <= AuthRevision
      /\ \A m, n \in 1..Now : m <= n => GitHub(m) <= GitHub(n) /\ moments[m].account <= moments[n].account
  <2>1. Now \in 1..MaxMoments /\ MaxMoments \in Nat BY <1>1, AccountNow
  <2>2. Now \in 1..Now BY <2>1
  <2>3. AuthRevision < Now BY <1>1, <2>2 DEF Forward, AuthRevision
  <2> QED BY <1>1, <2>1, <2>3, AccountNow DEF Forward
<1>3. PICK last : last = [github |-> github, account |-> account] OBVIOUS
<1>4. /\ github \in Nat /\ account \in Nat /\ github >= GitHub(Now) /\ account >= AuthRevision /\ account < Now + 1
      /\ last \in [github : Nat, account : Nat] /\ last.github = github /\ last.account = account
  BY <1>2, <1>3
<1>5. PICK n : n = Now OBVIOUS
<1>6. /\ n \in Nat \ {0} /\ n < MaxMoments /\ moments' \in Seq([github : Nat, account : Nat]) /\ Now' = n + 1
      /\ \A m \in 1..n : moments'[m] = moments[m]
      /\ moments'[n + 1] = last
  <2>1. moments \in Seq([github : Nat, account : Nat]) /\ moments' = Append(moments, last) /\ n = Len(moments)
    BY <1>1, <1>3, <1>5 DEF Moment, Forward, Now
  <2>2. PICK S : S = [github : Nat, account : Nat] OBVIOUS
  <2>3. moments' \in Seq(S) /\ Len(moments') = n + 1 /\ (\A m \in 1..n : moments'[m] = moments[m]) /\ moments'[n + 1] = last
    BY <2>1, <2>2, <1>4, AppendProperties
  <2>4. n \in Nat \ {0} /\ n < MaxMoments BY <1>2, <1>5 DEF Moment
  <2> QED BY <2>2, <2>3, <2>4 DEF Now
<1>7. \A m \in 1..n : m \in 1..Now' /\ GitHub(m)' = GitHub(m) /\ m \in 1..Now
  BY <1>5, <1>6 DEF GitHub
<1>8. GitHub(n + 1)' = github /\ AuthRevision' = account BY <1>4, <1>6 DEF GitHub, AuthRevision
<1>9. Forward'
  <2>1. Now' \in 1..MaxMoments BY <1>2, <1>6
  <2>2. \A m \in 1..Now' : moments'[m].account < m
    <3> TAKE m \in 1..Now'
    <3>1. CASE m \in 1..n BY <3>1, <1>2, <1>6, <1>7
    <3>2. CASE m = n + 1 BY <3>2, <1>4, <1>5, <1>6
    <3> QED BY <3>1, <3>2, <1>6
  <2>3. \A m, k \in 1..Now' : m <= k => GitHub(m)' <= GitHub(k)' /\ moments'[m].account <= moments'[k].account
    <3> SUFFICES ASSUME NEW m \in 1..Now', NEW k \in 1..Now', m <= k
                 PROVE  GitHub(m)' <= GitHub(k)' /\ moments'[m].account <= moments'[k].account
      OBVIOUS
    <3>1. CASE k \in 1..n
      <4>1. m \in 1..n BY <3>1, <1>6
      <4> QED BY <3>1, <4>1, <1>2, <1>6, <1>7
    <3>2. CASE k = n + 1 /\ m \in 1..n
      <4>1. GitHub(m) \in Nat /\ GitHub(m) <= GitHub(Now) /\ moments[m].account \in Nat /\ moments[m].account <= AuthRevision
        BY <3>2, <1>2, <1>7
      <4>2. GitHub(m)' = GitHub(m) /\ moments'[m] = moments[m] BY <3>2, <1>6, <1>7
      <4>3. GitHub(k)' = github /\ moments'[k].account = account BY <3>2, <1>4, <1>6, <1>8
      <4> QED BY <4>1, <4>2, <4>3, <1>2, <1>4
    <3>3. CASE k = n + 1 /\ m = n + 1
      <4>1. GitHub(k)' = github /\ GitHub(m)' = github /\ moments'[k].account = account /\ moments'[m].account = account
        BY <3>3, <1>4, <1>6, <1>8
      <4> QED BY <4>1, <1>4
    <3> QED BY <3>1, <3>2, <3>3, <1>6
  <2>4. changed' \in Nat /\ changed' <= GitHub(Now)'
    <3>1. GitHub(Now)' = github BY <1>6, <1>8 DEF GitHub
    <3> QED BY <3>1, <1>1, <1>2, <1>4 DEF Forward
  <2> QED BY <1>6, <2>1, <2>2, <2>3, <2>4 DEF Forward
<1>10. /\ flight' = flight /\ reader' = reader /\ call' = call /\ settled' = settled /\ settledEpoch' = settledEpoch
       /\ changed' = changed /\ reported' = reported /\ missed' = missed
  BY DEF readVars
<1>11. SoundFlights(flight)'
  <2>1. \A f \in Flights : SoundFlight(flight[f])'
    <3> TAKE f \in Flights
    <3>1. PICK x : x = flight[f] OBVIOUS
    <3>2. SoundFlight(x) BY <3>1, <1>1 DEF SoundFlights
    <3>3. x.stage # "free" => x.key[2] <= account
      <4>1. x.key \in Keys BY <3>2 DEF SoundFlight, Flight
      <4>2. x.key[2] \in Nat BY <4>1, ReadKeys
      <4> QED BY <3>2, <4>2, <1>2, <1>4 DEF SoundFlight
    <3>4. x.stage # "free" /\ x.seen # None => /\ x.seen \in 1..Now' /\ x.key[2] <= moments'[x.seen].account
                                               /\ x.gen = "current" => GitHub(x.seen)' >= changed
      <4> SUFFICES ASSUME x.stage # "free", x.seen # None
                   PROVE  /\ x.seen \in 1..Now' /\ x.key[2] <= moments'[x.seen].account
                          /\ x.gen = "current" => GitHub(x.seen)' >= changed
        OBVIOUS
      <4>1. x.seen \in 1..n /\ x.key[2] <= moments[x.seen].account /\ (x.gen = "current" => GitHub(x.seen) >= changed)
        BY <3>2, <1>5 DEF SoundFlight
      <4> QED BY <4>1, <1>6, <1>7
    <3>5. SoundFlight(x)' BY <3>2, <3>3, <3>4, <1>8, <1>10 DEF SoundFlight, GitHub
    <3>6. x = flight'[f] BY <3>1, <1>10
    <3> QED BY <3>5, <3>6 DEF SoundFlight, GitHub
  <2> QED BY <2>1, <1>1, <1>10 DEF SoundFlights
<1>12. ASSUME NEW r \in Readers PROVE SoundCall(r)'
  <2>1. SoundCall(r) /\ call[r] \in CallTypes BY <1>1
  <2>2. \A m : LateEnough(r, m) => LateEnough(r, m)'
    <3> SUFFICES ASSUME NEW m, LateEnough(r, m) PROVE LateEnough(r, m)'
      OBVIOUS
    <3>1. m \in 1..n BY <1>5 DEF LateEnough
    <3> QED BY <3>1, <1>6, <1>7, <1>10 DEF LateEnough
  <2>3. call[r].stage = "reading" => call[r].revision <= AuthRevision'
    <3> SUFFICES ASSUME call[r].stage = "reading" PROVE call[r].revision <= AuthRevision'
      OBVIOUS
    <3>1. call[r].revision \in Nat /\ call[r].revision <= AuthRevision
      BY <2>1 DEF CallTypes, SoundCall
    <3> QED BY <3>1, <1>2, <1>4, <1>8
  <2>4. call[r].stage = "forgetting" =>
          /\ call[r].value \in 1..Now' /\ moments'[call[r].value].account = call[r].account
          /\ GitHub(call[r].value)' >= call[r].asked.changed
    <3> SUFFICES ASSUME call[r].stage = "forgetting"
                 PROVE  /\ call[r].value \in 1..Now' /\ moments'[call[r].value].account = call[r].account
                        /\ GitHub(call[r].value)' >= call[r].asked.changed
      OBVIOUS
    <3>1. call[r].value \in 1..n /\ moments[call[r].value].account = call[r].account /\ GitHub(call[r].value) >= call[r].asked.changed
      BY <2>1, <1>5 DEF SoundCall
    <3> QED BY <3>1, <1>6, <1>7
  <2>5. \A x : Awaits(r, x) => Awaits(r, x)' BY <2>2, <1>10 DEF Awaits
  <2>6. PICK x : x = flight[reader[r].flight] OBVIOUS
  <2>7. Awaits(r, flight[reader[r].flight]) => Awaits(r, flight[reader[r].flight])'
    <3>1. Awaits(r, x)' => Awaits(r, flight[reader[r].flight])' BY <2>6, <1>10, <2>2 DEF Awaits
    <3> QED BY <2>5, <2>6, <3>1
  <2>8. LateEnough(r, reader[r].result) => LateEnough(r, reader[r].result)'
    <3>1. PICK m : m = reader[r].result OBVIOUS
    <3>2. LateEnough(r, m)' => LateEnough(r, reader[r].result)' BY <3>1, <1>10 DEF LateEnough
    <3> QED BY <2>2, <3>1, <3>2
  <2> QED BY <2>1, <2>3, <2>4, <2>7, <2>8, <1>10 DEF SoundCall, GitHub
<1>13. KeptSoundly'
  <2>1. ASSUME NEW k \in Kept, settled[k] # None
        PROVE  /\ settled[k].value \in 1..Now' /\ moments'[settled[k].value].account = settled[k].account
               /\ GitHub(settled[k].value)' >= changed
    <3>1. settled[k].value \in 1..n /\ moments[settled[k].value].account = settled[k].account /\ GitHub(settled[k].value) >= changed
      BY <2>1, <1>1, <1>5 DEF KeptSoundly, SoundlyKept
    <3> QED BY <3>1, <1>6, <1>7
  <2>2. \A k \in Kept : SoundlyKept(k)' BY <2>1, <1>10 DEF SoundlyKept, GitHub
  <2> QED BY <2>2, <1>1, <1>10 DEF KeptSoundly
<1>14. AnswersKeepUp' BY <1>1, <1>10 DEF AnswersKeepUp
<1> QED BY <1>1, <1>9, <1>10, <1>11, <1>12, <1>13, <1>14 DEF GitHubInv

\* What is kept is dropped, and the flights with it: all that follows began later.
LEMMA InvalidatedKeeps ==
  ASSUME GitHubInv, flight' = Invalidated(flight, Repository),
         UNCHANGED <<reader, moments, call, reported, missed>>,
         \/ UNCHANGED <<settled, settledEpoch, changed>>
         \/ /\ settled' = [k \in Kept |-> None] /\ settledEpoch' = settledEpoch + 1
            /\ changed' \in {changed, GitHub(Now)}
  PROVE  GitHubInv'
<1>1. /\ Forward /\ SoundFlights(flight) /\ reader \in [Readers -> Reader] /\ call \in [Readers -> CallTypes]
      /\ (\A r \in Readers : SoundCall(r)) /\ KeptSoundly /\ AnswersKeepUp /\ settledEpoch \in Nat /\ reported \in Nat
  BY DEF GitHubInv
<1>2. GitHub(Now) \in Nat /\ changed \in Nat /\ changed <= GitHub(Now)
  BY <1>1, AccountNow DEF Forward
<1>3. /\ changed' \in Nat /\ changed' >= changed /\ changed' <= GitHub(Now) /\ settledEpoch' \in Nat
      /\ (settledEpoch' = settledEpoch /\ changed' = changed) \/ settledEpoch' = settledEpoch + 1
  BY <1>1, <1>2
<1>4. /\ AuthRevision' = AuthRevision /\ Now' = Now /\ moments' = moments /\ reader' = reader /\ call' = call
      /\ \A m : GitHub(m)' = GitHub(m)
  BY DEF AuthRevision, Now, GitHub
<1>5. Forward' BY <1>1, <1>3, <1>4 DEF Forward
<1>6. SoundFlights(flight') /\ \A f \in Flights : SameFlight(flight'[f], flight[f]) /\ flight'[f].gen # "current"
  BY <1>1, MapLeft DEF Invalidated
<1>7. SoundFlights(flight)'
  <2>1. ASSUME NEW f \in Flights PROVE SoundFlight(flight[f])'
    <3>1. SoundFlight(flight'[f]) /\ flight'[f].gen # "current" BY <1>6 DEF SoundFlights
    <3> QED BY <3>1, <1>4 DEF SoundFlight
  <2> QED BY <2>1, <1>6 DEF SoundFlights
<1>8. ASSUME NEW r \in Readers PROVE SoundCall(r)'
  <2>1. SoundCall(r) /\ call[r] \in CallTypes BY <1>1
  <2>2. call[r].stage = "reading" => call[r].epoch \in Nat /\ call[r].epoch <= settledEpoch'
    BY <2>1, <1>1, <1>3 DEF SoundCall, CallTypes
  <2>3. call[r].stage # "none" => call[r].asked.changed <= changed'
    <3>1. call[r].stage # "none" => call[r].asked.changed \in Nat /\ call[r].asked.changed <= changed
      BY <2>1 DEF SoundCall, CallTypes
    <3> QED BY <3>1, <1>2, <1>3
  <2>4. ASSUME call[r].stage = "reading", NEW m, LateEnough(r, m) PROVE LateEnough(r, m)'
    <3>1. call[r].epoch = settledEpoch' => settledEpoch' = settledEpoch /\ changed' = changed
      <4>1. call[r].epoch <= settledEpoch /\ call[r].epoch \in Nat BY <2>1, <2>2, <2>4 DEF SoundCall
      <4> QED BY <4>1, <1>1, <1>3
    <3> QED BY <2>4, <3>1, <1>4 DEF LateEnough
  <2>5. ASSUME call[r].stage = "reading", reader[r].pc = "waiting"
        PROVE  /\ reader[r].flight \in Flights /\ Awaits(r, flight[reader[r].flight])'
    <3>1. PICK g \in Flights : g = reader[r].flight BY <2>5, <2>1 DEF SoundCall
    <3>2. Awaits(r, flight[g]) /\ SameFlight(flight'[g], flight[g])
      BY <2>5, <2>1, <3>1, <1>6 DEF SoundCall
    <3>3. PICK x : x = flight'[g] OBVIOUS
    <3>4. x.stage # "free" /\ x.key[2] = call[r].revision /\ (x.seen # None => LateEnough(r, x.seen))
      BY <3>2, <3>3 DEF Awaits, SameFlight
    <3>5. Awaits(r, x)' BY <3>4, <2>4, <2>5, <1>4 DEF Awaits
    <3>6. reader'[r].flight = g BY <3>1, <1>4
    <3> QED BY <3>1, <3>3, <3>5, <3>6 DEF Awaits, LateEnough
  <2>6. ASSUME call[r].stage = "reading", LateEnough(r, reader[r].result) PROVE LateEnough(r, reader[r].result)'
    <3>1. PICK m : m = reader[r].result OBVIOUS
    <3>2. LateEnough(r, m)' /\ m = reader'[r].result BY <2>4, <2>6, <3>1, <1>4
    <3> QED BY <3>2 DEF LateEnough
  <2> QED BY <2>1, <2>2, <2>3, <2>5, <2>6, <1>4 DEF SoundCall, GitHub
<1>9. KeptSoundly'
  <2>1. CASE UNCHANGED <<settled, settledEpoch, changed>>
    BY <2>1, <1>1, <1>4 DEF KeptSoundly, SoundlyKept
  <2>2. CASE settled' = [k \in Kept |-> None] BY <2>2 DEF KeptSoundly, SoundlyKept
  <2> QED BY <2>1, <2>2
<1>10. AnswersKeepUp' /\ reported' \in Nat BY <1>1 DEF AnswersKeepUp
<1> QED BY <1>1, <1>3, <1>4, <1>5, <1>7, <1>8, <1>9, <1>10 DEF GitHubInv

LEMMA ExpireKeeps ==
  ASSUME GitHubInv, Expire
  PROVE  GitHubInv'
<1>1. PICK j \in Kept : settled' = [settled EXCEPT ![j] = None] /\ UNCHANGED <<readVars, moments, settledEpoch, call, changed, reported, missed>>
  BY DEF Expire
<1>2. Elsewhere /\ flight' = flight /\ reader' = reader /\ call' = call /\ reported' = reported /\ missed' = missed
  BY <1>1 DEF Elsewhere, readVars
<1>3. /\ SoundFlights(flight') /\ reader \in [Readers -> Reader] /\ call \in [Readers -> CallTypes] /\ AnswersKeepUp'
      /\ reported' \in Nat /\ settled = [k \in Kept |-> settled[k]] /\ \A k \in Kept : SoundlyKept(k)
  BY <1>2 DEF GitHubInv, KeptSoundly, AnswersKeepUp
<1>4. settled' = [k \in Kept |-> settled'[k]] /\ \A k \in Kept : settled'[k] = None \/ settled'[k] = settled[k]
  BY <1>1, <1>3
<1>5. \A k \in Kept : SoundlyKept(k)' BY <1>2, <1>3, <1>4, SameMoments DEF SoundlyKept
<1>6. KeptSoundly' BY <1>4, <1>5 DEF KeptSoundly
<1>7. ASSUME NEW q \in Readers PROVE SoundCall(q)'
  <2>1. reader[q].pc = "waiting" => Awaits(q, flight'[reader[q].flight]) BY <1>2, OthersAwait
  <2> QED BY <2>1, <1>2, CallStays
<1> QED BY <1>2, <1>3, <1>6, <1>7, CallsMove

\* Nothing is read at first.
LEMMA GitHubBegins ==
  ASSUME GitHubReadsInit
  PROVE  GitHubInv
<1>1. /\ moments = <<[github |-> 0, account |-> 0]>> /\ changed = 0 /\ reported = 0 /\ settledEpoch = 0 /\ missed = {}
      /\ settled = [k \in Kept |-> None] /\ call = [r \in Readers |-> NoCall]
      /\ flight = [f \in Flights |-> FreeFlight] /\ reader = [r \in Readers |-> IdleReader]
  BY DEF GitHubReadsInit, ReadInit
<1>2. Forward
  <2>1. PICK first : first = [github |-> 0, account |-> 0] OBVIOUS
  <2>2. first \in [github : Nat, account : Nat] /\ first.github = 0 /\ first.account = 0 BY <2>1
  <2>3. moments = <<first>> /\ Len(moments) = 1 /\ moments[1] = first BY <2>1, <1>1
  <2>4. moments \in Seq([github : Nat, account : Nat]) BY <2>2, <2>3
  <2>5. Now = 1 /\ 1 \in 1..MaxMoments BY <2>3, GitHubReadsAssumption DEF Now
  <2>6. GitHub(1) = 0 /\ moments[1].account = 0 BY <2>2, <2>3 DEF GitHub
  <2> QED BY <2>4, <2>5, <2>6, <1>1 DEF Forward
<1>3. SoundFlights(flight) BY <1>1, FreeIsSound DEF SoundFlights
<1>4. reader \in [Readers -> Reader] /\ call \in [Readers -> CallTypes] BY <1>1, IdleType
<1>5. \A r \in Readers : SoundCall(r) BY <1>1 DEF SoundCall, NoCall, IdleReader
<1>6. KeptSoundly BY <1>1 DEF KeptSoundly, SoundlyKept
<1> QED BY <1>1, <1>2, <1>3, <1>4, <1>5, <1>6 DEF GitHubInv, AnswersKeepUp

LEMMA GitHubStutters ==
  ASSUME GitHubInv, UNCHANGED gitHubReadVars
  PROVE  GitHubInv'
<1>1. Elsewhere /\ flight' = flight /\ reader' = reader /\ call' = call /\ reported' = reported /\ missed' = missed /\ settled' = settled
  BY DEF Elsewhere, gitHubReadVars, readVars, gitHubVars
<1>2. /\ SoundFlights(flight') /\ reader \in [Readers -> Reader] /\ call \in [Readers -> CallTypes] /\ AnswersKeepUp'
      /\ reported' \in Nat /\ KeptSoundly'
  BY <1>1, KeptStays DEF GitHubInv, AnswersKeepUp
<1>3. ASSUME NEW q \in Readers PROVE SoundCall(q)'
  <2>1. reader[q].pc = "waiting" => Awaits(q, flight'[reader[q].flight]) BY <1>1, OthersAwait
  <2> QED BY <2>1, <1>1, CallStays
<1> QED BY <1>1, <1>2, <1>3, CallsMove

LEMMA GitHubReadsStep == GitHubInv /\ [GitHubReadsNext]_gitHubReadVars => GitHubInv'
<1> SUFFICES ASSUME GitHubInv, [GitHubReadsNext]_gitHubReadVars PROVE GitHubInv'
  OBVIOUS
<1>1. GitHub(Now) + 1 \in {GitHub(Now), GitHub(Now) + 1} /\ GitHub(Now) \in {GitHub(Now), GitHub(Now) + 1}
      /\ AuthRevision + 1 \in {AuthRevision, AuthRevision + 1} /\ AuthRevision \in {AuthRevision, AuthRevision + 1}
  OBVIOUS
<1>2. CASE OthersChange BY <1>1, <1>2, MomentKeeps DEF OthersChange
<1>3. CASE AccountChanges BY <1>1, <1>3, MomentKeeps DEF AccountChanges
<1>4. CASE GitHubDoesIt BY <1>1, <1>4, MomentKeeps DEF GitHubDoesIt
<1>5. CASE GitWrites BY <1>5, InvalidatedKeeps DEF GitWrites
<1>6. CASE BeginMutation BY <1>6, InvalidatedKeeps DEF BeginMutation, Invalidate
<1>7. CASE EndMutation BY <1>7, InvalidatedKeeps DEF EndMutation, Invalidate
<1>8. CASE Expire BY <1>8, ExpireKeeps
<1>9. CASE \E f \in Flights : ReadLooks(f) \/ ReadLands(f) BY <1>9, LooksKeeps, LandsKeeps
<1>10. ASSUME NEW r \in Readers,
              \/ \E resource \in Resources : Call(r, resource)
              \/ Hit(r) \/ Miss(r) \/ ReadReturns(r) \/ ReadRetries(r) \/ ReadAgain(r) \/ GiveUp(r)
              \/ SettledEnds(r) \/ LiveStateRead(r) \/ ForgetOutdated(r)
       PROVE  GitHubInv'
  BY <1>10, CallKeeps, HitKeeps, MissKeeps, ReturnsKeeps, RetriesKeeps, ReadAgainKeeps, GiveUpKeeps, SettledEndsKeeps,
     LiveStateReadKeeps, ForgetOutdatedKeeps
<1>11. CASE UNCHANGED gitHubReadVars BY <1>11, GitHubStutters
<1> QED BY <1>2, <1>3, <1>4, <1>5, <1>6, <1>7, <1>8, <1>9, <1>10, <1>11 DEF GitHubReadsNext

\* Answers are of the account in use and no older than the program's own changes, for any number
\* of readers, changes and attempts.
THEOREM AnswersStayUpToDate == GitHubReadsSpec => []AnswersKeepUp
<1>1. GitHubReadsInit => GitHubInv BY GitHubBegins
<1>2. GitHubInv => AnswersKeepUp BY DEF GitHubInv
<1> QED BY <1>1, <1>2, GitHubReadsStep, PTL DEF GitHubReadsSpec

------------------------------
(* What is known of the command line programs.  An inspection that is still *)
(* pending began after all that an answer has to know, and sees the machine *)
(* after it began; one that is not is only answered to those who asked before.*)

\* What an answer must not be older than.
Floor == LaterOf(invalidated, refreshed)

\* What is in the cache is shown.
InUse == statusCache # Unknown /\ statusCache.key = paths

StatusTypes ==
  /\ paths \in ExecutablePaths /\ installed \in 0..MaxInstalls /\ installed = counts.installs
  /\ settingPaths \in ExecutablePaths \cup {Unknown}
  /\ counts \in [installs : Nat, paths : Nat, checks : Nat, restarts : Nat]
  /\ resolver \in [settingsKey : ExecutablePaths \cup {Unknown}, generation : Nat, cache : Value \cup {Unknown}]
  /\ statusGeneration \in Nat /\ statusCache \in KeyedValue \cup {Unknown} /\ statusInvalidated \in BOOLEAN
  /\ pendingStatus \in Watchers \cup {Unknown}
  /\ inspections \in [Watchers -> Inspection \cup {Unknown}] /\ waits \in [Watchers -> Question \cup {Unknown}]
  /\ stored \in KeyedValue \cup {Unknown} /\ storing \in Seq(KeyedValue)
  /\ invalidated \in 0..installed /\ refreshed \in 0..installed
  /\ misled \subseteq {"paths", "installed"} /\ outrun \in BOOLEAN

\* The inspection that is pending is the last that began; another one will not be kept.
Ordered(c) ==
  inspections[c] # Unknown =>
    /\ inspections[c].generation <= statusGeneration
    /\ inspections[c].generation = statusGeneration <=> pendingStatus = c

\* An inspection looks at the file unless it is forced; the discovery that it waits for is of the
\* paths it began with.
SoundInspection(i) ==
  /\ i.stage = "loading" => ~i.force
  /\ i.stage = "inspected" => i.value.installed <= installed
  /\ i.stage = "discovering" =>
       /\ i.discovery <= resolver.generation
       /\ i.discovery = resolver.generation => i.paths = resolver.settingsKey

\* The value is of the paths that the inspection is for.
OfItsPaths(i) ==
  /\ i.stage = "discovering" => i.paths = paths
  /\ i.stage = "inspected" => i.value.paths = paths

OfItsKey(kept) == kept.key = kept.value.paths

\* The inspection that is pending.
PendingSound(i) ==
  /\ settingPaths = Unknown => i.key = paths
  /\ i.key = paths => OfItsPaths(i)
  /\ i.stage = "inspected" => i.value.installed >= Floor
  /\ i.stage = "loading" => ~statusInvalidated /\ (settingPaths = Unknown => ~InUse)

\* Whoever waits for the inspection i gets what was asked for.
WaiterSound(asked, i) ==
  asked.saved =>
    /\ asked.floor <= installed /\ asked.changes <= counts.paths
    /\ i.stage = "inspected" => i.value.installed >= asked.floor
    /\ i.stage = "loading" => asked.floor = 0
    /\ asked.changes = counts.paths => settingPaths = Unknown /\ i.key = paths /\ OfItsPaths(i)

CacheSound ==
  /\ statusCache # Unknown => OfItsKey(statusCache)
  /\ stored # Unknown => OfItsKey(stored)
  /\ \A n \in 1..Len(storing) : OfItsKey(storing[n])
  /\ settingPaths = Unknown /\ InUse => statusCache.value.installed >= Floor
  /\ settingPaths = Unknown /\ ~statusInvalidated /\ ~InUse => Floor = 0

\* As long as no inspection was kept while a change of the paths was being saved.
StatusesSound ==
  /\ misled = {} /\ CacheSound
  /\ \A c \in Watchers : pendingStatus = c => PendingSound(inspections[c])
  /\ \A d \in Watchers : waits[d] # Unknown => WaiterSound(waits[d], inspections[waits[d].on])

StatusInv ==
  /\ StatusTypes
  /\ \A c \in Watchers : Ordered(c) /\ (pendingStatus = c => inspections[c] # Unknown)
  /\ \A c \in Watchers : waits[c] # Unknown => inspections[waits[c].on] # Unknown
  /\ \A c \in Watchers : inspections[c] # Unknown => SoundInspection(inspections[c])
  /\ resolver.cache # Unknown => resolver.cache.paths = resolver.settingsKey
  /\ outrun \/ StatusesSound

\* It may still be given what the discovery has cached.
MayBeCached(i) == i.stage \in {"loading", "inspecting"} /\ ~i.force

\* What the discovery has cached is late enough for all who may still be given it: only a forced
\* check learns of something newer, and its result is then shown until the paths change.
CacheKnows ==
  /\ resolver.cache # Unknown =>
       /\ settingPaths = Unknown => resolver.settingsKey = paths
       /\ resolver.settingsKey = paths /\ ~InUse => resolver.cache.installed >= Floor
       /\ \A d \in Watchers : waits[d] # Unknown /\ waits[d].saved /\ MayBeCached(inspections[waits[d].on]) =>
                              resolver.cache.installed >= waits[d].floor
  /\ \A c \in Watchers :
       /\ pendingStatus = c => (~inspections[c].force \/ inspections[c].key # paths => ~InUse)
       /\ settingPaths = Unknown /\ inspections[c] # Unknown /\ inspections[c].stage = "discovering" =>
            (inspections[c].discovery = resolver.generation => resolver.settingsKey = paths)
  /\ statusCache # Unknown /\ settingPaths = Unknown => InUse

StatusKept ==
  /\ StatusInv /\ (resolver.cache # Unknown => resolver.cache.installed <= installed)
  /\ outrun \/ CacheKnows

\* What inspections, questions and values are.
LEMMA InspectionIs ==
  ASSUME NEW i \in Inspection
  PROVE  /\ i # Unknown /\ i.stage \in {"loading", "inspecting", "discovering", "inspected"}
         /\ i.key \in ExecutablePaths /\ i.force \in BOOLEAN /\ i.generation \in Nat
         /\ i.stage = "discovering" => i.discovery \in Nat /\ i.paths \in ExecutablePaths
         /\ i.stage = "inspected" => i.value \in Value
BY StatusesAssumption DEF Inspection

LEMMA QuestionIs ==
  ASSUME NEW q \in Question
  PROVE  /\ q # Unknown /\ q.on \in Watchers /\ q.changes \in Nat /\ q.saved \in BOOLEAN
         /\ q.floor \in 0..MaxInstalls /\ q.floor \in Nat /\ MaxInstalls \in Nat
<1>1. MaxInstalls \in Nat /\ Unknown \notin Question BY StatusesAssumption
<1> QED BY <1>1 DEF Question

LEMMA ValueIs ==
  /\ MaxInstalls \in Nat /\ Unknown \notin Value /\ Unknown \notin KeyedValue /\ Unknown \notin ExecutablePaths \cup Watchers
  /\ \A v \in Value : v.paths \in ExecutablePaths /\ v.installed \in 0..MaxInstalls /\ v.installed \in Nat
  /\ \A x \in KeyedValue : x.key \in ExecutablePaths /\ x.value \in Value
<1>1. MaxInstalls \in Nat /\ Unknown \notin Value /\ Unknown \notin KeyedValue /\ Unknown \notin ExecutablePaths \cup Watchers
  BY StatusesAssumption
<1> QED BY <1>1 DEF Value, KeyedValue

LEMMA LaterOfIs ==
  \A m, n \in Nat : LaterOf(m, n) \in Nat /\ LaterOf(m, n) >= m /\ LaterOf(m, n) >= n /\ LaterOf(m, n) \in {m, n}
BY DEF LaterOf

\* What is counted.
LEMMA CountIs ==
  ASSUME NEW what \in {"installs", "paths", "checks", "restarts"}, NEW max,
         counts \in [installs : Nat, paths : Nat, checks : Nat, restarts : Nat], Count(what, max)
  PROVE  /\ counts' \in [installs : Nat, paths : Nat, checks : Nat, restarts : Nat]
         /\ counts[what] < max /\ counts'[what] = counts[what] + 1
         /\ \A other \in {"installs", "paths", "checks", "restarts"} \ {what} : counts'[other] = counts[other]
<1>1. counts[what] \in Nat OBVIOUS
<1>2. PICK n \in Nat : n = counts[what] + 1 BY <1>1
<1>3. counts' = [counts EXCEPT ![what] = n] /\ counts[what] < max BY <1>2 DEF Count
<1> QED BY <1>2, <1>3

\* The bounds of what an answer has to know.
LEMMA FloorIs ==
  ASSUME StatusTypes
  PROVE  /\ Floor \in 0..installed /\ Floor \in Nat /\ installed \in Nat /\ invalidated \in Nat /\ refreshed \in Nat
         /\ installed \in 0..MaxInstalls /\ MaxInstalls \in Nat /\ Floor \in 0..MaxInstalls
<1>1. installed \in 0..MaxInstalls /\ MaxInstalls \in Nat /\ invalidated \in 0..installed /\ refreshed \in 0..installed
  BY ValueIs DEF StatusTypes
<1> QED BY <1>1 DEF Floor, LaterOf

\* A question.
LEMMA AskedIs ==
  ASSUME StatusTypes, NEW on \in Watchers
  PROVE  /\ Asked(on) \in Question /\ Asked(on).on = on /\ Asked(on).changes = counts.paths
         /\ Asked(on).saved = (settingPaths = Unknown) /\ Asked(on).floor = Floor
<1>1. Floor \in 0..MaxInstalls /\ counts.paths \in Nat /\ (settingPaths = Unknown) \in BOOLEAN
  BY FloorIs DEF StatusTypes
<1>2. PICK saved \in BOOLEAN : saved = (settingPaths = Unknown) BY <1>1
<1>3. Asked(on) = [on |-> on, changes |-> counts.paths, saved |-> saved, floor |-> Floor]
  BY <1>2 DEF Asked, Floor
<1> QED BY <1>1, <1>2, <1>3 DEF Question

LEMMA InstallTypes == ASSUME StatusTypes, Install PROVE StatusTypes'
<1>1. /\ counts \in [installs : Nat, paths : Nat, checks : Nat, restarts : Nat] /\ Count("installs", MaxInstalls)
      /\ installed' = installed + 1 /\ installed = counts.installs
  BY DEF StatusTypes, Install
<1>2. /\ counts' \in [installs : Nat, paths : Nat, checks : Nat, restarts : Nat]
      /\ counts.installs < MaxInstalls /\ counts'.installs = counts.installs + 1
  BY <1>1, CountIs
<1>3. installed' \in 0..MaxInstalls /\ installed' = counts'.installs /\ invalidated' \in 0..installed' /\ refreshed' \in 0..installed'
  <2>1. invalidated' = invalidated /\ refreshed' = refreshed BY DEF Install, historyVars
  <2> QED BY <1>1, <1>2, <2>1, FloorIs DEF StatusTypes
<1> QED BY <1>2, <1>3 DEF StatusTypes, Install, cacheVars, callVars, storeVars, historyVars

LEMMA SetPathsTypes == ASSUME StatusTypes, SetPaths PROVE StatusTypes'
<1>1. counts \in [installs : Nat, paths : Nat, checks : Nat, restarts : Nat] /\ Count("paths", MaxPaths)
  BY DEF StatusTypes, SetPaths
<1>2. counts' \in [installs : Nat, paths : Nat, checks : Nat, restarts : Nat] /\ counts'.installs = counts.installs
  BY <1>1, CountIs
<1> QED BY <1>2 DEF StatusTypes, SetPaths, cacheVars, callVars, storeVars, historyVars

LEMMA PathsSavedTypes == ASSUME StatusTypes, PathsSaved PROVE StatusTypes'
<1>1. invalidated' \in 0..installed' BY FloorIs DEF PathsSaved
<1>2. resolver' \in [settingsKey : ExecutablePaths \cup {Unknown}, generation : Nat, cache : Value \cup {Unknown}]
  <2>1. resolver \in [settingsKey : ExecutablePaths \cup {Unknown}, generation : Nat, cache : Value \cup {Unknown}]
    BY DEF StatusTypes
  <2>2. PICK n \in Nat : n = resolver.generation + 1 BY <2>1
  <2>3. resolver' = [resolver EXCEPT !.generation = n, !.cache = Unknown] BY <2>2 DEF PathsSaved
  <2> QED BY <2>1, <2>3
<1>3. statusGeneration' \in Nat BY DEF StatusTypes, PathsSaved, InvalidatesPending
<1> QED BY <1>1, <1>2, <1>3 DEF StatusTypes, PathsSaved, callVars, storeVars

LEMMA RestartTypes == ASSUME StatusTypes, Restart PROVE StatusTypes'
<1>1. counts \in [installs : Nat, paths : Nat, checks : Nat, restarts : Nat] /\ Count("restarts", MaxAppRestarts)
  BY DEF StatusTypes, Restart
<1>2. counts' \in [installs : Nat, paths : Nat, checks : Nat, restarts : Nat] /\ counts'.installs = counts.installs
  BY <1>1, CountIs
<1>3. /\ resolver' \in [settingsKey : ExecutablePaths \cup {Unknown}, generation : Nat, cache : Value \cup {Unknown}]
      /\ inspections' \in [Watchers -> Inspection \cup {Unknown}] /\ waits' \in [Watchers -> Question \cup {Unknown}]
      /\ storing' \in Seq(KeyedValue)
  BY DEF Restart
<1>4. installed' = installed /\ invalidated' \in 0..installed' /\ refreshed' \in 0..installed'
  BY FloorIs DEF Restart
<1> QED BY <1>2, <1>3, <1>4 DEF StatusTypes, Restart

LEMMA StoreWrittenTypes == ASSUME StatusTypes, StoreWritten PROVE StatusTypes'
<1>1. storing \in Seq(KeyedValue) /\ storing # <<>> BY DEF StatusTypes, StoreWritten
<1>2. storing' \in Seq(KeyedValue) /\ stored' \in KeyedValue \cup {Unknown}
  BY <1>1, HeadTailProperties DEF StatusTypes, StoreWritten
<1> QED BY <1>2 DEF StatusTypes, StoreWritten, cacheVars, callVars, historyVars

LEMMA CachedTypes == ASSUME StatusTypes, NEW c \in Watchers, Cached(c) PROVE StatusTypes'
<1>1. counts \in [installs : Nat, paths : Nat, checks : Nat, restarts : Nat] /\ Count("checks", MaxChecks)
  BY DEF StatusTypes, Cached
<1>2. counts' \in [installs : Nat, paths : Nat, checks : Nat, restarts : Nat] /\ counts'.installs = counts.installs
  BY <1>1, CountIs
<1>3. misled' \subseteq {"paths", "installed"} BY DEF Cached, Wrong, StatusTypes
<1> QED BY <1>2, <1>3 DEF StatusTypes, Cached, cacheVars, callVars, storeVars

LEMMA JoinTypes == ASSUME StatusTypes, NEW c \in Watchers, NEW force \in BOOLEAN, Join(c, force) PROVE StatusTypes'
<1>1. counts \in [installs : Nat, paths : Nat, checks : Nat, restarts : Nat] /\ Count("checks", MaxChecks)
  BY DEF StatusTypes, Join
<1>2. counts' \in [installs : Nat, paths : Nat, checks : Nat, restarts : Nat] /\ counts'.installs = counts.installs
  BY <1>1, CountIs
<1>3. pendingStatus \in Watchers BY DEF StatusTypes, Join, Joins
<1>4. waits' \in [Watchers -> Question \cup {Unknown}] BY <1>3, AskedIs DEF Join, StatusTypes
<1> QED BY <1>2, <1>4 DEF StatusTypes, Join, cacheVars, storeVars, historyVars

LEMMA BeginCheckTypes ==
  ASSUME StatusTypes, NEW c \in Watchers, NEW force \in BOOLEAN, BeginCheck(c, force)
  PROVE  /\ StatusTypes'
         /\ \E i \in Inspection : /\ inspections' = [inspections EXCEPT ![c] = i] /\ i.key = paths /\ i.force = force
                                  /\ i.generation = statusGeneration + 1
                                  /\ i.stage = IF ~force /\ ~statusInvalidated THEN "loading" ELSE "inspecting"
<1>1. counts \in [installs : Nat, paths : Nat, checks : Nat, restarts : Nat] /\ Count("checks", MaxChecks)
  BY DEF StatusTypes, BeginCheck
<1>2. counts' \in [installs : Nat, paths : Nat, checks : Nat, restarts : Nat] /\ counts'.installs = counts.installs
  BY <1>1, CountIs
<1>3. waits' \in [Watchers -> Question \cup {Unknown}] BY AskedIs DEF BeginCheck, StatusTypes
<1>4. PICK n \in Nat : n = statusGeneration + 1 BY DEF StatusTypes
<1>5. PICK i : i = [stage |-> IF ~force /\ ~statusInvalidated THEN "loading" ELSE "inspecting",
                    key |-> paths, force |-> force, generation |-> n]
  OBVIOUS
<1>6. i \in Inspection BY <1>4, <1>5 DEF Inspection, StatusTypes
<1>7. inspections' = [inspections EXCEPT ![c] = i] BY <1>4, <1>5 DEF BeginCheck
<1>8. StatusTypes'
  <2>1. inspections' \in [Watchers -> Inspection \cup {Unknown}] /\ statusGeneration' \in Nat /\ pendingStatus' \in Watchers
    BY <1>4, <1>6, <1>7 DEF StatusTypes, BeginCheck
  <2> QED BY <1>2, <1>3, <2>1 DEF StatusTypes, BeginCheck, storeVars, historyVars
<1>9. i.key = paths /\ i.force = force /\ i.generation = statusGeneration + 1
      /\ i.stage = IF ~force /\ ~statusInvalidated THEN "loading" ELSE "inspecting"
  BY <1>4, <1>5
<1> QED BY <1>6, <1>7, <1>8, <1>9

\* The end of an inspection.
LEMMA EndsTypes ==
  ASSUME StatusTypes, NEW c \in Watchers, NEW v \in Value, Ends(c, v),
         v.installed <= installed \/ ~inspections[c].force
  PROVE  /\ inspections' \in [Watchers -> Inspection \cup {Unknown}] /\ waits' \in [Watchers -> Question \cup {Unknown}]
         /\ pendingStatus' \in Watchers \cup {Unknown} /\ misled' \subseteq {"paths", "installed"}
         /\ refreshed' \in 0..installed /\ invalidated' = invalidated /\ installed' = installed /\ paths' = paths
         /\ settingPaths' = settingPaths /\ counts' = counts
         /\ refreshed' \in {refreshed, LaterOf(refreshed, v.installed)}
<1>1. v.installed \in Nat /\ refreshed \in 0..installed /\ installed \in Nat
  BY ValueIs, FloorIs DEF StatusTypes
<1>2. refreshed' \in 0..installed BY <1>1 DEF LaterOf, Ends
<1>3. misled' \subseteq {"paths", "installed"}
  <2>1. misled \subseteq {"paths", "installed"} /\ \A asked : Wrong(asked, v) \subseteq {"paths", "installed"}
    BY DEF StatusTypes, Wrong
  <2>2. UNION {Wrong(waits[d], v) : d \in {e \in Watchers : waits[e] # Unknown /\ waits[e].on = c}} \subseteq {"paths", "installed"}
    BY <2>1
  <2> QED BY <2>1, <2>2 DEF Ends
<1>4. refreshed' \in {refreshed, LaterOf(refreshed, v.installed)} BY DEF Ends
<1>5. inspections' \in [Watchers -> Inspection \cup {Unknown}] /\ waits' \in [Watchers -> Question \cup {Unknown}] /\ pendingStatus' \in Watchers \cup {Unknown}
  BY DEF Ends, StatusTypes
<1> QED BY <1>1, <1>2, <1>3, <1>4, <1>5 DEF Ends

\* The parts of the invariant.
LEMMA StatusParts ==
  ASSUME StatusInv
  PROVE  /\ StatusTypes /\ (resolver.cache # Unknown => resolver.cache.paths = resolver.settingsKey) /\ (outrun \/ StatusesSound)
         /\ \A c \in Watchers :
              /\ Ordered(c) /\ (pendingStatus = c => inspections[c] # Unknown)
              /\ inspections[c] # Unknown => inspections[c] \in Inspection /\ SoundInspection(inspections[c])
              /\ waits[c] # Unknown => /\ waits[c] \in Question /\ waits[c].on \in Watchers
                                       /\ inspections[waits[c].on] # Unknown /\ inspections[waits[c].on] \in Inspection
<1>1. StatusTypes /\ \A c \in Watchers : waits[c] # Unknown => inspections[waits[c].on] # Unknown
  BY DEF StatusInv
<1>2. inspections \in [Watchers -> Inspection \cup {Unknown}] /\ waits \in [Watchers -> Question \cup {Unknown}]
  BY <1>1 DEF StatusTypes
<1>3. \A c \in Watchers : inspections[c] # Unknown => inspections[c] \in Inspection BY <1>2
<1>4. \A c \in Watchers : waits[c] # Unknown => waits[c] \in Question /\ waits[c].on \in Watchers
  BY <1>2, QuestionIs
<1> QED BY <1>1, <1>3, <1>4 DEF StatusInv

LEMMA InstallKeeps == ASSUME StatusInv, Install PROVE StatusInv'
<1>1. StatusTypes' /\ StatusTypes BY StatusParts, InstallTypes
<1>2. /\ installed' = installed + 1 /\ installed \in Nat /\ counts'.paths = counts.paths
      /\ UNCHANGED <<paths, settingPaths, resolver, statusGeneration, statusCache, statusInvalidated, pendingStatus,
                     inspections, waits, stored, storing, invalidated, refreshed, misled, outrun>>
  <2>1. counts'.paths = counts.paths BY <1>1, CountIs DEF Install, StatusTypes
  <2> QED BY <1>1, <2>1, FloorIs DEF Install, cacheVars, callVars, storeVars, historyVars
<1>3. \A c \in Watchers : Ordered(c)' BY <1>2, StatusParts DEF Ordered
<1>4. ASSUME NEW c \in Watchers, inspections[c] # Unknown PROVE SoundInspection(inspections[c])'
  <2>1. inspections[c] \in Inspection /\ SoundInspection(inspections[c]) BY <1>4, StatusParts
  <2>2. inspections[c].stage = "inspected" => inspections[c].value.installed \in Nat
    BY <2>1, InspectionIs, ValueIs
  <2> QED BY <2>1, <2>2, <1>2 DEF SoundInspection
<1>5. ASSUME StatusesSound PROVE StatusesSound'
  <2>1. CacheSound' BY <1>2, <1>5 DEF StatusesSound, CacheSound, InUse, Floor, OfItsKey
  <2>2. ASSUME NEW c \in Watchers, pendingStatus' = c PROVE PendingSound(inspections[c])'
    BY <1>2, <1>5, <2>2 DEF StatusesSound, PendingSound, InUse, Floor, OfItsPaths
  <2>3. ASSUME NEW d \in Watchers, waits'[d] # Unknown PROVE WaiterSound(waits[d], inspections[waits[d].on])'
    <3>1. WaiterSound(waits[d], inspections[waits[d].on]) /\ waits[d] \in Question /\ waits'[d] = waits[d] /\ inspections' = inspections
      BY <1>2, <1>5, <2>3, StatusParts DEF StatusesSound
    <3>2. waits[d].floor \in Nat BY <3>1, QuestionIs
    <3> QED BY <3>1, <3>2, <1>2 DEF WaiterSound, OfItsPaths
  <2> QED BY <2>1, <2>2, <2>3, <1>2, <1>5 DEF StatusesSound
<1> QED BY <1>1, <1>2, <1>3, <1>4, <1>5, StatusParts DEF StatusInv

LEMMA SetPathsKeeps == ASSUME StatusInv, SetPaths PROVE StatusInv'
<1>1. StatusTypes' /\ StatusTypes BY StatusParts, SetPathsTypes
<1>2. /\ settingPaths = Unknown /\ settingPaths' # Unknown /\ paths' # paths /\ counts'.paths = counts.paths + 1 /\ counts.paths \in Nat
      /\ UNCHANGED <<installed, resolver, statusGeneration, statusCache, statusInvalidated, pendingStatus,
                     inspections, waits, stored, storing, invalidated, refreshed, misled, outrun>>
  <2>1. counts'.paths = counts.paths + 1 /\ counts.paths \in Nat
    BY <1>1, CountIs DEF SetPaths, StatusTypes
  <2>2. paths # Unknown BY <1>1, ValueIs DEF StatusTypes
  <2> QED BY <2>1, <2>2 DEF SetPaths, cacheVars, callVars, storeVars, historyVars
<1>3. \A c \in Watchers : Ordered(c)' BY <1>2, StatusParts DEF Ordered
<1>4. \A c \in Watchers : inspections'[c] # Unknown => SoundInspection(inspections[c])'
  BY <1>2, StatusParts DEF SoundInspection
<1>5. ASSUME StatusesSound PROVE StatusesSound'
  <2>1. CacheSound' BY <1>2, <1>5 DEF StatusesSound, CacheSound, OfItsKey
  <2>2. ASSUME NEW c \in Watchers, pendingStatus' = c PROVE PendingSound(inspections[c])'
    BY <1>2, <1>5, <2>2 DEF StatusesSound, PendingSound, Floor
  <2>3. ASSUME NEW d \in Watchers, waits'[d] # Unknown PROVE WaiterSound(waits[d], inspections[waits[d].on])'
    <3>1. WaiterSound(waits[d], inspections[waits[d].on]) /\ waits[d] \in Question /\ waits'[d] = waits[d] /\ inspections' = inspections
      BY <1>2, <1>5, <2>3, StatusParts DEF StatusesSound
    <3>2. waits[d].changes \in Nat BY <3>1, QuestionIs
    <3>3. waits[d].saved => waits[d].changes <= counts'.paths /\ waits[d].changes # counts'.paths
      BY <3>1, <3>2, <1>2 DEF WaiterSound
    <3> QED BY <3>1, <3>3, <1>2 DEF WaiterSound
  <2> QED BY <2>1, <2>2, <2>3, <1>2, <1>5 DEF StatusesSound
<1> QED BY <1>1, <1>2, <1>3, <1>4, <1>5, StatusParts DEF StatusInv

LEMMA PathsSavedKeeps == ASSUME StatusInv, PathsSaved PROVE StatusInv'
<1>1. StatusTypes' /\ StatusTypes BY StatusParts, PathsSavedTypes
<1>2. /\ settingPaths # Unknown /\ settingPaths' = Unknown /\ statusGeneration' = statusGeneration + 1 /\ statusGeneration \in Nat
      /\ statusCache' = Unknown /\ statusInvalidated' = TRUE /\ pendingStatus' = Unknown
      /\ UNCHANGED <<paths, installed, inspections, waits, stored, storing, counts, misled, outrun>>
  BY <1>1 DEF PathsSaved, InvalidatesPending, callVars, storeVars, StatusTypes
<1>3. resolver'.settingsKey = resolver.settingsKey /\ resolver'.generation = resolver.generation + 1 /\ resolver'.cache = Unknown
      /\ resolver.generation \in Nat
  BY <1>1 DEF PathsSaved, StatusTypes
<1>4. \A c \in Watchers : pendingStatus' # c BY <1>2, ValueIs
<1>5. ASSUME NEW c \in Watchers PROVE Ordered(c)'
  <2>1. inspections[c] # Unknown => inspections[c].generation \in Nat /\ inspections[c].generation <= statusGeneration
    BY StatusParts, InspectionIs DEF Ordered
  <2> QED BY <2>1, <1>2, <1>4 DEF Ordered
<1>6. ASSUME NEW c \in Watchers, inspections'[c] # Unknown PROVE SoundInspection(inspections[c])'
  <2>1. inspections'[c] = inspections[c] /\ inspections[c] \in Inspection /\ SoundInspection(inspections[c])
    BY <1>2, <1>6, StatusParts
  <2>2. inspections[c].stage = "discovering" => inspections[c].discovery \in Nat
    BY <2>1, InspectionIs
  <2> QED BY <2>1, <2>2, <1>2, <1>3 DEF SoundInspection
<1>7. ASSUME StatusesSound PROVE StatusesSound'
  <2>1. CacheSound' BY <1>2, <1>7 DEF StatusesSound, CacheSound, InUse, OfItsKey
  <2>2. ASSUME NEW d \in Watchers, waits'[d] # Unknown PROVE WaiterSound(waits[d], inspections[waits[d].on])'
    <3>1. WaiterSound(waits[d], inspections[waits[d].on]) /\ waits'[d] = waits[d] /\ inspections' = inspections
      BY <1>2, <1>7, <2>2 DEF StatusesSound
    <3> QED BY <3>1, <1>2 DEF WaiterSound, OfItsPaths
  <2> QED BY <2>1, <2>2, <1>2, <1>4, <1>7 DEF StatusesSound
<1> QED BY <1>1, <1>2, <1>3, <1>4, <1>5, <1>6, <1>7, StatusParts DEF StatusInv

LEMMA RestartKeeps == ASSUME StatusInv, Restart PROVE StatusInv'
<1>1. StatusTypes' /\ StatusTypes BY StatusParts, RestartTypes
<1>2. /\ settingPaths = Unknown /\ statusCache' = Unknown /\ statusInvalidated' = FALSE /\ pendingStatus' = Unknown
      /\ inspections' = [c \in Watchers |-> Unknown] /\ waits' = [c \in Watchers |-> Unknown]
      /\ storing' = <<>> /\ invalidated' = 0 /\ refreshed' = 0 /\ resolver'.cache = Unknown
      /\ UNCHANGED <<paths, installed, settingPaths, stored, misled, outrun>>
  BY DEF Restart
<1>3. \A c \in Watchers : pendingStatus' # c /\ inspections'[c] = Unknown /\ waits'[c] = Unknown
  BY <1>2, ValueIs
<1>4. Len(storing') = 0 /\ Floor' = 0 BY <1>2 DEF Floor, LaterOf
<1>5. ASSUME StatusesSound PROVE StatusesSound'
  <2>1. CacheSound' BY <1>2, <1>4, <1>5 DEF StatusesSound, CacheSound, InUse, OfItsKey
  <2> QED BY <2>1, <1>2, <1>3, <1>5 DEF StatusesSound
<1>6. \A c \in Watchers : Ordered(c)' BY <1>3 DEF Ordered
<1> QED BY <1>1, <1>2, <1>3, <1>5, <1>6, StatusParts DEF StatusInv

LEMMA StoreWrittenKeeps == ASSUME StatusInv, StoreWritten PROVE StatusInv'
<1>1. StatusTypes' /\ StatusTypes BY StatusParts, StoreWrittenTypes
<1>2. /\ storing # <<>> /\ storing' = Tail(storing) /\ (stored' = Head(storing) \/ stored' = stored) /\ storing \in Seq(KeyedValue)
      /\ UNCHANGED <<paths, installed, settingPaths, resolver, statusGeneration, statusCache, statusInvalidated, pendingStatus,
                     inspections, waits, counts, invalidated, refreshed, misled, outrun>>
  BY <1>1 DEF StoreWritten, cacheVars, callVars, historyVars, StatusTypes
<1>3. \A c \in Watchers : Ordered(c)' /\ (inspections'[c] # Unknown => SoundInspection(inspections[c])')
  BY <1>2, StatusParts DEF Ordered, SoundInspection
<1>4. ASSUME StatusesSound PROVE StatusesSound'
  <2>1. Len(storing) \in Nat \ {0} /\ Head(storing) = storing[1] /\ Len(Tail(storing)) = Len(storing) - 1
        /\ \A n \in 1..(Len(storing) - 1) : Tail(storing)[n] = storing[n + 1]
    BY <1>2, HeadTailProperties
  <2>2. \A n \in 1..Len(storing) : OfItsKey(storing[n]) BY <1>4 DEF StatusesSound, CacheSound
  <2>3. (stored' # Unknown => OfItsKey(stored)') /\ \A n \in 1..Len(storing') : OfItsKey(storing[n])'
    <3>1. stored' = stored \/ OfItsKey(stored)' BY <1>2, <2>1, <2>2 DEF OfItsKey
    <3>2. ASSUME NEW n \in 1..Len(storing') PROVE OfItsKey(storing[n])'
      <4>1. n + 1 \in 1..Len(storing) /\ storing'[n] = storing[n + 1] BY <3>2, <1>2, <2>1
      <4> QED BY <4>1, <2>2 DEF OfItsKey
    <3> QED BY <3>1, <3>2, <1>4 DEF StatusesSound, CacheSound, OfItsKey
  <2>4. CacheSound' BY <2>3, <1>2, <1>4 DEF StatusesSound, CacheSound, InUse, Floor, OfItsKey
  <2>5. \A c \in Watchers : pendingStatus' = c => PendingSound(inspections[c])'
    BY <1>2, <1>4 DEF StatusesSound, PendingSound, InUse, Floor, OfItsPaths
  <2>6. \A d \in Watchers : waits'[d] # Unknown => WaiterSound(waits[d], inspections[waits[d].on])'
    BY <1>2, <1>4 DEF StatusesSound, WaiterSound, OfItsPaths
  <2> QED BY <2>4, <2>5, <2>6, <1>2, <1>4 DEF StatusesSound
<1> QED BY <1>1, <1>2, <1>3, <1>4, StatusParts DEF StatusInv

\* The last result is shown: it is of these paths, and late enough.
LEMMA CachedKeeps == ASSUME StatusInv, NEW c \in Watchers, Cached(c) PROVE StatusInv'
<1>1. StatusTypes' /\ StatusTypes BY StatusParts, CachedTypes
<1>2. /\ InUse /\ misled' = misled \cup Wrong(Asked(c), statusCache.value) /\ counts'.paths = counts.paths
      /\ UNCHANGED <<paths, installed, settingPaths, resolver, statusGeneration, statusCache, statusInvalidated, pendingStatus,
                     inspections, waits, stored, storing, invalidated, refreshed, outrun>>
  <2>1. counts'.paths = counts.paths BY <1>1, CountIs DEF Cached, StatusTypes
  <2> QED BY <2>1 DEF Cached, InUse, cacheVars, callVars, storeVars
<1>3. \A d \in Watchers : Ordered(d)' /\ (inspections'[d] # Unknown => SoundInspection(inspections[d])')
  BY <1>2, StatusParts DEF Ordered, SoundInspection
<1>4. ASSUME StatusesSound PROVE StatusesSound'
  <2>1. misled' = {}
    <3>1. ASSUME settingPaths = Unknown
          PROVE  statusCache.value.paths = paths /\ ~ statusCache.value.installed < Floor
      <4>1. statusCache.key = paths /\ OfItsKey(statusCache) /\ statusCache.value.installed >= Floor /\ statusCache \in KeyedValue
        BY <1>1, <1>2, <1>4, <3>1 DEF StatusesSound, CacheSound, InUse, StatusTypes
      <4>2. statusCache.value.installed \in Nat /\ Floor \in Nat BY <4>1, <1>1, ValueIs, FloorIs
      <4> QED BY <4>1, <4>2 DEF OfItsKey
    <3>2. Wrong(Asked(c), statusCache.value) = {}
      <4>1. Asked(c).saved = (settingPaths = Unknown) /\ Asked(c).floor = Floor BY <1>1, AskedIs
      <4> QED BY <3>1, <4>1 DEF Wrong
    <3> QED BY <3>2, <1>2, <1>4 DEF StatusesSound
  <2>2. CacheSound' BY <1>2, <1>4 DEF StatusesSound, CacheSound, InUse, Floor, OfItsKey
  <2>3. \A d \in Watchers : pendingStatus' = d => PendingSound(inspections[d])'
    BY <1>2, <1>4 DEF StatusesSound, PendingSound, InUse, Floor, OfItsPaths
  <2>4. \A d \in Watchers : waits'[d] # Unknown => WaiterSound(waits[d], inspections[waits[d].on])'
    BY <1>2, <1>4 DEF StatusesSound, WaiterSound, OfItsPaths
  <2> QED BY <2>1, <2>2, <2>3, <2>4 DEF StatusesSound
<1> QED BY <1>1, <1>2, <1>3, <1>4, StatusParts DEF StatusInv

\* What a question that is asked now may expect of an inspection that is pending.
LEMMA AskedSoundly ==
  ASSUME StatusTypes, StatusesSound, NEW on \in Watchers, NEW i, i \in Inspection, PendingSound(i), i.key = paths
  PROVE  WaiterSound(Asked(on), i)
<1>1. /\ Asked(on).changes = counts.paths /\ Asked(on).saved = (settingPaths = Unknown) /\ Asked(on).floor = Floor
  BY AskedIs
<1>2. Floor <= installed /\ counts.paths <= counts.paths BY FloorIs DEF StatusTypes
<1>3. settingPaths = Unknown /\ i.stage = "loading" => Floor = 0
  BY DEF StatusesSound, CacheSound, PendingSound
<1> QED BY <1>1, <1>2, <1>3 DEF WaiterSound, PendingSound

LEMMA JoinKeeps ==
  ASSUME StatusInv, NEW c \in Watchers, NEW force \in BOOLEAN, Join(c, force)
  PROVE  StatusInv'
<1>1. StatusTypes' /\ StatusTypes BY StatusParts, JoinTypes
<1>2. PICK on \in Watchers : on = pendingStatus BY <1>1 DEF Join, Joins, StatusTypes
<1>3. /\ waits' = [waits EXCEPT ![c] = Asked(on)] /\ inspections[on].key = paths /\ counts'.paths = counts.paths
      /\ UNCHANGED <<paths, installed, settingPaths, resolver, statusGeneration, statusCache, statusInvalidated, pendingStatus,
                     inspections, stored, storing, invalidated, refreshed, misled, outrun>>
  <2>1. counts'.paths = counts.paths BY <1>1, CountIs DEF Join, StatusTypes
  <2> QED BY <1>2, <2>1 DEF Join, Joins, cacheVars, storeVars, historyVars
<1>4. PICK asked : asked = Asked(on) OBVIOUS
<1>5. asked.on = on /\ \A d \in Watchers : waits'[d] = IF d = c THEN asked ELSE waits[d]
  BY <1>1, <1>3, <1>4, AskedIs DEF StatusTypes
<1>6. inspections[on] # Unknown /\ inspections[on] \in Inspection BY <1>2, StatusParts
<1>7. \A d \in Watchers : Ordered(d)' /\ (inspections'[d] # Unknown => SoundInspection(inspections[d])')
  BY <1>3, StatusParts DEF Ordered, SoundInspection
<1>8. ASSUME StatusesSound PROVE StatusesSound'
  <2>1. WaiterSound(asked, inspections[on])
    BY <1>1, <1>2, <1>3, <1>4, <1>6, <1>8, AskedSoundly DEF StatusesSound
  <2>2. ASSUME NEW d \in Watchers, waits'[d] # Unknown PROVE WaiterSound(waits[d], inspections[waits[d].on])'
    <3>1. WaiterSound(waits'[d], inspections[waits'[d].on])
      BY <2>1, <2>2, <1>5, <1>8 DEF StatusesSound
    <3> QED BY <3>1, <1>3 DEF WaiterSound, OfItsPaths
  <2>3. CacheSound' BY <1>3, <1>8 DEF StatusesSound, CacheSound, InUse, Floor, OfItsKey
  <2>4. \A d \in Watchers : pendingStatus' = d => PendingSound(inspections[d])'
    BY <1>3, <1>8 DEF StatusesSound, PendingSound, InUse, Floor, OfItsPaths
  <2> QED BY <2>2, <2>3, <2>4, <1>3, <1>8 DEF StatusesSound
<1>9. \A d \in Watchers : waits'[d] # Unknown => inspections'[waits'[d].on] # Unknown
  BY <1>3, <1>5, <1>6, StatusParts
<1> QED BY <1>1, <1>3, <1>7, <1>8, <1>9, StatusParts DEF StatusInv

LEMMA BeginCheckKeeps ==
  ASSUME StatusInv, NEW c \in Watchers, NEW force \in BOOLEAN, BeginCheck(c, force)
  PROVE  StatusInv'
<1>1. StatusTypes' /\ StatusTypes BY StatusParts, BeginCheckTypes
<1>2. PICK i \in Inspection : /\ inspections' = [inspections EXCEPT ![c] = i] /\ i.key = paths /\ i.force = force
                              /\ i.generation = statusGeneration + 1
                              /\ i.stage = IF ~force /\ ~statusInvalidated THEN "loading" ELSE "inspecting"
  BY StatusParts, BeginCheckTypes
<1>3. /\ waits' = [waits EXCEPT ![c] = Asked(c)] /\ inspections[c] = Unknown /\ counts'.paths = counts.paths
      /\ force \/ ~InUse
      /\ statusGeneration' = statusGeneration + 1 /\ statusGeneration \in Nat /\ pendingStatus' = c
      /\ UNCHANGED <<paths, installed, settingPaths, resolver, statusCache, statusInvalidated,
                     stored, storing, invalidated, refreshed, misled, outrun>>
  <2>1. counts'.paths = counts.paths BY <1>1, CountIs DEF BeginCheck, StatusTypes
  <2> QED BY <2>1, <1>1 DEF BeginCheck, InUse, storeVars, historyVars, StatusTypes
<1>4. PICK asked : asked = Asked(c) OBVIOUS
<1>5. /\ asked.on = c /\ \A d \in Watchers : waits'[d] = IF d = c THEN asked ELSE waits[d]
      /\ \A d \in Watchers : inspections'[d] = IF d = c THEN i ELSE inspections[d]
  BY <1>1, <1>2, <1>3, <1>4, AskedIs DEF StatusTypes
<1>6. i # Unknown /\ i.stage \in {"loading", "inspecting"} /\ (i.stage = "loading" => ~i.force /\ ~statusInvalidated /\ ~InUse)
  BY <1>2, <1>3, InspectionIs
<1>7. ASSUME NEW d \in Watchers PROVE Ordered(d)' /\ (inspections'[d] # Unknown => SoundInspection(inspections[d])')
  <2>1. CASE d = c BY <2>1, <1>2, <1>3, <1>5, <1>6 DEF Ordered, SoundInspection
  <2>2. CASE d # c
    <3>1. inspections[d] # Unknown => inspections[d].generation \in Nat /\ inspections[d].generation <= statusGeneration
      BY StatusParts, InspectionIs DEF Ordered
    <3> QED BY <2>2, <3>1, <1>3, <1>5, StatusParts DEF Ordered, SoundInspection
  <2> QED BY <2>1, <2>2
<1>8. \A d \in Watchers : waits'[d] # Unknown => inspections'[waits'[d].on] # Unknown
  BY <1>3, <1>5, <1>6, StatusParts
<1>9. ASSUME StatusesSound PROVE StatusesSound'
  <2>1. PendingSound(i) BY <1>2, <1>6 DEF PendingSound, OfItsPaths
  <2>2. WaiterSound(asked, i) BY <2>1, <1>1, <1>2, <1>4, <1>9, AskedSoundly
  <2>3. ASSUME NEW d \in Watchers, waits'[d] # Unknown PROVE WaiterSound(waits[d], inspections[waits[d].on])'
    <3>1. CASE d = c BY <3>1, <2>2, <1>3, <1>5 DEF WaiterSound, OfItsPaths
    <3>2. CASE d # c
      <4>1. /\ waits'[d] = waits[d] /\ waits[d].on # c /\ inspections'[waits[d].on] = inspections[waits[d].on]
            /\ WaiterSound(waits[d], inspections[waits[d].on])
        BY <3>2, <2>3, <1>3, <1>5, <1>9, StatusParts DEF StatusesSound
      <4> QED BY <4>1, <1>3 DEF WaiterSound, OfItsPaths
    <3> QED BY <3>1, <3>2
  <2>4. CacheSound' BY <1>3, <1>9 DEF StatusesSound, CacheSound, InUse, Floor, OfItsKey
  <2>5. \A d \in Watchers : pendingStatus' = d => PendingSound(inspections[d])'
    BY <2>1, <1>3, <1>5 DEF PendingSound, InUse, Floor, OfItsPaths
  <2> QED BY <2>3, <2>4, <2>5, <1>3, <1>9 DEF StatusesSound
<1>10. \A d \in Watchers : pendingStatus' = d => inspections'[d] # Unknown BY <1>3, <1>5, <1>6
<1> QED BY <1>1, <1>3, <1>7, <1>8, <1>9, <1>10, StatusParts DEF StatusInv

\* An inspection goes on: as sound as it was, for those who wait and for the cache.
LEMMA InspectionGoesOn ==
  ASSUME StatusInv, StatusTypes', NEW c \in Watchers, inspections[c] # Unknown,
         NEW i, i \in Inspection, inspections' = [inspections EXCEPT ![c] = i],
         i.key = inspections[c].key, i.force = inspections[c].force, i.generation = inspections[c].generation,
         UNCHANGED <<paths, installed, settingPaths, cacheVars, waits, storeVars, counts, historyVars>>,
         resolver'.cache # Unknown => resolver'.cache.paths = resolver'.settingsKey,
         SoundInspection(i)',
         \A d \in Watchers \ {c} : inspections[d] # Unknown => SoundInspection(inspections[d])',
         outrun \/ pendingStatus # c \/ (PendingSound(inspections[c]) => PendingSound(i)),
         outrun \/ \A d \in Watchers : waits[d] # Unknown /\ waits[d].on = c /\ waits[d].saved /\ WaiterSound(waits[d], inspections[c])
                                       => WaiterSound(waits[d], i)
  PROVE  StatusInv'
<1>1. /\ UNCHANGED <<paths, installed, settingPaths, statusGeneration, statusCache, statusInvalidated, pendingStatus,
                     waits, stored, storing, counts, invalidated, refreshed, misled, outrun>>
      /\ StatusTypes /\ i # Unknown
  BY StatusParts, InspectionIs DEF cacheVars, storeVars, historyVars
<1>2. \A d \in Watchers : inspections'[d] = IF d = c THEN i ELSE inspections[d]
  BY <1>1 DEF StatusTypes
<1>3. ASSUME NEW d \in Watchers PROVE Ordered(d)' /\ (pendingStatus' = d => inspections'[d] # Unknown)
  BY <1>1, <1>2, StatusParts DEF Ordered
<1>4. ASSUME NEW d \in Watchers, inspections'[d] # Unknown PROVE SoundInspection(inspections[d])'
  BY <1>2, <1>4 DEF SoundInspection
<1>5. \A d \in Watchers : waits'[d] # Unknown => inspections'[waits'[d].on] # Unknown
  BY <1>1, <1>2, StatusParts
<1>6. ASSUME StatusesSound, ~outrun PROVE StatusesSound'
  <2>1. CacheSound' BY <1>1, <1>6 DEF StatusesSound, CacheSound, InUse, Floor, OfItsKey
  <2>2. ASSUME NEW d \in Watchers, pendingStatus' = d PROVE PendingSound(inspections[d])'
    <3>1. PendingSound(inspections'[d]) BY <2>2, <1>1, <1>2, <1>6 DEF StatusesSound
    <3> QED BY <3>1, <1>1 DEF PendingSound, InUse, Floor, OfItsPaths
  <2>3. ASSUME NEW d \in Watchers, waits'[d] # Unknown PROVE WaiterSound(waits[d], inspections[waits[d].on])'
    <3>1. WaiterSound(waits[d], inspections[waits[d].on]) /\ waits[d] \in Question /\ waits[d].on \in Watchers /\ waits'[d] = waits[d]
      BY <2>3, <1>1, <1>6, StatusParts DEF StatusesSound
    <3>2. WaiterSound(waits[d], inspections'[waits[d].on])
      <4>1. CASE ~ waits[d].saved BY <4>1 DEF WaiterSound
      <4>2. CASE waits[d].saved /\ waits[d].on = c BY <4>2, <3>1, <2>3, <1>1, <1>2, <1>6
      <4>3. CASE waits[d].on # c BY <4>3, <3>1, <1>2
      <4> QED BY <4>1, <4>2, <4>3, <3>1, QuestionIs
    <3> QED BY <3>1, <3>2, <1>1 DEF WaiterSound, OfItsPaths
  <2> QED BY <2>1, <2>2, <2>3, <1>1, <1>6 DEF StatusesSound
<1> QED BY <1>1, <1>3, <1>4, <1>5, <1>6, StatusParts DEF StatusInv

\* An inspection of which only its own record and the discovery move.
LEMMA GoesOnTypes ==
  ASSUME StatusTypes, NEW c \in Watchers, NEW i, i \in Inspection, inspections' = [inspections EXCEPT ![c] = i],
         resolver' \in [settingsKey : ExecutablePaths \cup {Unknown}, generation : Nat, cache : Value \cup {Unknown}],
         UNCHANGED <<paths, installed, settingPaths, cacheVars, waits, storeVars, counts, historyVars>>
  PROVE  StatusTypes'
<1>1. inspections' \in [Watchers -> Inspection \cup {Unknown}] BY DEF StatusTypes
<1> QED BY <1>1 DEF StatusTypes, cacheVars, storeVars, historyVars

LEMMA LoadsNothingKeeps ==
  ASSUME StatusInv, NEW c \in Watchers, LoadsNothing(c)
  PROVE  StatusInv'
<1>1. PICK old : old = inspections[c] OBVIOUS
<1>2. PICK i : i = [old EXCEPT !.stage = "inspecting"] OBVIOUS
<1>3. /\ old # Unknown /\ old.stage = "loading" /\ inspections' = [inspections EXCEPT ![c].stage = "inspecting"]
      /\ UNCHANGED <<paths, installed, settingPaths, resolver, cacheVars, waits, storeVars, counts, historyVars>>
  BY <1>1 DEF LoadsNothing
<1>4. old \in Inspection /\ SoundInspection(old) /\ StatusTypes BY <1>1, <1>3, StatusParts
<1>5. old \in [stage : {"loading", "inspecting"}, key : ExecutablePaths, force : BOOLEAN, generation : Nat]
  BY <1>3, <1>4 DEF Inspection
<1>6. /\ i \in [stage : {"loading", "inspecting"}, key : ExecutablePaths, force : BOOLEAN, generation : Nat]
      /\ i.stage = "inspecting" /\ i.key = old.key /\ i.force = old.force /\ i.generation = old.generation
  BY <1>2, <1>5
<1>7. i \in Inspection BY <1>6 DEF Inspection
<1>8. inspections' = [inspections EXCEPT ![c] = i] BY <1>1, <1>2, <1>3, <1>4 DEF StatusTypes
<1>9. SoundInspection(i)' /\ \A d \in Watchers \ {c} : inspections[d] # Unknown => SoundInspection(inspections[d])'
  <2>1. \A d \in Watchers \ {c} : inspections'[d] = inspections[d] BY <1>4, <1>8 DEF StatusTypes
  <2>2. SoundInspection(i)' BY <1>6 DEF SoundInspection
  <2> QED BY <2>1, <2>2, <1>3, StatusParts DEF SoundInspection
<1>10. PendingSound(old) => PendingSound(i) BY <1>6 DEF PendingSound, OfItsPaths
<1>11. \A d \in Watchers : waits[d] # Unknown /\ waits[d].on = c /\ waits[d].saved /\ WaiterSound(waits[d], old)
                           => WaiterSound(waits[d], i)
  BY <1>6 DEF WaiterSound, OfItsPaths
<1>12. resolver' \in [settingsKey : ExecutablePaths \cup {Unknown}, generation : Nat, cache : Value \cup {Unknown}]
       /\ (resolver'.cache # Unknown => resolver'.cache.paths = resolver'.settingsKey)
  BY <1>3, <1>4, StatusParts DEF StatusTypes
<1>13. StatusTypes' BY <1>3, <1>4, <1>7, <1>8, <1>12, GoesOnTypes
<1> QED BY <1>1, <1>3, <1>6, <1>7, <1>8, <1>9, <1>10, <1>11, <1>12, <1>13, InspectionGoesOn

\* The machine was looked at just now: the value is late enough.
LEMMA JustSeen ==
  ASSUME StatusInv, NEW old \in Inspection, NEW i, i.stage = "inspected", i.key = old.key, i.value.installed = installed,
         old.key = paths /\ (old.stage = "discovering" => old.paths = paths) => i.value.paths = paths
  PROVE  /\ PendingSound(old) => PendingSound(i)
         /\ \A asked \in Question : asked.saved /\ WaiterSound(asked, old) => WaiterSound(asked, i)
<1>1. StatusTypes BY StatusParts
<1>2. installed >= Floor BY <1>1, FloorIs
<1>3. PendingSound(old) => PendingSound(i) BY <1>2 DEF PendingSound, OfItsPaths
<1>4. ASSUME NEW asked \in Question, asked.saved, WaiterSound(asked, old) PROVE WaiterSound(asked, i)
  <2>1. asked.floor \in Nat /\ asked.floor <= installed /\ installed \in Nat
    BY <1>1, <1>4, FloorIs, QuestionIs DEF WaiterSound
  <2> QED BY <2>1, <1>4 DEF WaiterSound, OfItsPaths
<1> QED BY <1>3, <1>4

LEMMA DiscoverKeeps ==
  ASSUME StatusKept, NEW c \in Watchers, Discover(c)
  PROVE  StatusInv'
<1>0. /\ StatusInv /\ (resolver.cache # Unknown => resolver.cache.installed <= installed)
      /\ outrun \/ CacheKnows
  BY DEF StatusKept
<1>1. PICK old : old = inspections[c] OBVIOUS
<1>2. PICK differs \in BOOLEAN : differs = (resolver.settingsKey # paths) OBVIOUS
<1>3. PICK cache : cache = IF differs \/ old.force THEN Unknown ELSE resolver.cache OBVIOUS
<1>4. PICK generation : generation = resolver.generation + (IF differs THEN 1 ELSE 0) + (IF old.force THEN 1 ELSE 0)
  OBVIOUS
<1>5. PICK seen : seen = [stage |-> "inspected", key |-> old.key, force |-> old.force, generation |-> old.generation, value |-> cache]
  OBVIOUS
<1>6. PICK looks : looks = [stage |-> "discovering", key |-> old.key, force |-> old.force, generation |-> old.generation,
                            discovery |-> generation, paths |-> paths]
  OBVIOUS
<1>7. /\ old # Unknown /\ old.stage = "inspecting"
      /\ resolver' = [settingsKey |-> paths, generation |-> generation, cache |-> cache]
      /\ \/ cache # Unknown /\ inspections' = [inspections EXCEPT ![c] = seen]
         \/ inspections' = [inspections EXCEPT ![c] = looks]
      /\ UNCHANGED <<paths, installed, settingPaths, cacheVars, waits, storeVars, counts, historyVars>>
  BY <1>1, <1>2, <1>3, <1>4, <1>5, <1>6 DEF Discover
<1>8. /\ old \in Inspection /\ StatusTypes /\ resolver.generation \in Nat /\ resolver.cache \in Value \cup {Unknown}
      /\ paths \in ExecutablePaths
  BY <1>1, <1>7, <1>0, StatusParts DEF StatusTypes
<1>9. old.key \in ExecutablePaths /\ old.force \in BOOLEAN /\ old.generation \in Nat
  BY <1>8, InspectionIs
<1>10. generation \in Nat /\ generation >= resolver.generation /\ (generation = resolver.generation => ~differs)
  <2>1. old.force = TRUE \/ old.force = FALSE BY <1>9
  <2>2. differs = TRUE \/ differs = FALSE BY <1>2
  <2> QED BY <2>1, <2>2, <1>4, <1>8
<1>11. /\ cache \in Value \cup {Unknown}
       /\ cache # Unknown => cache.paths = paths
  <2>1. resolver.cache # Unknown => resolver.cache.paths = resolver.settingsKey BY <1>0, StatusParts
  <2> QED BY <2>1, <1>2, <1>3, <1>8
<1>12. /\ resolver' \in [settingsKey : ExecutablePaths \cup {Unknown}, generation : Nat, cache : Value \cup {Unknown}]
       /\ resolver'.cache # Unknown => resolver'.cache.paths = resolver'.settingsKey
       /\ resolver'.generation = generation /\ resolver'.settingsKey = paths
  BY <1>7, <1>8, <1>10, <1>11
<1>13. ASSUME NEW i, i \in Inspection, inspections' = [inspections EXCEPT ![c] = i] 
       PROVE  /\ StatusTypes'
              /\ \A d \in Watchers \ {c} : inspections[d] # Unknown => SoundInspection(inspections[d])'
  <2>1. StatusTypes' BY <1>7, <1>8, <1>12, <1>13, GoesOnTypes
  <2>2. ASSUME NEW d \in Watchers \ {c}, inspections[d] # Unknown PROVE SoundInspection(inspections[d])'
    <3>1. inspections'[d] = inspections[d] /\ SoundInspection(inspections[d]) /\ inspections[d] \in Inspection
      BY <2>2, <1>8, <1>13, <1>0, StatusParts DEF StatusTypes
    <3>2. PICK x : x = inspections[d] OBVIOUS
    <3>3. x.stage = "discovering" => x.discovery \in Nat BY <3>1, <3>2, InspectionIs
    <3>4. x.stage = "discovering" => /\ x.discovery <= generation
                                     /\ x.discovery = generation => x.paths = paths
      <4> SUFFICES ASSUME x.stage = "discovering"
                   PROVE  x.discovery <= generation /\ (x.discovery = generation => x.paths = paths)
        OBVIOUS
      <4>1. /\ x.discovery \in Nat /\ x.discovery <= resolver.generation
            /\ x.discovery = resolver.generation => x.paths = resolver.settingsKey
        BY <3>1, <3>2, <3>3 DEF SoundInspection
      <4>2. x.discovery <= generation BY <4>1, <1>8, <1>10
      <4>3. x.discovery = generation => generation = resolver.generation BY <4>1, <1>8, <1>10
      <4> QED BY <4>1, <4>2, <4>3, <1>2, <1>10
    <3> QED BY <3>1, <3>2, <3>4, <1>7, <1>12 DEF SoundInspection
  <2> QED BY <2>1, <2>2
<1>14. CASE cache # Unknown /\ inspections' = [inspections EXCEPT ![c] = seen]
  <2>1. /\ seen \in Inspection /\ seen.stage = "inspected" /\ seen.key = old.key /\ seen.force = old.force
        /\ seen.generation = old.generation /\ seen.value = cache
    BY <1>5, <1>9, <1>11, <1>14 DEF Inspection
  <2>2. ~differs /\ ~old.force /\ cache = resolver.cache /\ resolver.settingsKey = paths /\ cache.paths = paths
    BY <1>2, <1>3, <1>11, <1>14
  <2>3. SoundInspection(seen)' BY <1>0, <2>1, <2>2, <1>7, <1>14 DEF SoundInspection
  <2>4. outrun \/ pendingStatus # c \/ (PendingSound(old) => PendingSound(seen))
    <3> SUFFICES ASSUME CacheKnows, pendingStatus = c, PendingSound(old) PROVE PendingSound(seen)
      BY <1>0
    <3>1. ~InUse BY <1>1, <2>2 DEF CacheKnows
    <3>2. cache.installed >= Floor BY <3>1, <2>2, <1>14 DEF CacheKnows
    <3> QED BY <3>2, <2>1, <2>2 DEF PendingSound, OfItsPaths
  <2>5. outrun \/ \A d \in Watchers : waits[d] # Unknown /\ waits[d].on = c /\ waits[d].saved /\ WaiterSound(waits[d], old)
                                     => WaiterSound(waits[d], seen)
    <3> SUFFICES ASSUME CacheKnows, NEW d \in Watchers, waits[d] # Unknown, waits[d].on = c, waits[d].saved, WaiterSound(waits[d], old)
                 PROVE  WaiterSound(waits[d], seen)
      BY <1>0
    <3>1. MayBeCached(inspections[waits[d].on]) BY <1>1, <1>7, <2>2 DEF MayBeCached
    <3>2. cache.installed >= waits[d].floor BY <3>1, <2>2, <1>14 DEF CacheKnows
    <3> QED BY <3>2, <2>1, <2>2 DEF WaiterSound, OfItsPaths
  <2> QED BY <1>0, <1>1, <2>1, <2>3, <2>4, <2>5, <1>7, <1>12, <1>13, <1>14, InspectionGoesOn
<1>15. CASE inspections' = [inspections EXCEPT ![c] = looks]
  <2>1. /\ looks \in Inspection /\ looks.stage = "discovering" /\ looks.key = old.key /\ looks.force = old.force
        /\ looks.generation = old.generation /\ looks.discovery = generation /\ looks.paths = paths
    BY <1>6, <1>8, <1>9, <1>10 DEF Inspection
  <2>2. SoundInspection(looks)' BY <2>1, <1>10, <1>12 DEF SoundInspection
  <2>3. /\ PendingSound(old) => PendingSound(looks)
        /\ \A d \in Watchers : waits[d] # Unknown /\ waits[d].on = c /\ waits[d].saved /\ WaiterSound(waits[d], old)
                               => WaiterSound(waits[d], looks)
    BY <2>1, <1>9, <1>10 DEF PendingSound, WaiterSound, OfItsPaths
  <2> QED BY <1>0, <1>1, <2>1, <2>2, <2>3, <1>7, <1>12, <1>13, <1>15, InspectionGoesOn
<1> QED BY <1>7, <1>14, <1>15

LEMMA DiscoveredKeeps ==
  ASSUME StatusInv, NEW c \in Watchers, Discovered(c)
  PROVE  StatusInv'
<1>1. PICK old : old = inspections[c] OBVIOUS
<1>2. PICK v : v = [paths |-> old.paths, installed |-> installed] OBVIOUS
<1>3. PICK i : i = [stage |-> "inspected", key |-> old.key, force |-> old.force, generation |-> old.generation, value |-> v]
  OBVIOUS
<1>4. /\ old # Unknown /\ old.stage = "discovering"
      /\ resolver' = [resolver EXCEPT !.cache = IF old.discovery = resolver.generation THEN v ELSE @]
      /\ inspections' = [inspections EXCEPT ![c] = i]
      /\ UNCHANGED <<paths, installed, settingPaths, cacheVars, waits, storeVars, counts, historyVars>>
  BY <1>1, <1>2, <1>3 DEF Discovered, KeepsDiscovered
<1>5. /\ old \in Inspection /\ SoundInspection(old) /\ StatusTypes /\ installed \in 0..MaxInstalls
      /\ resolver \in [settingsKey : ExecutablePaths \cup {Unknown}, generation : Nat, cache : Value \cup {Unknown}]
      /\ resolver.cache # Unknown => resolver.cache.paths = resolver.settingsKey
  BY <1>1, <1>4, StatusParts DEF StatusTypes
<1>6. old.key \in ExecutablePaths /\ old.force \in BOOLEAN /\ old.generation \in Nat /\ old.paths \in ExecutablePaths
  BY <1>4, <1>5, InspectionIs
<1>7. v \in Value /\ v.paths = old.paths /\ v.installed = installed BY <1>2, <1>5, <1>6 DEF Value
<1>8. /\ i \in Inspection /\ i.stage = "inspected" /\ i.key = old.key /\ i.force = old.force
      /\ i.generation = old.generation /\ i.value = v
  BY <1>3, <1>6, <1>7 DEF Inspection
<1>9. /\ resolver' \in [settingsKey : ExecutablePaths \cup {Unknown}, generation : Nat, cache : Value \cup {Unknown}]
      /\ resolver'.cache # Unknown => resolver'.cache.paths = resolver'.settingsKey
      /\ resolver'.generation = resolver.generation /\ resolver'.settingsKey = resolver.settingsKey
  <2>1. old.discovery = resolver.generation => v.paths = resolver.settingsKey
    BY <1>4, <1>5, <1>7 DEF SoundInspection
  <2> QED BY <2>1, <1>4, <1>5, <1>7
<1>10. StatusTypes' BY <1>4, <1>5, <1>8, <1>9, GoesOnTypes
<1>11. SoundInspection(i)' BY <1>4, <1>5, <1>7, <1>8, FloorIs DEF SoundInspection
<1>12. \A d \in Watchers \ {c} : inspections[d] # Unknown => SoundInspection(inspections[d])'
  <2>1. \A d \in Watchers \ {c} : inspections'[d] = inspections[d] BY <1>4, <1>5 DEF StatusTypes
  <2> QED BY <2>1, <1>4, <1>9, StatusParts DEF SoundInspection
<1>13. /\ PendingSound(old) => PendingSound(i)
       /\ \A asked \in Question : asked.saved /\ WaiterSound(asked, old) => WaiterSound(asked, i)
  BY <1>4, <1>5, <1>7, <1>8, JustSeen
<1>14. \A d \in Watchers : waits[d] # Unknown /\ waits[d].on = c /\ waits[d].saved /\ WaiterSound(waits[d], old)
                           => WaiterSound(waits[d], i)
  BY <1>13, StatusParts
<1> QED BY <1>1, <1>4, <1>8, <1>9, <1>10, <1>11, <1>12, <1>13, <1>14, InspectionGoesOn

\* An inspection ends: those who waited for it get what they asked for.
LEMMA InspectionEnds ==
  ASSUME StatusInv, StatusTypes', NEW c \in Watchers, inspections[c] # Unknown, NEW v \in Value, Ends(c, v),
         UNCHANGED <<resolver, statusGeneration>>, outrun => outrun',
         ~Current(inspections[c]) => UNCHANGED <<statusCache, statusInvalidated>>,
         StatusesSound /\ ~outrun' => CacheSound',
         StatusesSound => \A asked \in Question : asked.saved /\ WaiterSound(asked, inspections[c]) =>
                            v.installed >= asked.floor /\ (asked.changes = counts.paths => v.paths = paths)
  PROVE  StatusInv'
<1>1. /\ StatusTypes /\ inspections' = [inspections EXCEPT ![c] = Unknown]
      /\ waits' = [d \in Watchers |-> IF waits[d] # Unknown /\ waits[d].on = c THEN Unknown ELSE waits[d]]
      /\ pendingStatus' = IF pendingStatus = c THEN Unknown ELSE pendingStatus
      /\ ~Current(inspections[c]) => refreshed' = refreshed
      /\ UNCHANGED <<paths, installed, settingPaths, counts, invalidated, resolver, statusGeneration>>
  BY StatusParts DEF Ends, Current
<1>2. \A d \in Watchers : inspections'[d] = IF d = c THEN Unknown ELSE inspections[d]
  BY <1>1 DEF StatusTypes
<1>3. \A d \in Watchers : pendingStatus' = d => d # c /\ pendingStatus = d BY <1>1, ValueIs
<1>4. \A d \in Watchers : waits'[d] # Unknown => waits'[d] = waits[d] /\ waits[d] # Unknown /\ waits[d].on # c
  BY <1>1
<1>5. ASSUME NEW d \in Watchers
      PROVE  /\ Ordered(d)' /\ (pendingStatus' = d => inspections'[d] # Unknown)
             /\ inspections'[d] # Unknown => SoundInspection(inspections[d])'
             /\ waits'[d] # Unknown => inspections'[waits'[d].on] # Unknown
  <2>1. Ordered(d)'
    <3>1. CASE d = c BY <3>1, <1>2 DEF Ordered
    <3>2. CASE d # c
      <4>1. inspections'[d] = inspections[d] /\ (pendingStatus' = d <=> pendingStatus = d)
        BY <3>2, <1>1, <1>2, ValueIs
      <4> QED BY <4>1, <1>1, StatusParts DEF Ordered
    <3> QED BY <3>1, <3>2
  <2>2. pendingStatus' = d => inspections'[d] # Unknown BY <1>2, <1>3, StatusParts
  <2>3. inspections'[d] # Unknown => SoundInspection(inspections[d])'
    <3>1. inspections'[d] # Unknown => inspections'[d] = inspections[d] BY <1>2
    <3> QED BY <3>1, <1>1, StatusParts DEF SoundInspection
  <2>4. waits'[d] # Unknown => inspections'[waits'[d].on] # Unknown BY <1>2, <1>4, StatusParts
  <2> QED BY <2>1, <2>2, <2>3, <2>4
<1>6. ASSUME StatusesSound, ~outrun' PROVE StatusesSound'
  <2>1. misled' = {}
    <3>1. ASSUME NEW d \in Watchers, waits[d] # Unknown, waits[d].on = c PROVE Wrong(waits[d], v) = {}
      <4>1. waits[d] \in Question /\ WaiterSound(waits[d], inspections[c])
        BY <3>1, <1>6, StatusParts DEF StatusesSound
      <4>2. waits[d].saved => v.installed >= waits[d].floor /\ (waits[d].changes = counts.paths => v.paths = paths)
        BY <4>1, <1>6
      <4>3. waits[d].floor \in Nat /\ v.installed \in Nat BY <4>1, QuestionIs, ValueIs
      <4>4. waits[d].saved => ~ v.installed < waits[d].floor BY <4>2, <4>3
      <4> QED BY <4>2, <4>4 DEF Wrong
    <3>2. UNION {Wrong(waits[d], v) : d \in {e \in Watchers : waits[e] # Unknown /\ waits[e].on = c}} = {}
      BY <3>1
    <3> QED BY <3>2, <1>6 DEF Ends, StatusesSound
  <2>2. CacheSound' BY <1>6
  <2>3. ASSUME NEW d \in Watchers, pendingStatus' = d PROVE PendingSound(inspections[d])'
    <3>1. pendingStatus = d /\ d # c /\ inspections'[d] = inspections[d] /\ PendingSound(inspections[d])
      BY <2>3, <1>2, <1>3, <1>6 DEF StatusesSound
    <3>2. pendingStatus # c BY <3>1
    <3>3. ~Current(inspections[c]) BY <3>2, StatusParts DEF Ordered, Current
    <3> QED BY <3>1, <3>3, <1>1 DEF PendingSound, OfItsPaths, InUse, Floor
  <2>4. ASSUME NEW d \in Watchers, waits'[d] # Unknown PROVE WaiterSound(waits[d], inspections[waits[d].on])'
    <3>1. /\ waits'[d] = waits[d] /\ WaiterSound(waits[d], inspections[waits[d].on]) /\ waits[d].on \in Watchers
          /\ waits[d].on # c
      BY <2>4, <1>4, <1>6, StatusParts DEF StatusesSound
    <3>2. inspections'[waits'[d].on] = inspections[waits[d].on] BY <3>1, <1>2
    <3> QED BY <3>1, <3>2, <1>1 DEF WaiterSound, OfItsPaths
  <2> QED BY <2>1, <2>2, <2>3, <2>4 DEF StatusesSound
<1>7. outrun' \/ StatusesSound'
  <2>1. outrun' \/ StatusesSound BY StatusParts
  <2> QED BY <2>1, <1>6
<1>8. resolver'.cache # Unknown => resolver'.cache.paths = resolver'.settingsKey
  BY <1>1, StatusParts
<1> QED BY <1>5, <1>7, <1>8 DEF StatusInv

LEMMA LoadSavedKeeps ==
  ASSUME StatusInv, NEW c \in Watchers, LoadSaved(c)
  PROVE  StatusInv'
<1>1. PICK i : i = inspections[c] OBVIOUS
<1>2. /\ i # Unknown /\ i.stage = "loading" /\ stored # Unknown /\ stored.key = i.key
      /\ statusCache' = IF Current(i) THEN stored ELSE statusCache
      /\ Ends(c, stored.value)
      /\ UNCHANGED <<resolver, statusGeneration, statusInvalidated, stored, storing, outrun>>
  BY <1>1 DEF LoadSaved, storeVars
<1>3. /\ StatusTypes /\ i \in Inspection /\ SoundInspection(i) /\ stored \in KeyedValue
      /\ Current(i) => pendingStatus = c
  BY <1>1, <1>2, StatusParts DEF StatusTypes, Ordered, Current
<1>4. PICK v \in Value : v = stored.value BY <1>3, ValueIs
<1>5. ~ i.force /\ v.installed \in Nat BY <1>2, <1>3, ValueIs DEF SoundInspection
<1>6. /\ refreshed' = refreshed /\ UNCHANGED <<paths, installed, settingPaths, counts, invalidated>>
  BY <1>1, <1>2, <1>5 DEF Ends
<1>7. StatusTypes'
  <2>1. /\ inspections' \in [Watchers -> Inspection \cup {Unknown}] /\ waits' \in [Watchers -> Question \cup {Unknown}]
        /\ pendingStatus' \in Watchers \cup {Unknown} /\ misled' \subseteq {"paths", "installed"}
    BY <1>1, <1>2, <1>3, <1>4, <1>5, EndsTypes
  <2>2. statusCache' \in KeyedValue \cup {Unknown} BY <1>2, <1>3 DEF StatusTypes
  <2> QED BY <2>1, <2>2, <1>2, <1>3, <1>6 DEF StatusTypes
<1>8. ASSUME StatusesSound PROVE CacheSound'
  <2>1. CASE Current(i)
    <3>1. PendingSound(i) /\ OfItsKey(stored) /\ statusCache' = stored /\ CacheSound
      BY <1>1, <1>2, <1>3, <1>8, <2>1 DEF StatusesSound, CacheSound
    <3>2. settingPaths = Unknown => Floor = 0 BY <3>1, <1>2 DEF PendingSound, CacheSound
    <3>3. Floor' = Floor BY <1>6 DEF Floor
    <3>4. OfItsKey(statusCache)' /\ statusCache'.value.installed \in Nat
      BY <3>1, <1>4, <1>5 DEF OfItsKey
    <3>5. settingPaths' = Unknown => Floor' = 0 /\ statusCache'.value.installed >= Floor'
      BY <3>2, <3>3, <3>4, <1>6
    <3>6. (stored' # Unknown => OfItsKey(stored)') /\ \A n \in 1..Len(storing') : OfItsKey(storing[n])'
      BY <3>1, <1>2 DEF CacheSound, OfItsKey
    <3> QED BY <3>4, <3>5, <3>6 DEF CacheSound
  <2>2. CASE ~Current(i)
    BY <2>2, <1>2, <1>6, <1>8 DEF StatusesSound, CacheSound, InUse, Floor, OfItsKey
  <2> QED BY <2>1, <2>2
<1>9. ASSUME StatusesSound, NEW asked \in Question, asked.saved, WaiterSound(asked, i)
      PROVE  v.installed >= asked.floor /\ (asked.changes = counts.paths => v.paths = paths)
  <2>1. OfItsKey(stored) /\ asked.floor = 0 BY <1>2, <1>9 DEF StatusesSound, CacheSound, WaiterSound
  <2>2. v.installed >= asked.floor BY <2>1, <1>5
  <2>3. asked.changes = counts.paths => i.key = paths BY <1>9 DEF WaiterSound
  <2>4. v.paths = i.key BY <2>1, <1>2, <1>4 DEF OfItsKey
  <2> QED BY <2>2, <2>3, <2>4
<1>10. UNCHANGED <<resolver, statusGeneration>> /\ (outrun => outrun') /\ (~Current(i) => UNCHANGED <<statusCache, statusInvalidated>>)
  BY <1>2
<1> QED BY <1>1, <1>2, <1>4, <1>7, <1>8, <1>9, <1>10, InspectionEnds

LEMMA InspectedKeeps ==
  ASSUME StatusInv, NEW c \in Watchers, Inspected(c)
  PROVE  StatusInv'
<1>1. PICK i : i = inspections[c] OBVIOUS
<1>2. PICK v : v = i.value OBVIOUS
<1>3. PICK kept : kept = [key |-> i.key, value |-> v] OBVIOUS
<1>4. /\ i # Unknown /\ i.stage = "inspected" /\ Ends(c, v)
      /\ Current(i) => /\ statusCache' = kept /\ statusInvalidated' = FALSE /\ storing' = Append(storing, kept)
                       /\ outrun' = (outrun \/ i.key # paths)
      /\ ~Current(i) => UNCHANGED <<statusCache, statusInvalidated, storing, outrun>>
      /\ UNCHANGED <<resolver, statusGeneration, stored>>
  BY <1>1, <1>2, <1>3 DEF Inspected
<1>5. /\ StatusTypes /\ i \in Inspection /\ SoundInspection(i) /\ storing \in Seq(KeyedValue)
      /\ Current(i) => pendingStatus = c
  BY <1>1, <1>4, StatusParts DEF StatusTypes, Ordered, Current
<1>6. /\ v \in Value /\ i.key \in ExecutablePaths /\ v.installed <= installed /\ v.installed \in Nat
      /\ kept \in KeyedValue /\ kept # Unknown /\ kept.key = i.key /\ kept.value = v
  <2>1. v \in Value /\ i.key \in ExecutablePaths BY <1>2, <1>4, <1>5, InspectionIs
  <2>2. kept \in KeyedValue /\ kept.key = i.key /\ kept.value = v BY <2>1, <1>3 DEF KeyedValue
  <2> QED BY <2>1, <2>2, <1>2, <1>4, <1>5, ValueIs DEF SoundInspection
<1>7. /\ refreshed' \in {refreshed, LaterOf(refreshed, v.installed)} /\ (~Current(i) => refreshed' = refreshed)
      /\ UNCHANGED <<paths, installed, settingPaths, counts, invalidated>>
  BY <1>1, <1>4 DEF Ends, Current
<1>8. StatusTypes'
  <2>1. /\ inspections' \in [Watchers -> Inspection \cup {Unknown}] /\ waits' \in [Watchers -> Question \cup {Unknown}]
        /\ pendingStatus' \in Watchers \cup {Unknown} /\ misled' \subseteq {"paths", "installed"} /\ refreshed' \in 0..installed
    BY <1>4, <1>5, <1>6, EndsTypes
  <2>2. statusCache' \in KeyedValue \cup {Unknown} /\ storing' \in Seq(KeyedValue) /\ statusInvalidated' \in BOOLEAN /\ outrun' \in BOOLEAN
    <3>1. statusCache \in KeyedValue \cup {Unknown} /\ statusInvalidated \in BOOLEAN /\ outrun \in BOOLEAN
      BY <1>5 DEF StatusTypes
    <3>2. Append(storing, kept) \in Seq(KeyedValue) BY <1>5, <1>6, AppendProperties
    <3> QED BY <3>1, <3>2, <1>4, <1>5, <1>6
  <2> QED BY <2>1, <2>2, <1>4, <1>5, <1>7 DEF StatusTypes
<1>9. ASSUME StatusesSound, ~outrun' PROVE CacheSound'
  <2>1. CASE Current(i)
    <3>1. /\ PendingSound(i) /\ CacheSound /\ i.key = paths /\ statusCache' = kept /\ statusInvalidated' = FALSE
          /\ storing' = Append(storing, kept)
      BY <1>1, <1>4, <1>5, <1>9, <2>1 DEF StatusesSound
    <3>2. v.paths = paths /\ v.installed >= Floor BY <3>1, <1>2, <1>4 DEF PendingSound, OfItsPaths
    <3>3. v.installed >= Floor'
      <4>1. invalidated \in Nat /\ refreshed \in Nat BY <1>5, FloorIs
      <4>2. v.installed >= invalidated /\ v.installed >= refreshed
        BY <3>2, <4>1, <1>6 DEF Floor, LaterOf
      <4> QED BY <4>1, <4>2, <1>6, <1>7 DEF Floor, LaterOf
    <3>4. OfItsKey(statusCache)' /\ InUse' BY <3>1, <3>2, <1>6, <1>7 DEF OfItsKey, InUse
    <3>5. \A n \in 1..Len(storing') : OfItsKey(storing[n])'
      <4> TAKE n \in 1..Len(storing')
      <4>1. /\ Len(storing') = Len(storing) + 1 /\ storing'[Len(storing) + 1] = kept /\ Len(storing) \in Nat
            /\ \A m \in 1..Len(storing) : storing'[m] = storing[m]
        BY <3>1, <1>5, <1>6, AppendProperties
      <4>2. CASE n \in 1..Len(storing) BY <4>1, <4>2, <3>1 DEF CacheSound, OfItsKey
      <4>3. CASE n = Len(storing) + 1 BY <4>1, <4>3, <3>1, <3>2, <1>6 DEF OfItsKey
      <4> QED BY <4>1, <4>2, <4>3
    <3>6. (stored' # Unknown => OfItsKey(stored)') /\ statusCache'.value.installed >= Floor'
      BY <3>1, <3>3, <1>4, <1>6 DEF CacheSound, OfItsKey
    <3> QED BY <3>4, <3>5, <3>6 DEF CacheSound
  <2>2. CASE ~Current(i)
    BY <2>2, <1>4, <1>7, <1>9 DEF StatusesSound, CacheSound, InUse, Floor, OfItsKey
  <2> QED BY <2>1, <2>2
<1>10. ASSUME StatusesSound, NEW asked \in Question, asked.saved, WaiterSound(asked, i)
       PROVE  v.installed >= asked.floor /\ (asked.changes = counts.paths => v.paths = paths)
  BY <1>2, <1>4, <1>10 DEF WaiterSound, OfItsPaths
<1>11. UNCHANGED <<resolver, statusGeneration>> /\ (~Current(i) => UNCHANGED <<statusCache, statusInvalidated>>)
  BY <1>4
<1>12. outrun => outrun'
  <2>1. Current(i) \/ ~Current(i) OBVIOUS
  <2> QED BY <2>1, <1>4
<1> QED BY <1>1, <1>4, <1>6, <1>8, <1>9, <1>10, <1>11, <1>12, InspectionEnds

\* Nothing that CacheKnows is about changes.
LEMMA KnowsStays ==
  ASSUME StatusKept, outrun => outrun',
         UNCHANGED <<paths, settingPaths, resolver, statusCache, pendingStatus, inspections, waits, invalidated, refreshed>>
  PROVE  outrun' \/ CacheKnows'
BY DEF StatusKept, CacheKnows, InUse, Floor, MayBeCached

LEMMA SetPathsKnows == ASSUME StatusKept, SetPaths PROVE outrun' \/ CacheKnows'
<1>1. /\ settingPaths = Unknown /\ settingPaths' # Unknown /\ paths' # paths
      /\ UNCHANGED <<resolver, statusCache, pendingStatus, inspections, waits, invalidated, refreshed, outrun>>
  <2>1. paths # Unknown BY StatusParts, ValueIs DEF StatusTypes, StatusKept
  <2> QED BY <2>1 DEF SetPaths, cacheVars, callVars, storeVars, historyVars
<1>2. ASSUME CacheKnows PROVE CacheKnows'
  <2>1. ~InUse' BY <1>1, <1>2 DEF CacheKnows, InUse
  <2>2. resolver'.cache # Unknown => resolver'.settingsKey # paths' BY <1>1, <1>2 DEF CacheKnows
  <2> QED BY <1>1, <1>2, <2>1, <2>2 DEF CacheKnows, MayBeCached
<1> QED BY <1>1, <1>2 DEF StatusKept

\* Everything is dropped.
LEMMA DroppedKnows == ASSUME StatusKept, PathsSaved \/ Restart PROVE outrun' \/ CacheKnows'
<1>1. /\ resolver'.cache = Unknown /\ statusCache' = Unknown /\ pendingStatus' = Unknown
      /\ inspections' = inspections \/ inspections' = [c \in Watchers |-> Unknown]
  <2>1. CASE PathsSaved
    <3>1. resolver' = [resolver EXCEPT !.generation = @ + 1, !.cache = Unknown] BY <2>1 DEF PathsSaved
    <3>2. StatusTypes BY StatusParts DEF StatusKept
    <3>3. resolver'.cache = Unknown BY <3>1, <3>2 DEF StatusTypes
    <3> QED BY <2>1, <3>3 DEF PathsSaved, callVars
  <2>2. CASE Restart
    <3>1. resolver' = [settingsKey |-> Unknown, generation |-> 0, cache |-> Unknown] BY <2>2 DEF Restart
    <3>2. resolver'.cache = Unknown BY <3>1
    <3> QED BY <2>2, <3>2 DEF Restart
  <2> QED BY <2>1, <2>2
<1>2. ASSUME NEW c \in Watchers, inspections'[c] # Unknown, inspections'[c].stage = "discovering"
      PROVE  inspections'[c].discovery # resolver'.generation
  <2>1. PathsSaved /\ inspections' = inspections BY <1>2 DEF PathsSaved, Restart, callVars
  <2>2. /\ inspections[c].discovery \in Nat /\ inspections[c].discovery <= resolver.generation /\ resolver.generation \in Nat
    BY <1>2, <2>1, StatusParts, InspectionIs DEF SoundInspection, StatusTypes, StatusKept
  <2>3. resolver'.generation = resolver.generation + 1
    BY <2>1, StatusParts DEF PathsSaved, StatusTypes, StatusKept
  <2> QED BY <2>1, <2>2, <2>3
<1> QED BY <1>1, <1>2, ValueIs DEF CacheKnows

\* A new question: unless it is forced, what was found last was not in use.
LEMMA JoinKnows ==
  ASSUME StatusKept, NEW c \in Watchers, NEW force \in BOOLEAN, Join(c, force)
  PROVE  outrun' \/ CacheKnows'
<1>1. StatusTypes /\ StatusInv BY StatusParts DEF StatusKept
<1>2. PICK on \in Watchers : on = pendingStatus BY <1>1 DEF Join, Joins, StatusTypes
<1>3. /\ waits' = [waits EXCEPT ![c] = Asked(on)] /\ inspections[on].key = paths
      /\ UNCHANGED <<paths, settingPaths, resolver, statusCache, pendingStatus, inspections, invalidated, refreshed, outrun>>
  BY <1>2 DEF Join, Joins, cacheVars, storeVars, historyVars
<1>4. PICK asked : asked = Asked(on) OBVIOUS
<1>5. /\ asked.on = on /\ asked.saved = (settingPaths = Unknown) /\ asked.floor = Floor
      /\ \A d \in Watchers : waits'[d] = IF d = c THEN asked ELSE waits[d]
  BY <1>1, <1>3, <1>4, AskedIs DEF StatusTypes
<1>6. ASSUME CacheKnows, resolver.cache # Unknown, asked.saved, MayBeCached(inspections[on])
      PROVE  resolver.cache.installed >= asked.floor
  BY <1>2, <1>3, <1>5, <1>6 DEF CacheKnows, MayBeCached
<1>7. CacheKnows => CacheKnows' BY <1>3, <1>5, <1>6 DEF CacheKnows, InUse, Floor, MayBeCached
<1> QED BY <1>3, <1>7 DEF StatusKept

LEMMA BeginCheckKnows ==
  ASSUME StatusKept, NEW c \in Watchers, NEW force \in BOOLEAN, BeginCheck(c, force)
  PROVE  outrun' \/ CacheKnows'
<1>1. StatusTypes /\ StatusInv BY StatusParts DEF StatusKept
<1>2. PICK i \in Inspection : /\ inspections' = [inspections EXCEPT ![c] = i] /\ i.key = paths /\ i.force = force
                              /\ i.stage = IF ~force /\ ~statusInvalidated THEN "loading" ELSE "inspecting"
  BY <1>1, BeginCheckTypes
<1>3. /\ waits' = [waits EXCEPT ![c] = Asked(c)] /\ inspections[c] = Unknown /\ (i.force \/ ~InUse) /\ pendingStatus' = c
      /\ UNCHANGED <<paths, settingPaths, resolver, statusCache, invalidated, refreshed, outrun>>
  BY <1>2 DEF BeginCheck, InUse, storeVars, historyVars
<1>4. PICK asked : asked = Asked(c) OBVIOUS
<1>5. /\ asked.on = c /\ asked.saved = (settingPaths = Unknown) /\ asked.floor = Floor
      /\ \A d \in Watchers : waits'[d] = IF d = c THEN asked ELSE waits[d]
      /\ \A d \in Watchers : inspections'[d] = IF d = c THEN i ELSE inspections[d]
  BY <1>1, <1>2, <1>3, <1>4, AskedIs DEF StatusTypes
<1>6. i.stage # "discovering" /\ \A d \in Watchers : waits[d] # Unknown => waits[d].on \in Watchers \ {c}
  BY <1>1, <1>2, <1>3, StatusParts
<1>7. ASSUME CacheKnows PROVE CacheKnows'
  <2>1. ASSUME NEW d \in Watchers, resolver.cache # Unknown, waits'[d] # Unknown, waits'[d].saved,
               MayBeCached(inspections'[waits'[d].on])
        PROVE  resolver.cache.installed >= waits'[d].floor
    <3>1. CASE d = c
      <4>1. settingPaths = Unknown BY <3>1, <2>1, <1>5
      <4>2. ~i.force BY <3>1, <2>1, <1>5 DEF MayBeCached
      <4>3. ~InUse BY <4>2, <1>3
      <4>4. resolver.cache.installed >= Floor BY <4>1, <4>3, <2>1, <1>7 DEF CacheKnows
      <4> QED BY <4>4, <3>1, <1>5
    <3>2. CASE d # c BY <3>2, <2>1, <1>5, <1>6, <1>7 DEF CacheKnows
    <3> QED BY <3>1, <3>2
  <2> QED BY <2>1, <1>2, <1>3, <1>5, <1>6, <1>7 DEF CacheKnows, InUse, Floor, MayBeCached
<1> QED BY <1>3, <1>7 DEF StatusKept

\* An inspection goes on, with what was cached or with what was found just now.
LEMMA GoesOnKnows ==
  ASSUME StatusKept, NEW c \in Watchers, NEW i, inspections' = [inspections EXCEPT ![c] = i], inspections[c] # Unknown,
         i.force = inspections[c].force, i.key = inspections[c].key, MayBeCached(i) => MayBeCached(inspections[c]),
         UNCHANGED <<paths, installed, settingPaths, statusCache, pendingStatus, waits, invalidated, refreshed, outrun>>,
         CacheKnows /\ resolver'.cache # Unknown =>
           \/ resolver'.cache = resolver.cache /\ resolver'.settingsKey = resolver.settingsKey
           \/ resolver'.cache.installed = installed /\ (settingPaths = Unknown => resolver'.settingsKey = paths),
         CacheKnows => \A d \in Watchers :
           settingPaths = Unknown /\ inspections'[d] # Unknown /\ inspections'[d].stage = "discovering" =>
             (inspections'[d].discovery = resolver'.generation => resolver'.settingsKey = paths)
  PROVE  outrun' \/ CacheKnows'
<1>1. StatusTypes /\ StatusInv /\ (outrun \/ (StatusesSound /\ CacheKnows)) BY StatusParts DEF StatusKept
<1>2. \A d \in Watchers : inspections'[d] = IF d = c THEN i ELSE inspections[d] BY <1>1 DEF StatusTypes
<1>3. ASSUME StatusesSound, CacheKnows PROVE CacheKnows'
  <2>1. ASSUME NEW d \in Watchers, waits[d] # Unknown, waits[d].saved, MayBeCached(inspections'[waits[d].on]), resolver'.cache # Unknown
        PROVE  resolver'.cache.installed >= waits[d].floor
    <3>1. waits[d].on \in Watchers /\ MayBeCached(inspections[waits[d].on]) BY <2>1, <1>1, <1>2, StatusParts
    <3>2. CASE resolver'.cache = resolver.cache BY <3>1, <3>2, <2>1, <1>3 DEF CacheKnows
    <3>3. CASE resolver'.cache.installed = installed
      <4>1. installed >= waits[d].floor
        <5>1. waits[d].floor <= installed BY <2>1, <1>3 DEF StatusesSound, WaiterSound
        <5>2. waits[d].floor \in Nat /\ installed \in Nat BY <2>1, <1>1, StatusParts, QuestionIs, FloorIs
        <5> QED BY <5>1, <5>2
      <4> QED BY <4>1, <3>3
    <3> QED BY <3>2, <3>3, <2>1, <1>3
  <2>2. InUse' = InUse /\ Floor' = Floor BY DEF InUse, Floor
  <2>3. resolver'.cache # Unknown => /\ settingPaths' = Unknown => resolver'.settingsKey = paths'
                                     /\ resolver'.settingsKey = paths' /\ ~InUse' => resolver'.cache.installed >= Floor'
    <3>1. installed >= Floor BY <1>1, FloorIs
    <3> QED BY <3>1, <2>2, <1>3 DEF CacheKnows
  <2>4. ASSUME NEW d \in Watchers
        PROVE  pendingStatus' = d => (~inspections'[d].force \/ inspections'[d].key # paths' => ~InUse')
    BY <2>2, <1>2, <1>3 DEF CacheKnows
  <2>5. statusCache' # Unknown /\ settingPaths' = Unknown => InUse' BY <2>2, <1>3 DEF CacheKnows
  <2> QED BY <2>1, <2>3, <2>4, <2>5, <1>3 DEF CacheKnows
<1> QED BY <1>1, <1>3

LEMMA LoadsNothingKnows == ASSUME StatusKept, NEW c \in Watchers, LoadsNothing(c) PROVE outrun' \/ CacheKnows'
<1>1. StatusTypes /\ StatusInv BY StatusParts DEF StatusKept
<1>2. PICK old : old = inspections[c] OBVIOUS
<1>3. PICK i : i = [old EXCEPT !.stage = "inspecting"] OBVIOUS
<1>4. /\ old # Unknown /\ old.stage = "loading" /\ inspections' = [inspections EXCEPT ![c].stage = "inspecting"]
      /\ UNCHANGED <<paths, installed, settingPaths, resolver, statusCache, pendingStatus, waits, invalidated, refreshed, outrun>>
  BY <1>2 DEF LoadsNothing, cacheVars, historyVars
<1>5. inspections' = [inspections EXCEPT ![c] = i] /\ old \in Inspection
  BY <1>1, <1>2, <1>3, <1>4, StatusParts DEF StatusTypes
<1>6. i.force = old.force /\ i.key = old.key /\ i.stage = "inspecting"
  <2>1. old \in [stage : {"loading", "inspecting"}, key : ExecutablePaths, force : BOOLEAN, generation : Nat]
    BY <1>4, <1>5 DEF Inspection
  <2> QED BY <2>1, <1>3
<1>7. MayBeCached(i) => MayBeCached(old) BY <1>4, <1>6 DEF MayBeCached
<1>8. CacheKnows => \A d \in Watchers :
        settingPaths = Unknown /\ inspections'[d] # Unknown /\ inspections'[d].stage = "discovering" =>
          (inspections'[d].discovery = resolver'.generation => resolver'.settingsKey = paths)
  <2>1. \A d \in Watchers : inspections'[d] = IF d = c THEN i ELSE inspections[d] BY <1>1, <1>5 DEF StatusTypes
  <2> QED BY <2>1, <1>4, <1>6 DEF CacheKnows
<1> QED BY <1>2, <1>4, <1>5, <1>6, <1>7, <1>8, GoesOnKnows

LEMMA DiscoverKnows == ASSUME StatusKept, NEW c \in Watchers, Discover(c) PROVE outrun' \/ CacheKnows'
<1>1. StatusTypes /\ StatusInv BY StatusParts DEF StatusKept
<1>2. PICK old : old = inspections[c] OBVIOUS
<1>3. PICK generation : generation = resolver.generation + (IF resolver.settingsKey # paths THEN 1 ELSE 0) + (IF old.force THEN 1 ELSE 0)
  OBVIOUS
<1>4. PICK i : /\ inspections' = [inspections EXCEPT ![c] = i] /\ i.force = old.force /\ i.key = old.key
               /\ i.stage \in {"inspected", "discovering"}
  <2>1. PICK value, n : inspections' \in
          {[inspections EXCEPT ![c] = [stage |-> "inspected", key |-> old.key, force |-> old.force,
                                       generation |-> old.generation, value |-> value]],
           [inspections EXCEPT ![c] = [stage |-> "discovering", key |-> old.key, force |-> old.force,
                                       generation |-> old.generation, discovery |-> n, paths |-> paths]]}
    BY <1>2 DEF Discover
  <2>2. PICK found : found = [stage |-> "inspected", key |-> old.key, force |-> old.force,
                              generation |-> old.generation, value |-> value]
    OBVIOUS
  <2>3. PICK looking : looking = [stage |-> "discovering", key |-> old.key, force |-> old.force,
                                  generation |-> old.generation, discovery |-> n, paths |-> paths]
    OBVIOUS
  <2>4. found.force = old.force /\ found.key = old.key /\ found.stage = "inspected" BY <2>2
  <2>5. looking.force = old.force /\ looking.key = old.key /\ looking.stage = "discovering" BY <2>3
  <2>6. inspections' = [inspections EXCEPT ![c] = found] \/ inspections' = [inspections EXCEPT ![c] = looking]
    BY <2>1, <2>2, <2>3
  <2> QED BY <2>4, <2>5, <2>6
<1>5. /\ old # Unknown /\ old.stage = "inspecting"
      /\ resolver' = [settingsKey |-> paths, generation |-> generation,
                      cache |-> IF resolver.settingsKey # paths \/ old.force THEN Unknown ELSE resolver.cache]
      /\ UNCHANGED <<paths, installed, settingPaths, statusCache, pendingStatus, waits, invalidated, refreshed, outrun>>
  BY <1>2, <1>3 DEF Discover, cacheVars, historyVars
<1>6. resolver'.settingsKey = paths
      /\ (resolver'.cache # Unknown => resolver'.cache = resolver.cache /\ resolver'.settingsKey = resolver.settingsKey)
  BY <1>5
<1>7. ~MayBeCached(i) BY <1>4 DEF MayBeCached
<1> QED BY <1>2, <1>4, <1>5, <1>6, <1>7, GoesOnKnows

LEMMA DiscoveredKnows == ASSUME StatusKept, NEW c \in Watchers, Discovered(c) PROVE outrun' \/ CacheKnows'
<1>1. StatusTypes /\ StatusInv BY StatusParts DEF StatusKept
<1>2. PICK old : old = inspections[c] OBVIOUS
<1>3. PICK v : v = [paths |-> old.paths, installed |-> installed] OBVIOUS
<1>4. PICK i : i = [stage |-> "inspected", key |-> old.key, force |-> old.force, generation |-> old.generation, value |-> v]
  OBVIOUS
<1>5. /\ old # Unknown /\ old.stage = "discovering" /\ inspections' = [inspections EXCEPT ![c] = i]
      /\ resolver' = [resolver EXCEPT !.cache = IF old.discovery = resolver.generation THEN v ELSE @]
      /\ UNCHANGED <<paths, installed, settingPaths, statusCache, pendingStatus, waits, invalidated, refreshed, outrun>>
  BY <1>2, <1>3, <1>4 DEF Discovered, KeepsDiscovered, cacheVars, historyVars
<1>6. /\ resolver'.settingsKey = resolver.settingsKey /\ resolver'.generation = resolver.generation
      /\ resolver'.cache = IF old.discovery = resolver.generation THEN v ELSE resolver.cache
  BY <1>1, <1>5 DEF StatusTypes
<1>7. CacheKnows /\ resolver'.cache # Unknown =>
        \/ resolver'.cache = resolver.cache /\ resolver'.settingsKey = resolver.settingsKey
        \/ resolver'.cache.installed = installed /\ (settingPaths = Unknown => resolver'.settingsKey = paths)
  BY <1>2, <1>3, <1>5, <1>6 DEF CacheKnows
<1>8. i.force = old.force /\ i.key = old.key /\ i.stage = "inspected" /\ ~MayBeCached(i) BY <1>4 DEF MayBeCached
<1>9. CacheKnows => \A d \in Watchers :
        settingPaths = Unknown /\ inspections'[d] # Unknown /\ inspections'[d].stage = "discovering" =>
          (inspections'[d].discovery = resolver'.generation => resolver'.settingsKey = paths)
  <2>1. \A d \in Watchers : inspections'[d] = IF d = c THEN i ELSE inspections[d] BY <1>1, <1>5 DEF StatusTypes
  <2> QED BY <2>1, <1>5, <1>6, <1>8 DEF CacheKnows
<1> QED BY <1>2, <1>5, <1>7, <1>8, <1>9, GoesOnKnows

\* An inspection ends: what it found is in use from now on if it was forced.
LEMMA EndKnows == ASSUME StatusKept, NEW c \in Watchers, LoadSaved(c) \/ Inspected(c) PROVE outrun' \/ CacheKnows'
<1>1. StatusTypes /\ StatusInv /\ (outrun \/ (StatusesSound /\ CacheKnows)) BY StatusParts DEF StatusKept
<1>2. PICK i : i = inspections[c] OBVIOUS
<1>3. PICK v, kept :
        /\ i # Unknown /\ Ends(c, v) /\ UNCHANGED resolver /\ i.stage \in {"loading", "inspected"}
        /\ kept \in KeyedValue /\ kept.key = i.key
        /\ statusCache' = IF Current(i) THEN kept ELSE statusCache
        /\ outrun' = (outrun \/ (i.stage = "inspected" /\ Current(i) /\ i.key # paths))
  <2>1. CASE LoadSaved(c)
    <3>1. /\ i # Unknown /\ Ends(c, stored.value) /\ UNCHANGED resolver /\ i.stage = "loading"
          /\ stored # Unknown /\ stored.key = i.key /\ statusCache' = IF Current(i) THEN stored ELSE statusCache
          /\ outrun' = outrun
      BY <2>1, <1>2 DEF LoadSaved
    <3>2. stored \in KeyedValue /\ outrun \in BOOLEAN BY <3>1, <1>1 DEF StatusTypes
    <3> QED BY <3>1, <3>2
  <2>2. CASE Inspected(c)
    <3>1. PICK kept : kept = [key |-> i.key, value |-> i.value] OBVIOUS
    <3>2. /\ i # Unknown /\ Ends(c, i.value) /\ UNCHANGED resolver /\ i.stage = "inspected"
          /\ statusCache' = IF Current(i) THEN kept ELSE statusCache
          /\ outrun' = IF Current(i) THEN outrun \/ i.key # paths ELSE outrun
      BY <2>2, <3>1, <1>2 DEF Inspected
    <3>3. i.key \in ExecutablePaths /\ i.value \in Value BY <3>2, <1>1, <1>2, StatusParts, InspectionIs
    <3>4. kept \in KeyedValue /\ kept.key = i.key /\ outrun \in BOOLEAN BY <3>1, <3>3, <1>1 DEF KeyedValue, StatusTypes
    <3> QED BY <3>2, <3>4
  <2> QED BY <2>1, <2>2
<1>4. /\ outrun => outrun'
      /\ ~Current(i) => statusCache' = statusCache
      /\ Current(i) => /\ statusCache'.key = i.key /\ statusCache' # Unknown
                       /\ i.key = paths \/ i.stage = "loading" \/ outrun'
  BY <1>3, ValueIs
<1>5. /\ inspections' = [inspections EXCEPT ![c] = Unknown] /\ UNCHANGED <<paths, installed, settingPaths, invalidated>>
      /\ waits' = [d \in Watchers |-> IF waits[d] # Unknown /\ waits[d].on = c THEN Unknown ELSE waits[d]]
      /\ pendingStatus' = IF pendingStatus = c THEN Unknown ELSE pendingStatus
      /\ ~Current(i) \/ ~i.force => refreshed' = refreshed
  BY <1>2, <1>3 DEF Ends, Current
<1>6. /\ Current(i) <=> pendingStatus = c
      /\ i.stage = "loading" => ~i.force
  BY <1>1, <1>2, <1>3, StatusParts DEF Ordered, Current, SoundInspection
<1>7. \A d \in Watchers : /\ inspections'[d] = IF d = c THEN Unknown ELSE inspections[d]
                          /\ waits'[d] # Unknown => waits'[d] = waits[d] /\ waits[d] # Unknown /\ waits[d].on \in Watchers \ {c}
                          /\ pendingStatus' = d => pendingStatus = d /\ d # c
  BY <1>1, <1>5, StatusParts, ValueIs DEF StatusTypes
<1>8. ASSUME StatusesSound, CacheKnows, ~outrun' PROVE CacheKnows'
  <2>1. CASE ~Current(i)
    <3>1. InUse' = InUse /\ Floor' = Floor BY <2>1, <1>4, <1>5 DEF InUse, Floor
    <3> QED BY <3>1, <2>1, <1>3, <1>4, <1>5, <1>7, <1>8 DEF CacheKnows
  <2>2. CASE Current(i)
    <3>1. PendingSound(i) /\ pendingStatus = c /\ \A d \in Watchers : pendingStatus' # d
      BY <2>2, <1>2, <1>6, <1>7, <1>8 DEF StatusesSound
    <3>2. statusCache' # Unknown /\ settingPaths' = Unknown => InUse'
      BY <3>1, <2>2, <1>4, <1>5 DEF PendingSound, InUse
    <3>3. resolver'.cache # Unknown /\ resolver'.settingsKey = paths' /\ ~InUse' => resolver'.cache.installed >= Floor'
      <4> SUFFICES ASSUME resolver.cache # Unknown, resolver.settingsKey = paths, ~InUse'
                   PROVE  resolver.cache.installed >= Floor'
        BY <1>3, <1>5
      <4>1. CASE i.stage = "loading"
        <5>1. ~InUse BY <4>1, <3>1, <1>2, <1>6, <1>8 DEF CacheKnows
        <5>2. Floor' = Floor BY <4>1, <1>5, <1>6 DEF Floor
        <5> QED BY <5>1, <5>2, <1>8 DEF CacheKnows
      <4>2. CASE i.key = paths /\ i.stage = "inspected"
        BY <4>2, <2>2, <1>4, <1>5 DEF InUse
      <4> QED BY <4>1, <4>2, <2>2, <1>3, <1>4, <1>8
    <3> QED BY <3>1, <3>2, <3>3, <1>3, <1>5, <1>7, <1>8 DEF CacheKnows
  <2> QED BY <2>1, <2>2
<1> QED BY <1>1, <1>4, <1>8

\* What is cached was installed.
LEMMA CachedInstalled ==
  ASSUME StatusKept, [StatusesNext]_statusVars
  PROVE  resolver'.cache # Unknown => resolver'.cache.installed <= installed'
<1>1. /\ resolver.cache # Unknown => resolver.cache.installed \in Nat /\ resolver.cache.installed <= installed
      /\ installed \in Nat /\ StatusTypes
  <2>1. StatusTypes BY StatusParts DEF StatusKept
  <2> QED BY <2>1, ValueIs, FloorIs DEF StatusTypes, StatusKept
<1>2. CASE Install \/ SetPaths \/ PathsSaved \/ Restart \/ StoreWritten \/ UNCHANGED statusVars
  <2>1. installed' \in {installed, installed + 1}
    BY <1>2 DEF Install, SetPaths, PathsSaved, Restart, StoreWritten, statusVars
  <2>2. CASE PathsSaved
    <3>1. resolver' = [resolver EXCEPT !.generation = @ + 1, !.cache = Unknown] BY <2>2 DEF PathsSaved
    <3>2. resolver'.cache = Unknown BY <1>1, <3>1 DEF StatusTypes
    <3> QED BY <3>2, <2>1, <1>1
  <2>3. CASE Restart
    <3>1. resolver' = [settingsKey |-> Unknown, generation |-> 0, cache |-> Unknown] BY <2>3 DEF Restart
    <3> QED BY <3>1
  <2>4. CASE Install \/ SetPaths \/ StoreWritten \/ UNCHANGED statusVars
    <3>1. resolver' = resolver BY <2>4 DEF Install, SetPaths, StoreWritten, statusVars
    <3> QED BY <3>1, <2>1, <1>1
  <2> QED BY <1>2, <2>2, <2>3, <2>4
<1>3. ASSUME NEW c \in Watchers, Cached(c) \/ LoadSaved(c) \/ LoadsNothing(c) \/ Discover(c) \/ Inspected(c)
      PROVE  installed' = installed /\ (resolver'.cache # Unknown => resolver'.cache = resolver.cache)
  <2>1. installed' = installed BY <1>3 DEF Cached, LoadSaved, LoadsNothing, Discover, Inspected, Ends
  <2>2. resolver'.cache \in {resolver.cache, Unknown}
    BY <1>3 DEF Cached, LoadSaved, LoadsNothing, Discover, Inspected
  <2> QED BY <2>1, <2>2
<1>4. ASSUME NEW c \in Watchers, Discovered(c)
      PROVE  installed' = installed /\ (resolver'.cache = resolver.cache \/ resolver'.cache.installed = installed)
  BY <1>1, <1>4 DEF Discovered, StatusTypes
<1>5. ASSUME NEW c \in Watchers, NEW force \in BOOLEAN, Join(c, force) \/ BeginCheck(c, force)
      PROVE  installed' = installed /\ resolver' = resolver
  BY <1>5 DEF Join, BeginCheck
<1> QED BY <1>1, <1>2, <1>3, <1>4, <1>5 DEF StatusesNext

LEMMA KnowsStep == ASSUME StatusKept, [StatusesNext]_statusVars PROVE outrun' \/ CacheKnows'
<1>1. CASE Install \/ StoreWritten \/ UNCHANGED statusVars
  BY <1>1, KnowsStays DEF Install, StoreWritten, cacheVars, callVars, historyVars, statusVars
<1>2. CASE SetPaths \/ PathsSaved \/ Restart BY <1>2, SetPathsKnows, DroppedKnows
<1>3. ASSUME NEW c \in Watchers, Cached(c) PROVE outrun' \/ CacheKnows'
  BY <1>3, KnowsStays DEF Cached, cacheVars, callVars
<1>4. ASSUME NEW c \in Watchers, LoadSaved(c) \/ LoadsNothing(c) \/ Discover(c) \/ Discovered(c) \/ Inspected(c)
      PROVE  outrun' \/ CacheKnows'
  BY <1>4, EndKnows, LoadsNothingKnows, DiscoverKnows, DiscoveredKnows
<1>5. ASSUME NEW c \in Watchers, NEW force \in BOOLEAN, Join(c, force) \/ BeginCheck(c, force) PROVE outrun' \/ CacheKnows'
  BY <1>5, JoinKnows, BeginCheckKnows
<1> QED BY <1>1, <1>2, <1>3, <1>4, <1>5 DEF StatusesNext

\* Nothing is known at first.
LEMMA StatusesBegin == ASSUME StatusesInit PROVE StatusKept
<1>1. /\ paths \in ExecutablePaths /\ installed = 0 /\ settingPaths = Unknown
      /\ resolver = [settingsKey |-> Unknown, generation |-> 0, cache |-> Unknown]
      /\ statusGeneration = 0 /\ statusCache = Unknown /\ statusInvalidated = FALSE /\ pendingStatus = Unknown
      /\ inspections = [c \in Watchers |-> Unknown] /\ waits = [c \in Watchers |-> Unknown]
      /\ stored = Unknown /\ storing = <<>>
      /\ counts = [installs |-> 0, paths |-> 0, checks |-> 0, restarts |-> 0]
      /\ invalidated = 0 /\ refreshed = 0 /\ misled = {} /\ outrun = FALSE
  BY DEF StatusesInit
<1>2. StatusTypes
  <2>1. counts \in [installs : Nat, paths : Nat, checks : Nat, restarts : Nat] /\ counts.installs = 0
    BY <1>1
  <2>2. resolver \in [settingsKey : ExecutablePaths \cup {Unknown}, generation : Nat, cache : Value \cup {Unknown}]
    BY <1>1
  <2>3. storing \in Seq(KeyedValue) /\ installed \in 0..MaxInstalls /\ invalidated \in 0..installed /\ refreshed \in 0..installed
    BY <1>1, ValueIs
  <2>4. inspections \in [Watchers -> Inspection \cup {Unknown}] /\ waits \in [Watchers -> Question \cup {Unknown}]
    BY <1>1
  <2> QED BY <1>1, <2>1, <2>2, <2>3, <2>4 DEF StatusTypes
<1>3. \A c \in Watchers : pendingStatus # c /\ inspections[c] = Unknown /\ waits[c] = Unknown
  BY <1>1, ValueIs
<1>4. Len(storing) = 0 /\ Floor = 0 BY <1>1 DEF Floor, LaterOf
<1>5. StatusesSound BY <1>1, <1>3, <1>4 DEF StatusesSound, CacheSound, InUse
<1> QED BY <1>1, <1>2, <1>3, <1>5 DEF StatusKept, CacheKnows, StatusInv, Ordered

LEMMA StatusesStutter == ASSUME StatusInv, UNCHANGED statusVars PROVE StatusInv'
<1>1. UNCHANGED <<paths, installed, settingPaths, resolver, statusGeneration, statusCache, statusInvalidated, pendingStatus,
                  inspections, waits, stored, storing, counts, invalidated, refreshed, misled, outrun>>
  BY DEF statusVars
<1>2. StatusTypes' BY <1>1, StatusParts DEF StatusTypes
<1>3. \A c \in Watchers : Ordered(c)' /\ (inspections'[c] # Unknown => SoundInspection(inspections[c])')
  BY <1>1, StatusParts DEF Ordered, SoundInspection
<1>4. StatusesSound => StatusesSound'
  BY <1>1 DEF StatusesSound, CacheSound, PendingSound, WaiterSound, OfItsPaths, OfItsKey, InUse, Floor
<1> QED BY <1>1, <1>2, <1>3, <1>4, StatusParts DEF StatusInv

LEMMA StatusesStep == StatusKept /\ [StatusesNext]_statusVars => StatusKept'
<1> SUFFICES ASSUME StatusKept, [StatusesNext]_statusVars PROVE StatusInv'
  BY KnowsStep, CachedInstalled DEF StatusKept
<1>0. StatusInv BY DEF StatusKept
<1>1. CASE Install \/ SetPaths \/ PathsSaved \/ Restart \/ StoreWritten
  BY <1>0, <1>1, InstallKeeps, SetPathsKeeps, PathsSavedKeeps, RestartKeeps, StoreWrittenKeeps
<1>2. ASSUME NEW c \in Watchers, Cached(c) \/ LoadSaved(c) \/ LoadsNothing(c) \/ Discover(c) \/ Discovered(c) \/ Inspected(c)
      PROVE  StatusInv'
  BY <1>0, <1>2, CachedKeeps, LoadSavedKeeps, LoadsNothingKeeps, DiscoverKeeps, DiscoveredKeeps, InspectedKeeps
<1>3. ASSUME NEW c \in Watchers, NEW force \in BOOLEAN, Join(c, force) \/ BeginCheck(c, force) PROVE StatusInv'
  BY <1>0, <1>3, JoinKeeps, BeginCheckKeeps
<1>4. CASE UNCHANGED statusVars BY <1>0, <1>4, StatusesStutter
<1> QED BY <1>1, <1>2, <1>3, <1>4 DEF StatusesNext

LEMMA StatusesHold == StatusKept => StatusesKeepUp
BY DEF StatusKept, StatusInv, StatusesSound, StatusesKeepUp

\* An answer about the AI programs is of the present paths and no older than the last change the
\* program knows of, for any number of questions, changes and restarts.
THEOREM StatusesStayUpToDate == StatusesSpec => []StatusesKeepUp
<1>1. StatusesInit => StatusKept BY StatusesBegin
<1> QED BY <1>1, StatusesHold, StatusesStep, PTL DEF StatusesSpec
------------------------------
(* Types.  Of each component what its own invariant leaves open: counters *)
(* stay within their bounds, and logins are logins. *)

SettingsLimits == timers \subseteq Channels /\ sets \in 0..MaxSets /\ failures \in 0..MaxFailures

LEMMA SettingsLimitsStep ==
  SettingsInv /\ SettingsLimits /\ [SettingsNext]_settingsVars => SettingsLimits'
<1> SUFFICES ASSUME SettingsInv, SettingsLimits, [SettingsNext]_settingsVars PROVE SettingsLimits'
  OBVIOUS
<1> USE DEF SettingsLimits
<1>1. CASE Set BY <1>1, SettingsAssumption DEF Set
<1>2. CASE SetInBackground BY <1>2, SettingsAssumption DEF SetInBackground
<1>3. CASE Timer BY <1>3 DEF Timer
<1>4. CASE Finished /\ UNCHANGED <<timers, sets, failures>> BY <1>4
<1>5. CASE Failed /\ UNCHANGED <<timers, sets>> BY <1>5, SettingsAssumption DEF Failed, Fail
<1>6. CASE WriteBegin \/ WritePrimary \/ WriteBackup
  BY <1>4, <1>5, <1>6 DEF WriteBegin, WritePrimary, WriteBackup
<1>7. CASE FlushBegin \/ FlushNext \/ Load BY <1>7 DEF FlushBegin, FlushNext, Load
<1>8. CASE StopSettings BY <1>8, SettingsAssumption DEF StopSettings, Fail
<1>9. CASE Damage BY <1>9, SettingsAssumption DEF Damage, Fail
<1>10. CASE UNCHANGED settingsVars BY <1>10 DEF settingsVars
<1> QED BY <1>1, <1>2, <1>3, <1>6, <1>7, <1>8, <1>9, <1>10 DEF SettingsNext

\* The settings, the queue and the flush have their types.
LEMMA SettingsTypeCorrect == SettingsSpec => []SettingsTypeOK
<1>1. SettingsInit => SettingsLimits BY SettingsAssumption DEF SettingsInit, SettingsLimits
<1>2. SettingsInv /\ SettingsLimits => SettingsTypeOK
  <2> SUFFICES ASSUME SettingsInv, SettingsLimits PROVE SettingsTypeOK
    OBVIOUS
  <2>1. StoreShape /\ FlushShape BY DEF SettingsInv
  <2>2. \A i \in DOMAIN queue : queue[i] \in Write BY <2>1 DEF StoreShape
  <2>3. flush.stage \in {"none", "first", "second", "third", "failed", "done"} /\ flush.left \in 0..Len(queue)
    BY <2>1 DEF FlushShape, FlushStages, StoreShape
  <2> QED BY <2>1, <2>2, <2>3 DEF StoreShape, SettingsTypeOK, SettingsLimits
<1> QED BY <1>1, <1>2, SettingsInvHolds, SettingsLimitsStep, PTL DEF SettingsSpec

LEMMA SameDomain ==
  ASSUME NEW S, NEW T, NEW s \in Seq(S), NEW t \in Seq(T), DOMAIN s = DOMAIN t
  PROVE  Len(s) = Len(t)
<1>1. Len(s) \in Nat /\ Len(t) \in Nat /\ 1..Len(s) = 1..Len(t) BY LenProperties
<1>2. Len(s) # 0 => Len(s) \in 1..Len(t) BY <1>1
<1>3. Len(t) # 0 => Len(t) \in 1..Len(s) BY <1>1
<1> QED BY <1>1, <1>2, <1>3

GenerationLimits == Len(generations) <= MaxGenerations

LEMMA GenerationLimitsStep ==
  GenerationInv /\ GenerationInv' /\ GenerationLimits /\ [GenerationsNext]_aiVars => GenerationLimits'
<1> SUFFICES ASSUME GenerationInv, GenerationInv', GenerationLimits, [GenerationsNext]_aiVars
             PROVE  GenerationLimits'
  OBVIOUS
<1>1. generations \in Seq(Generation) /\ generations' \in Seq(Generation)
  BY DEF GenerationInv, GenerationShape
<1>2. CASE DOMAIN generations' = DOMAIN generations BY <1>1, <1>2, SameDomain DEF GenerationLimits
<1>3. ASSUME NEW t \in Tabs, Generate(t) PROVE GenerationLimits'
  <2>1. PICK g : generations' = Append(generations, g) /\ Len(generations) < MaxGenerations
    BY <1>3 DEF Generate
  <2> QED BY <1>1, <2>1, GenerationsAssumption DEF GenerationLimits
<1>4. ASSUME NEW n \in Ids,
             StatusKnown(n) \/ StatusRefuses(n) \/ Reads(n) \/ StartProgram(n) \/ ProgramAnswers(n)
      PROVE  GenerationLimits'
  <2>1. DOMAIN generations' = DOMAIN generations
    BY <1>4 DEF StatusKnown, StatusRefuses, Reads, StartProgram, ProgramAnswers, GoesTo, EndsAs
  <2> QED BY <1>2, <2>1
<1>5. ASSUME NEW n \in Ids,
             ProgramKilled(n) \/ GenerationFails(n) \/ ReadsInstructionsAgain(n) \/ Abandoned(n) \/ Delivered(n)
      PROVE  GenerationLimits'
  <2>1. DOMAIN generations' = DOMAIN generations
    BY <1>5 DEF ProgramKilled, GenerationFails, ReadsInstructionsAgain, Abandoned, Delivered, GoesTo, EndsAs
  <2> QED BY <1>2, <2>1
<1>6. ASSUME NEW t \in Tabs, CancelGeneration(t) \/ ShowOther(t) PROVE GenerationLimits'
  <2>1. DOMAIN generations' = DOMAIN generations BY <1>6 DEF CancelGeneration, ShowOther, Cancelled
  <2> QED BY <1>2, <2>1
<1>7. CASE SomethingChanges \/ CloseGenerations \/ UNCHANGED aiVars
  <2>1. DOMAIN generations' = DOMAIN generations
    BY <1>7 DEF SomethingChanges, CloseGenerations, Ids, aiVars
  <2> QED BY <1>2, <2>1
<1> QED BY <1>3, <1>4, <1>5, <1>6, <1>7 DEF GenerationsNext

\* The generations, the registered ones and the tabs have their types.
LEMMA GenerationsTypeCorrect == GenerationsSpec => []GenerationsTypeOK
<1>1. GenerationsInit => GenerationLimits
  BY GenerationsAssumption DEF GenerationsInit, GenerationLimits
<1>2. GenerationInv /\ GenerationLimits => GenerationsTypeOK
  <2> SUFFICES ASSUME GenerationInv, GenerationLimits PROVE GenerationsTypeOK
    OBVIOUS
  <2>1. GenerationShape /\ \A t \in Tabs : aiTabs[t].request \in Ids \cup {0} /\ aiTabs[t].box \in Ids \cup {0}
    BY DEF GenerationInv, Waits, Shows
  <2>2. \A t \in Tabs : aiTabs[t] \in [shelf : Shelves, request : Ids \cup {0}, box : Ids \cup {0}]
    <3> SUFFICES ASSUME NEW t \in Tabs PROVE aiTabs[t] \in [shelf : Shelves, request : Ids \cup {0}, box : Ids \cup {0}]
      OBVIOUS
    <3>1. aiTabs[t] \in [shelf : Shelves, request : Nat, box : Nat] BY <2>1 DEF GenerationShape
    <3> QED BY <2>1, <3>1
  <2>3. aiTabs \in [Tabs -> [shelf : Shelves, request : Ids \cup {0}, box : Ids \cup {0}]]
    BY <2>1, <2>2 DEF GenerationShape
  <2> QED BY <2>1, <2>3 DEF GenerationShape, GenerationsTypeOK, GenerationLimits
<1> QED BY <1>1, <1>2, GenerationsBegin, GenerationsStep, GenerationLimitsStep, PTL DEF GenerationsSpec

Announcements == {"cloned", "not cloned", "interrupted", "unreachable"}

CloneLimits ==
  /\ Len(cloneJobs) <= MaxJobs /\ reloads \in 0..MaxReloads
  /\ \A t \in Cloners : followers[t].failures \in 0..PollFailures
  /\ announced \subseteq Cloners \X Jobs \X Announcements

LEMMA CloneLimitsStep ==
  CloneInv /\ CloneInv' /\ CloneLimits /\ [ClonesNext]_cloneVars => CloneLimits'
<1> SUFFICES ASSUME CloneInv, CloneInv', CloneLimits, [ClonesNext]_cloneVars
             PROVE  CloneLimits'
  OBVIOUS
<1>0. announced \subseteq Cloners \X Jobs \X Announcements BY DEF CloneLimits
<1>16. Len(cloneJobs) <= MaxJobs /\ reloads \in 0..MaxReloads /\ \A t \in Cloners : followers[t].failures \in 0..PollFailures
  BY DEF CloneLimits
<1>1. cloneJobs \in Seq(CloneJob) /\ cloneJobs' \in Seq(CloneJob) /\ followers \in [Cloners -> Follower]
      /\ MaxReloads \in Nat /\ MaxJobs \in Nat /\ PollFailures \in Nat
  BY CloneAssumption DEF CloneInv, CloneShape
<1>2. CASE DOMAIN cloneJobs' = DOMAIN cloneJobs /\ UNCHANGED tabVars
  <2>1. Len(cloneJobs') = Len(cloneJobs) BY <1>1, <1>2, SameDomain
  <2> QED BY <1>2, <2>1 DEF CloneLimits, Jobs, tabVars
<1>3. ASSUME NEW j \in Jobs, Reserve(j) \/ GitReceives(j) \/ GitClones(j) \/ GitFails(j) \/ AskAccounts(j)
      PROVE  CloneLimits'
  <2>1. DOMAIN cloneJobs' = DOMAIN cloneJobs /\ UNCHANGED tabVars
    BY <1>3 DEF Reserve, GitReceives, GitClones, GitFails, AskAccounts, Moves, CloneEnds
  <2> QED BY <1>2, <2>1
<1>4. ASSUME NEW j \in Jobs, NotAgain(j) \/ Tidy(j) \/ Prepare(j) \/ AdoptAccount(j) \/ ForgetJob(j)
      PROVE  CloneLimits'
  <2>1. DOMAIN cloneJobs' = DOMAIN cloneJobs /\ UNCHANGED tabVars
    BY <1>4 DEF NotAgain, Tidy, Prepare, AdoptAccount, ForgetJob, Moves, CloneEnds
  <2> QED BY <1>2, <2>1
<1>5. CASE OthersWrite \/ UNCHANGED cloneVars BY <1>2, <1>5 DEF OthersWrite, cloneVars, tabVars
<1>6. CASE CloneServerRestarts
  <2>1. cloneJobs' = [j \in Jobs |-> [cloneJobs[j] EXCEPT !.state = "gone", !.stage = "over"]]
        /\ UNCHANGED <<followers, announced>> /\ reloads < MaxReloads /\ reloads' = reloads + 1
    BY <1>6 DEF CloneServerRestarts
  <2>2. DOMAIN cloneJobs' = DOMAIN cloneJobs BY <2>1 DEF Jobs
  <2>3. Len(cloneJobs') = Len(cloneJobs) BY <1>1, <2>2, SameDomain
  <2>4. reloads' \in 0..MaxReloads
    <3>1. reloads < MaxReloads /\ reloads' = reloads + 1 /\ reloads \in 0..MaxReloads /\ MaxReloads \in Nat
      BY <1>1, <1>16, <2>1
    <3> QED BY <3>1
  <2> QED BY <2>1, <2>2, <2>3, <2>4 DEF CloneLimits, Jobs
<1>7. ASSUME NEW t \in Cloners, StartClone(t) PROVE CloneLimits'
  <2>1. PICK g : cloneJobs' = Append(cloneJobs, g) /\ Len(cloneJobs) < MaxJobs
    BY <1>7 DEF StartClone
  <2>2. Len(cloneJobs') <= MaxJobs /\ Jobs \subseteq Jobs' BY <1>1, <2>1 DEF Jobs
  <2>3. followers' = [followers EXCEPT ![t].mode = "starting", ![t].job = Len(cloneJobs) + 1]
        /\ UNCHANGED <<announced, reloads>>
    BY <1>7 DEF StartClone
  <2>4. \A q \in Cloners : followers'[q].failures = followers[q].failures BY <1>1, <2>3
  <2> QED BY <2>2, <2>3, <2>4 DEF CloneLimits
<1>8. ASSUME NEW t \in Cloners, CancelClone(t) PROVE CloneLimits'
  <2>1. DOMAIN cloneJobs' = DOMAIN cloneJobs /\ UNCHANGED tabVars BY <1>8 DEF CancelClone
  <2> QED BY <1>2, <2>1
<1>9. ASSUME NEW t \in Cloners, followers'[t].failures \in 0..PollFailures, UNCHANGED cloneJobs,
             \A q \in Cloners \ {t} : followers'[q] = followers[q], reloads' \in 0..MaxReloads,
             NEW what \in Announcements,
             \A a \in announced' : a \in announced \/ (followers[t].job \in Jobs /\ a = <<t, followers[t].job, what>>)
      PROVE  CloneLimits'
  <2>1. \A q \in Cloners : followers'[q].failures \in 0..PollFailures BY <1>16, <1>9
  <2>2. Jobs' = Jobs /\ Len(cloneJobs') = Len(cloneJobs) BY <1>9 DEF Jobs
  <2>3. ASSUME NEW a \in announced' PROVE a \in Cloners \X Jobs \X Announcements
    <3>1. CASE a \in announced BY <1>0, <3>1
    <3>2. CASE followers[t].job \in Jobs /\ a = <<t, followers[t].job, what>> BY <1>9, <3>2
    <3> QED BY <1>9, <3>1, <3>2
  <2>4. announced' \subseteq Cloners \X Jobs' \X Announcements BY <2>2, <2>3
  <2> QED BY <1>16, <1>9, <2>1, <2>2, <2>4 DEF CloneLimits
<1>10. ASSUME NEW t \in Cloners PROVE
         /\ followers[t] \in Follower /\ followers[t].failures \in 0..PollFailures
         /\ followers[t].mode # "idle" => followers[t].job \in Jobs
  BY <1>1, <1>16 DEF CloneInv, CloneShape, FollowerIsSound
<1>11. ASSUME NEW t \in Cloners, NEW f, Follow(t, f)
       PROVE  followers'[t] = f /\ \A q \in Cloners \ {t} : followers'[q] = followers[q]
  BY <1>1, <1>11 DEF Follow
<1>12. ASSUME NEW t \in Cloners, StartAnswered(t) \/ RunInBackground(t) \/ Resume(t) PROVE CloneLimits'
  <2>1. followers'[t].failures \in {0, followers[t].failures}
    <3>1. \A f : Follow(t, f) => followers'[t] = f BY <1>11
    <3>2. CASE StartAnswered(t) BY <1>10, <3>1, <3>2 DEF StartAnswered, Follower
    <3>3. CASE RunInBackground(t) BY <1>10, <3>1, <3>3 DEF RunInBackground, KeptInMind, Follower
    <3>4. CASE Resume(t) BY <1>10, <3>1, <3>4 DEF Resume, Follower
    <3> QED BY <1>12, <3>2, <3>3, <3>4
  <2>2. \A q \in Cloners \ {t} : followers'[q] = followers[q]
    BY <1>12, <1>11 DEF StartAnswered, RunInBackground, Resume
  <2>3. UNCHANGED <<cloneJobs, reloads>>
    BY <1>12 DEF StartAnswered, RunInBackground, Resume, jobVars
  <2>4. \A a \in announced' : a \in announced \/ (followers[t].job \in Jobs /\ a = <<t, followers[t].job, "unreachable">>)
    BY <1>10, <1>12 DEF StartAnswered, RunInBackground, Resume
  <2>5. followers'[t].failures \in 0..PollFailures /\ "unreachable" \in Announcements
    BY <1>1, <1>10, <2>1 DEF Announcements
  <2> QED BY <1>16, <1>9, <2>2, <2>3, <2>4, <2>5
<1>13. ASSUME NEW t \in Cloners, Poll(t) PROVE CloneLimits'
  <2>1. followers'[t].failures = 0
    <3>1. \A f : Follow(t, f) => followers'[t] = f BY <1>11
    <3> QED BY <1>10, <1>13, <3>1 DEF Poll, Follower
  <2>2. Verdict(followers[t].job) \in Announcements BY DEF Verdict, Announcements
  <2>3. \A q \in Cloners \ {t} : followers'[q] = followers[q] BY <1>13, <1>11 DEF Poll
  <2>4. UNCHANGED <<cloneJobs, reloads>> BY <1>13 DEF Poll, jobVars
  <2>5. \A a \in announced' : a \in announced \/ (followers[t].job \in Jobs /\ a = <<t, followers[t].job, Verdict(followers[t].job)>>)
    BY <1>10, <1>13 DEF Poll
  <2>6. followers'[t].failures \in 0..PollFailures BY <1>1, <2>1
  <2> QED BY <1>16, <1>9, <2>2, <2>3, <2>4, <2>5, <2>6
<1>14. ASSUME NEW t \in Cloners, PollFails(t) PROVE CloneLimits'
  <2>1. followers'[t].failures \in 0..PollFailures
    <3>1. \A f : Follow(t, f) => followers'[t] = f BY <1>11
    <3>2. CASE followers[t].failures + 1 < PollFailures
      BY <1>1, <1>10, <1>14, <3>1, <3>2 DEF PollFails, Follower
    <3>3. CASE ~(followers[t].failures + 1 < PollFailures)
      <4>1. followers'[t] = [followers[t] EXCEPT !.mode = "idle", !.job = NoJob, !.failures = 0]
        BY <1>14, <3>1, <3>3 DEF PollFails
      <4>2. followers'[t].failures = 0 BY <1>10, <4>1 DEF Follower
      <4> QED BY <1>1, <4>2
    <3> QED BY <3>2, <3>3
  <2>2. \A q \in Cloners \ {t} : followers'[q] = followers[q] BY <1>14, <1>11 DEF PollFails
  <2>3. UNCHANGED <<cloneJobs, reloads>> BY <1>14 DEF PollFails, jobVars
  <2>4. \A a \in announced' : a \in announced \/ (followers[t].job \in Jobs /\ a = <<t, followers[t].job, "unreachable">>)
    BY <1>10, <1>14 DEF PollFails
  <2>5. "unreachable" \in Announcements BY DEF Announcements
  <2> QED BY <1>16, <1>9, <2>1, <2>2, <2>3, <2>4, <2>5
<1>15. ASSUME NEW t \in Cloners, Reload(t) PROVE CloneLimits'
  <2>1. followers'[t].failures = 0 BY <1>1, <1>10, <1>15 DEF Reload, Follower, Follow
  <2>2. \A q \in Cloners \ {t} : followers'[q] = followers[q] BY <1>15, <1>11 DEF Reload
  <2>3. UNCHANGED <<cloneJobs, announced>> /\ reloads < MaxReloads /\ reloads' = reloads + 1
    BY <1>15 DEF Reload
  <2>4. reloads' \in 0..MaxReloads /\ followers'[t].failures \in 0..PollFailures /\ "unreachable" \in Announcements
    BY <1>1, <1>16, <2>1, <2>3 DEF Announcements
  <2> QED BY <1>9, <2>2, <2>3, <2>4
<1> QED BY <1>3, <1>4, <1>5, <1>6, <1>7, <1>8, <1>12, <1>13, <1>14, <1>15 DEF ClonesNext

\* The jobs, the folder and the tabs have their types.
LEMMA ClonesTypeCorrect == ClonesSpec => []ClonesTypeOK
<1>1. ClonesInit => CloneLimits BY CloneAssumption DEF ClonesInit, CloneLimits, IdleTab
<1>2. CloneInv /\ CloneLimits => ClonesTypeOK
  <2> SUFFICES ASSUME CloneInv, CloneLimits PROVE ClonesTypeOK
    OBVIOUS
  <2>1. CloneShape /\ \A t \in Cloners : FollowerIsSound(t) BY DEF CloneInv
  <2>2. folder = Absent \/ folder \subseteq {"partial", "whole", "foreign"}
    BY <2>1 DEF CloneShape, CloneContent
  <2>3. Jobs = 1..Len(cloneJobs) /\ 0 \notin Jobs BY <2>1 DEF CloneShape, Jobs
  <2>4. ASSUME NEW t \in Cloners
        PROVE  /\ followers[t].mode \in {"idle", "starting", "dialog", "background", "resuming"}
               /\ {followers[t].job, followers[t].remembered} \subseteq Jobs \cup {NoJob}
               /\ followers[t].mode = "idle" <=> followers[t].job = NoJob
    BY <2>1, <2>3 DEF CloneShape, Follower, FollowerIsSound, NoJob
  <2> QED BY <2>1, <2>2, <2>4 DEF CloneShape, ClonesTypeOK, CloneLimits, Announcements
<1> QED BY <1>1, <1>2, ClonesBegin, ClonesStep, CloneLimitsStep, PTL DEF ClonesSpec

ServiceLimits ==
  /\ holder \in {"free", "updater"} \cup Clis /\ faults \in 0..MaxFaults /\ kills \in 0..MaxKills

LEMMA ServiceLimitsStep ==
  ServiceLimits /\ [ServiceNext]_updateVars => ServiceLimits'
<1> SUFFICES ASSUME ServiceLimits, [ServiceNext]_updateVars PROVE ServiceLimits'
  OBVIOUS
<1> USE DEF ServiceLimits
<1>1. Fault => faults' \in 0..MaxFaults BY UpdateAssumption DEF Fault
<1>2. kills < MaxKills /\ kills' = kills + 1 => kills' \in 0..MaxKills BY UpdateAssumption
<1>3. CASE Crash \/ RemoveLock \/ CheckForUpdate \/ Download \/ Staged \/ BeginInstall
  BY <1>1, <1>2, <1>3 DEF Crash, RemoveLock, Free, CheckForUpdate, Download, Staged, BeginInstall, Phase
<1>4. CASE LockForUpdate \/ WritePlan \/ LaunchWorker \/ WorkerGone \/ GiveUpWatching
  BY <1>1, <1>4 DEF LockForUpdate, WritePlan, LaunchWorker, WorkerGone, GiveUpWatching, Free
<1>5. CASE ReadPlan \/ WorkerFails \/ Activate \/ RestartNew \/ Confirm \/ NotReady
  BY <1>1, <1>5 DEF ReadPlan, WorkerFails, Activate, RestartNew, Confirm, NotReady
<1>6. CASE Restore \/ RestartOld \/ WorkerUnlocks \/ KillWorker
  BY <1>1, <1>2, <1>6 DEF Restore, RestartOld, WorkerUnlocks, KillWorker, Unlock, Free
<1>7. ASSUME NEW c \in Clis, BeginServiceCommand(c) \/ ReadDefinition(c) \/ LockForCommand(c) \/ Choose(c) \/ Uninstall(c)
             \/ UninstallFails(c)
      PROVE  ServiceLimits'
  BY <1>1, <1>7 DEF BeginServiceCommand, ReadDefinition, LockForCommand, Choose, Uninstall, UninstallFails, Free
<1>8. ASSUME NEW c \in Clis, Register(c) \/ RestartService(c) \/ WaitReady(c) \/ RegisterFails(c) \/ PutBack(c)
      PROVE  ServiceLimits'
  BY <1>1, <1>8 DEF Register, RestartService, WaitReady, RegisterFails, PutBack
<1>9. ASSUME NEW c \in Clis, PutBackFails(c) \/ RestartPrevious(c) \/ CommandUnlocks(c) \/ KillCommand(c)
      PROVE  ServiceLimits'
  BY <1>1, <1>2, <1>9 DEF PutBackFails, RestartPrevious, CommandUnlocks, KillCommand, Unlock, Free
<1>10. CASE UNCHANGED updateVars BY <1>10 DEF updateVars
<1> QED BY <1>3, <1>4, <1>5, <1>6, <1>7, <1>8, <1>9, <1>10 DEF ServiceNext

\* Definition, installation, lock, server, updater, worker and commands have their types.
LEMMA ServiceTypeCorrect == ServiceSpec => []ServiceTypeOK
<1>1. ServiceInit => ServiceLimits BY UpdateAssumption DEF ServiceInit, ServiceLimits
<1>2. ServiceInv /\ ServiceLimits => ServiceTypeOK
  <2> SUFFICES ASSUME ServiceInv, ServiceLimits PROVE ServiceTypeOK
    OBVIOUS
  <2>1. ServiceShape BY DEF ServiceInv
  <2>2. updater \in Updaters /\ worker \in Workers /\ cli \in [Clis -> Commands] /\ server \in Servers
    BY <2>1 DEF ServiceShape
  <2>3. updater.phase \in UpdaterPhases /\ updater.stage \in UpdaterStages BY <2>2 DEF Updaters
  <2>4. worker.stage \in WorkerStages BY <2>2 DEF Workers
  <2>5. \A c \in Clis : cli[c].stage \in CliStages BY <2>2 DEF Commands
  <2> QED BY <2>1, <2>3, <2>4, <2>5 DEF ServiceShape, ServiceTypeOK, ServiceLimits, ServiceVersions, UpdaterPhases,
             UpdaterStages, WorkerStages, CliStages, Servers
<1> QED BY <1>1, <1>2, ServiceInvHolds, ServiceLimitsStep, PTL DEF ServiceSpec

\* A save of the default, or of a choice, knows what it replaces.
AccountSave ==
  [what : {"default"}, previous : Logins \cup {NoLogin}, value : Logins]
  \cup [what : Repositories, previous : Logins \cup {"default"}, value : Logins \cup {"default"}]

AccountLogins ==
  /\ selection \in [Repositories -> Logins \cup {"default"}] /\ defaultLogin \in Logins \cup {NoLogin}
  /\ \A r \in Repositories : contexts[r] # NoLogin => contexts[r].login \in Logins
  /\ gh \in [Logins -> Logins \cup {NoLogin}] /\ ghActive \in Logins \cup {NoLogin}
  /\ saving \in Seq(AccountSave)
  /\ mutation.stage = "authenticating" => mutation.login \in Logins \cup {NoLogin}

AccountLimits ==
  /\ edit.stage \in {"none", "prepared"} /\ adoption.stage \in {"none", "probing"}
  /\ changes \in 0..MaxChanges /\ outdated \in BOOLEAN /\ rolledBack \in BOOLEAN

LEMMA AccountLimitsStep ==
  AccountLimits /\ [AccountsNext]_accountVars => AccountLimits'
<1> SUFFICES ASSUME AccountLimits, [AccountsNext]_accountVars PROVE AccountLimits'
  OBVIOUS
<1> USE DEF AccountLimits
<1>1. Change => changes' \in 0..MaxChanges BY AccountsAssumption DEF Change
<1>9. Idle.stage = "none" BY DEF Idle
<1>2. CASE SetSelection \/ PrepareEdit \/ SendEdit
  <2>1. CASE SetSelection BY <1>1, <2>1 DEF SetSelection
  <2>2. CASE PrepareEdit
    <3>1. PICK r \in Repositories :
            edit' = [stage |-> "prepared", r |-> r, revision |-> RevisionFor(r), choice |-> Choice(r)]
      BY <2>2 DEF PrepareEdit
    <3> QED BY <2>2, <3>1 DEF PrepareEdit
  <2>3. CASE SendEdit
    <3>1. edit' = Idle /\ outdated' \in BOOLEAN /\ UNCHANGED <<adoption, changes, rolledBack>>
      BY <2>3 DEF SendEdit
    <3> QED BY <1>9, <3>1
  <2> QED BY <1>2, <2>1, <2>2, <2>3
<1>3. CASE SetDefaultAccount \/ CheckInventory \/ SaveEnds
  BY <1>1, <1>3 DEF SetDefaultAccount, CheckInventory, SaveEnds
<1>4. CASE SelectionSaveFails \/ Review \/ BeginGitHubMutation
  BY <1>4 DEF SelectionSaveFails, Review, BeginGitHubMutation
<1>5. CASE Authenticate \/ AuthenticationFails \/ Act
  BY <1>5 DEF Authenticate, AuthenticationFails, Act
<1>6. CASE BeginAdoption \/ Adopt \/ NothingToAdopt
  <2>1. CASE BeginAdoption
    <3>1. PICK r \in Repositories :
            adoption' = [stage |-> "probing", r |-> r, revision |-> RevisionFor(r), choice |-> Choice(r)]
      BY <2>1 DEF BeginAdoption
    <3> QED BY <2>1, <3>1 DEF BeginAdoption
  <2>2. CASE Adopt
    <3>1. adoption' = Idle /\ outdated' \in BOOLEAN /\ UNCHANGED <<edit, changes, rolledBack>>
      BY <2>2 DEF Adopt
    <3> QED BY <1>9, <3>1
  <2>3. CASE NothingToAdopt BY <1>9, <2>3 DEF NothingToAdopt
  <2> QED BY <1>6, <2>1, <2>2, <2>3
<1>7. CASE CliChanges BY <1>1, <1>7 DEF CliChanges
<1>8. CASE UNCHANGED accountVars BY <1>8 DEF accountVars
<1> QED BY <1>2, <1>3, <1>4, <1>5, <1>6, <1>7, <1>8 DEF AccountsNext

LEMMA SelectLogins ==
  ASSUME AccountLogins, NEW r \in Repositories, NEW choice \in Logins \cup {"default"}, Select(r, choice)
  PROVE  selection' \in [Repositories -> Logins \cup {"default"}] /\ saving' \in Seq(AccountSave)
<1>1. selection \in [Repositories -> Logins \cup {"default"}] /\ saving \in Seq(AccountSave)
  BY DEF AccountLogins
<1>2. PICK s : s = [what |-> r, previous |-> selection[r], value |-> choice] OBVIOUS
<1>3. s \in AccountSave
  <2>1. s \in [what : Repositories, previous : Logins \cup {"default"}, value : Logins \cup {"default"}]
    BY <1>1, <1>2
  <2> QED BY <2>1 DEF AccountSave
<1>4. saving' = Append(saving, s) /\ selection' = [selection EXCEPT ![r] = choice]
  BY <1>2 DEF Select
<1>5. saving' \in Seq(AccountSave) BY <1>1, <1>3, <1>4, AppendProperties
<1> QED BY <1>1, <1>4, <1>5

LEMMA DefaultLogins ==
  ASSUME AccountLogins, NEW login \in Logins, NewDefault(login)
  PROVE  defaultLogin' \in Logins \cup {NoLogin} /\ saving' \in Seq(AccountSave)
<1>1. defaultLogin \in Logins \cup {NoLogin} /\ saving \in Seq(AccountSave) BY DEF AccountLogins
<1>2. PICK s : s = [what |-> "default", previous |-> defaultLogin, value |-> login] OBVIOUS
<1>3. s \in AccountSave
  <2>1. s \in [what : {"default"}, previous : Logins \cup {NoLogin}, value : Logins] BY <1>1, <1>2
  <2> QED BY <2>1 DEF AccountSave
<1>4. saving' = Append(saving, s) /\ defaultLogin' = login BY <1>2 DEF NewDefault
<1>5. saving' \in Seq(AccountSave) BY <1>1, <1>3, <1>4, AppendProperties
<1> QED BY <1>4, <1>5

LEMMA SaveFailsLogins ==
  ASSUME AccountLogins, SelectionSaveFails PROVE AccountLogins'
<1>1. /\ selection \in [Repositories -> Logins \cup {"default"}] /\ defaultLogin \in Logins \cup {NoLogin}
      /\ saving \in Seq(AccountSave) /\ saving # <<>> /\ saving' = Tail(saving)
  BY DEF AccountLogins, SelectionSaveFails
<1>2. Head(saving) \in AccountSave /\ saving' \in Seq(AccountSave) BY <1>1, HeadTailProperties
<1>3. PICK s : s = Head(saving) OBVIOUS
<1>4. selection' \in [Repositories -> Logins \cup {"default"}] /\ defaultLogin' \in Logins \cup {NoLogin}
  <2>1. CASE s \in [what : {"default"}, previous : Logins \cup {NoLogin}, value : Logins]
    <3>1. selection' = selection /\ defaultLogin' \in {defaultLogin, s.previous}
      BY <1>3, <2>1 DEF SelectionSaveFails
    <3> QED BY <1>1, <2>1, <3>1
  <2>2. CASE s \in [what : Repositories, previous : Logins \cup {"default"}, value : Logins \cup {"default"}]
    <3>1. s.what # "default" BY <2>2, AccountsAssumption
    <3>2. defaultLogin' = defaultLogin /\ selection' \in {selection, [selection EXCEPT ![s.what] = s.previous]}
      BY <1>3, <3>1 DEF SelectionSaveFails
    <3> QED BY <1>1, <2>2, <3>2
  <2> QED BY <1>2, <1>3, <2>1, <2>2 DEF AccountSave
<1>5. UNCHANGED <<contexts, gh, ghActive, mutation>> BY DEF SelectionSaveFails, identities
<1> QED BY <1>2, <1>4, <1>5 DEF AccountLogins

LEMMA AuthenticateLogins ==
  ASSUME AccountInv, AccountLogins, Authenticate PROVE AccountLogins'
<1>1. PICK c, token : /\ token = Token /\ c.login = token
                      /\ contexts' \in {contexts, [contexts EXCEPT ![mutation.r] = c]}
  <2> DEFINE other == contexts[mutation.r] # NoLogin /\ contexts[mutation.r].revision = mutation.revision
                      /\ contexts[mutation.r].login # Token
             stays == mutation.revision = RevisionFor(mutation.r)
             context == [login |-> Token, revision |-> IF stays /\ other THEN revision + 1 ELSE mutation.revision]
  <2>1. contexts' = IF stays THEN [contexts EXCEPT ![mutation.r] = context] ELSE contexts
    BY DEF Authenticate
  <2>2. context.login = Token OBVIOUS
  <2> HIDE DEF context, stays
  <2> QED BY <2>1, <2>2
<1>2. mutation.stage = "authenticating" /\ Token # NoLogin /\ mutation.login \in Logins \cup {NoLogin}
      /\ mutation'.stage \in {"none", "reading"}
  BY DEF Authenticate, AccountLogins, Idle
<1>3. token \in Logins BY <1>1, <1>2 DEF Token, AccountLogins
<1>4. mutation.r \in Repositories /\ contexts = [r \in Repositories |-> contexts[r]]
  BY <1>2 DEF AccountInv, AccountTypes, Remembered
<1>5. \A r \in Repositories : contexts'[r] # NoLogin => contexts'[r].login \in Logins
  BY <1>1, <1>3, <1>4 DEF AccountLogins
<1>6. UNCHANGED <<selection, defaultLogin, saving, gh, ghActive>> BY DEF Authenticate
<1> QED BY <1>2, <1>5, <1>6 DEF AccountLogins

LEMMA AccountLoginsStep ==
  AccountInv /\ AccountLogins /\ [AccountsNext]_accountVars => AccountLogins'
<1> SUFFICES ASSUME AccountInv, AccountLogins, [AccountsNext]_accountVars PROVE AccountLogins'
  OBVIOUS
<1>1. /\ selection \in [Repositories -> Logins \cup {"default"}] /\ defaultLogin \in Logins \cup {NoLogin}
      /\ gh \in [Logins -> Logins \cup {NoLogin}] /\ ghActive \in Logins \cup {NoLogin}
      /\ saving \in Seq(AccountSave)
  BY DEF AccountLogins
<1>2. CASE /\ selection' \in [Repositories -> Logins \cup {"default"}] /\ saving' \in Seq(AccountSave)
           /\ UNCHANGED <<defaultLogin, contexts, gh, ghActive, mutation>>
  BY <1>2 DEF AccountLogins
<1>3. CASE SetSelection BY <1>2, <1>3, SelectLogins DEF SetSelection, identities
<1>4. ASSUME NEW r \in Repositories, NEW choice \in Logins \cup {"default"}, Select(r, choice),
             UNCHANGED <<defaultLogin, contexts, gh, ghActive, mutation>>
      PROVE  AccountLogins'
  BY <1>2, <1>4, SelectLogins
<1>5. CASE UNCHANGED <<selection, saving, defaultLogin, contexts, gh, ghActive, mutation>>
  BY <1>5 DEF AccountLogins
<1>6. CASE SendEdit
  <2>1. UNCHANGED <<defaultLogin, contexts, gh, ghActive, mutation>> /\ edit # Idle
    BY <1>6 DEF SendEdit, identities
  <2>2. edit.r \in Repositories BY <2>1 DEF AccountInv, Remembered
  <2>3. CASE UNCHANGED <<selection, saving>> BY <1>5, <2>1, <2>3
  <2>4. CASE \E choice \in Logins \cup {"default"} : Select(edit.r, choice)
    BY <1>4, <2>1, <2>2, <2>4
  <2> QED BY <1>6, <2>3, <2>4 DEF SendEdit
<1>7. CASE Adopt
  <2>1. UNCHANGED <<defaultLogin, contexts, gh, ghActive, mutation>> /\ adoption # Idle
    BY <1>7 DEF Adopt, identities
  <2>2. adoption.r \in Repositories BY <2>1 DEF AccountInv, Remembered
  <2>3. CASE UNCHANGED <<selection, saving>> BY <1>5, <2>1, <2>3
  <2>4. CASE \E login \in Authenticated \ {adoption.choice[2]} : Select(adoption.r, login)
    <3>1. PICK login \in Authenticated : Select(adoption.r, login) BY <2>4
    <3>2. login \in Logins BY DEF Authenticated
    <3> QED BY <1>4, <2>1, <2>2, <3>1, <3>2
  <2> QED BY <1>7, <2>3, <2>4 DEF Adopt
<1>8. CASE PrepareEdit \/ BeginAdoption \/ NothingToAdopt
  BY <1>5, <1>8 DEF PrepareEdit, BeginAdoption, NothingToAdopt, identities
<1>9. ASSUME NEW login \in Logins, NewDefault(login), UNCHANGED <<selection, gh, ghActive, mutation>>,
             contexts' = contexts \/ contexts' = [r \in Repositories |-> NoLogin]
      PROVE  AccountLogins'
  <2>1. defaultLogin' \in Logins \cup {NoLogin} /\ saving' \in Seq(AccountSave)
    BY <1>9, DefaultLogins
  <2>2. \A r \in Repositories : contexts'[r] # NoLogin => contexts'[r].login \in Logins
    BY <1>9 DEF AccountLogins
  <2> QED BY <1>1, <1>9, <2>1, <2>2 DEF AccountLogins
<1>10. CASE SetDefaultAccount BY <1>9, <1>10 DEF SetDefaultAccount, identities
<1>11. CASE CheckInventory
  <2>1. contexts' = [r \in Repositories |-> NoLogin] /\ UNCHANGED <<selection, gh, ghActive, mutation>>
    BY <1>11 DEF CheckInventory
  <2>2. CASE defaultLogin = NoLogin /\ Authenticated # {}
    <3>1. PICK login : login = IF ghActive \in Authenticated THEN ghActive ELSE CHOOSE l \in Authenticated : TRUE
      OBVIOUS
    <3>2. login \in Authenticated BY <2>2, <3>1
    <3>3. login \in Logins BY <3>2 DEF Authenticated
    <3>4. NewDefault(login) BY <1>11, <2>2, <3>1 DEF CheckInventory
    <3> QED BY <1>9, <2>1, <3>3, <3>4
  <2>3. CASE UNCHANGED <<defaultLogin, saving>> BY <1>1, <2>1, <2>3 DEF AccountLogins
  <2> QED BY <1>11, <2>2, <2>3 DEF CheckInventory
<1>12. CASE SaveEnds
  <2>1. saving' \in Seq(AccountSave) BY <1>1, <1>12, HeadTailProperties DEF SaveEnds
  <2> QED BY <1>2, <1>1, <1>12, <2>1 DEF SaveEnds, identities
<1>13. CASE Review
  <2>1. PICK r \in Repositories : mutation' = [stage |-> "reviewed", r |-> r, expected |-> Shown(r)]
    BY <1>13 DEF Review
  <2>2. mutation'.stage # "authenticating" BY <2>1
  <2>3. UNCHANGED <<selection, saving, defaultLogin, contexts, gh, ghActive>>
    BY <1>13 DEF Review, identities
  <2> QED BY <2>2, <2>3 DEF AccountLogins
<1>14. CASE BeginGitHubMutation
  <2>1. mutation'.login = Resolved(mutation.r) BY <1>14 DEF BeginGitHubMutation
  <2>2. mutation.r \in Repositories BY <1>14 DEF BeginGitHubMutation, AccountInv, AccountTypes
  <2>3. Resolved(mutation.r) \in Logins \cup {NoLogin} BY <1>1, <2>2 DEF Resolved, ResolvedFrom
  <2>4. UNCHANGED <<selection, saving, defaultLogin, contexts, gh, ghActive>>
    BY <1>14 DEF BeginGitHubMutation, identities
  <2> QED BY <2>1, <2>3, <2>4 DEF AccountLogins
<1>15. CASE AuthenticationFails
  <2>1. mutation.r \in Repositories /\ contexts = [r \in Repositories |-> contexts[r]]
    BY <1>15 DEF AuthenticationFails, AccountInv, AccountTypes, Remembered
  <2>2. mutation'.stage = "none" /\ UNCHANGED <<selection, saving, defaultLogin, gh, ghActive>>
        /\ contexts' \in {contexts, [contexts EXCEPT ![mutation.r] = NoLogin]}
    BY <1>15 DEF AuthenticationFails, Idle
  <2>3. \A r \in Repositories : contexts'[r] # NoLogin => contexts'[r].login \in Logins
    BY <2>1, <2>2 DEF AccountLogins
  <2> QED BY <2>2, <2>3 DEF AccountLogins
<1>16. CASE Act
  <2>1. mutation'.stage = "none" /\ UNCHANGED <<selection, saving, defaultLogin, contexts, gh, ghActive>>
    BY <1>16 DEF Act, Idle, identities
  <2> QED BY <2>1 DEF AccountLogins
<1>17. CASE CliChanges
  <2>1. gh' \in [Logins -> Logins \cup {NoLogin}] /\ ghActive' \in Logins \cup {NoLogin}
    BY <1>1, <1>17 DEF CliChanges
  <2>2. UNCHANGED <<selection, saving, defaultLogin, contexts, mutation>> BY <1>17 DEF CliChanges
  <2> QED BY <2>1, <2>2 DEF AccountLogins
<1>18. CASE UNCHANGED accountVars BY <1>5, <1>18 DEF accountVars
<1> QED BY <1>3, <1>6, <1>7, <1>8, <1>10, <1>11, <1>12, <1>13, <1>14, <1>15, <1>16, <1>17, <1>18,
           AuthenticateLogins, SaveFailsLogins DEF AccountsNext

\* Choices and defaults are logins, and their revisions were given.
LEMMA AccountsTypeCorrect == AccountsSpec => []AccountsTypeOK
<1>1. AccountsInit => AccountLimits /\ AccountLogins
  <2> SUFFICES ASSUME AccountsInit PROVE AccountLimits /\ AccountLogins
    OBVIOUS
  <2>1. saving \in Seq(AccountSave) BY EmptySeq DEF AccountsInit
  <2>2. edit.stage = "none" /\ adoption.stage = "none" /\ mutation.stage = "none"
    BY DEF AccountsInit, Idle
  <2>6. changes \in 0..MaxChanges BY AccountsAssumption DEF AccountsInit
  <2>3. AccountLimits BY <2>2, <2>6 DEF AccountsInit, AccountLimits
  <2>4. /\ selection \in [Repositories -> Logins \cup {"default"}] /\ defaultLogin \in Logins \cup {NoLogin}
        /\ gh \in [Logins -> Logins \cup {NoLogin}] /\ ghActive \in Logins \cup {NoLogin}
    BY DEF AccountsInit
  <2>5. \A r \in Repositories : contexts[r] = NoLogin BY DEF AccountsInit
  <2> QED BY <2>1, <2>2, <2>3, <2>4, <2>5 DEF AccountLogins
<1>2. AccountInv /\ AccountLimits /\ AccountLogins => AccountsTypeOK
  BY DEF AccountInv, AccountTypes, AccountLimits, AccountLogins, AccountsTypeOK
<1> QED BY <1>1, <1>2, AccountsBegin, AccountsStep, AccountLimitsStep, AccountLoginsStep, PTL DEF AccountsSpec

GitHubLimits ==
  /\ mutating \in {"none", "asked", "done"}
  /\ calls \in 0..MaxCalls /\ mutations \in 0..MaxMutations /\ writes \in 0..MaxWrites

LEMMA GitHubLimitsStep ==
  GitHubLimits /\ [GitHubReadsNext]_gitHubReadVars => GitHubLimits'
<1> SUFFICES ASSUME GitHubLimits, [GitHubReadsNext]_gitHubReadVars PROVE GitHubLimits'
  OBVIOUS
<1> USE DEF GitHubLimits
<1>1. CASE OthersChange \/ AccountChanges \/ GitWrites
  BY <1>1, GitHubReadsAssumption DEF OthersChange, AccountChanges, GitWrites
<1>2. CASE BeginMutation \/ GitHubDoesIt \/ EndMutation \/ Expire
  BY <1>2, GitHubReadsAssumption DEF BeginMutation, GitHubDoesIt, EndMutation, Expire
<1>3. CASE UNCHANGED gitHubVars BY <1>3 DEF gitHubVars
<1>4. ASSUME NEW f \in Flights, ReadLooks(f) \/ ReadLands(f) PROVE GitHubLimits'
  BY <1>3, <1>4 DEF ReadLooks, ReadLands
<1>5. ASSUME NEW r \in Readers, NEW resource \in Resources, Call(r, resource) PROVE GitHubLimits'
  BY <1>5, GitHubReadsAssumption DEF Call
<1>6. ASSUME NEW r \in Readers, ReadReturns(r) \/ ReadRetries(r) PROVE GitHubLimits'
  BY <1>3, <1>6 DEF ReadReturns, ReadRetries
<1>7. ASSUME NEW r \in Readers, Hit(r) \/ Miss(r) \/ ReadAgain(r) \/ GiveUp(r) PROVE GitHubLimits'
  BY <1>7 DEF Hit, Miss, ReadAgain, GiveUp
<1>8. ASSUME NEW r \in Readers, SettledEnds(r) \/ LiveStateRead(r) \/ ForgetOutdated(r) PROVE GitHubLimits'
  BY <1>8 DEF SettledEnds, LiveStateRead, ForgetOutdated
<1>9. CASE UNCHANGED gitHubReadVars BY <1>3, <1>9 DEF gitHubReadVars
<1> QED BY <1>1, <1>2, <1>4, <1>5, <1>6, <1>7, <1>8, <1>9 DEF GitHubReadsNext

\* Flights, readers, calls and what is kept have their types.
LEMMA GitHubTypes ==
  ASSUME GitHubInv, GitHubLimits PROVE GitHubReadsTypeOK
<1>1. flight \in [Flights -> Flight] BY DEF GitHubInv, SoundFlights, SoundFlight
<1>2. moments \in Seq([github : Nat, account : Nat]) /\ moments # <<>> /\ changed \in Nat
      /\ Now \in 1..MaxMoments /\ AuthRevision \in Nat
  <2>1. Forward /\ MaxMoments \in Nat BY GitHubReadsAssumption DEF GitHubInv
  <2>2. moments \in Seq([github : Nat, account : Nat]) /\ changed \in Nat /\ Now \in 1..MaxMoments
    BY <2>1 DEF Forward
  <2>4. moments # <<>> BY <2>1, <2>2 DEF Now
  <2>5. Now \in 1..Len(moments) BY <2>1, <2>2 DEF Now
  <2>3. moments # <<>> /\ moments[Now] \in [github : Nat, account : Nat]
    BY <2>2, <2>4, <2>5, ElementOfSeq
  <2> QED BY <2>2, <2>3 DEF AuthRevision
<1>3. ASSUME NEW k \in Kept, settled[k] # None
      PROVE  settled[k].account \in 0..AuthRevision /\ settled[k].value \in 1..Now
  <2>1. settled[k].value \in 1..Now /\ moments[settled[k].value].account = settled[k].account
    BY <1>3 DEF GitHubInv, KeptSoundly, SoundlyKept
  <2>2. PICK v \in 1..Now : v = settled[k].value BY <2>1
  <2>3. moments[v] \in [github : Nat, account : Nat] BY <1>2, ElementOfSeq DEF Now
  <2>4. Now \in 1..Now /\ v <= Now BY <1>2, GitHubReadsAssumption
  <2>5. moments[v].account <= moments[Now].account BY <2>4 DEF GitHubInv, Forward
  <2> QED BY <1>2, <2>1, <2>2, <2>3, <2>5 DEF AuthRevision
<1>4. \A r \in Readers : call[r].stage \in {"none", "routing", "reading", "forgetting"}
  BY DEF GitHubInv, CallTypes
<1> QED BY <1>1, <1>2, <1>3, <1>4 DEF GitHubInv, GitHubLimits, GitHubReadsTypeOK, ReadTypeOK, AnswersKeepUp

LEMMA StatusesTypes == StatusKept => StatusesTypeOK
BY DEF StatusKept, StatusInv, StatusTypes, StatusesTypeOK

LEMMA ActionsTypes == ActionInv => ActionsTypeOK
<1> SUFFICES ASSUME ActionInv PROVE ActionsTypeOK
  OBVIOUS
<1>1. ActionShape BY DEF ActionInv
<1>2. op.stage # "none" => op.seen.head \in Nat /\ op.seen.text \in Nat
  BY <1>1 DEF ActionShape, PullRequest
<1>3. unseen = FALSE /\ lost = FALSE BY DEF ActionInv
<1> QED BY <1>1, <1>2, <1>3 DEF ActionShape, ActionsTypeOK, PullRequest, Branch
------------------------------
(* Side by side: a step of one component leaves the others. *)

LEMMA EachSteps ==
  [Next]_allVars =>
    /\ [TransportNext]_transportVars /\ [SettingsNext]_settingsVars /\ [AccountsNext]_accountVars
    /\ [GitHubReadsNext]_gitHubReadVars /\ [ActionsNext]_actionVars /\ [StatusesNext]_statusVars
    /\ [GenerationsNext]_aiVars /\ [ClonesNext]_cloneVars /\ [ServiceNext]_updateVars
<1> SUFFICES ASSUME [Next]_allVars
             PROVE  /\ [TransportNext]_transportVars /\ [SettingsNext]_settingsVars /\ [AccountsNext]_accountVars
                    /\ [GitHubReadsNext]_gitHubReadVars /\ [ActionsNext]_actionVars /\ [StatusesNext]_statusVars
                    /\ [GenerationsNext]_aiVars /\ [ClonesNext]_cloneVars /\ [ServiceNext]_updateVars
  OBVIOUS
<1>1. CASE UNCHANGED allVars BY <1>1 DEF allVars
<1>2. CASE Next BY <1>2 DEF Next
<1> QED BY <1>1, <1>2

\* What is kept of GitHub and of the AI programs follows what the program knows to have changed.
THEOREM KeptStaysCurrent == Spec => []KeptIsCurrent
<1>1. Init => GitHubInv /\ StatusKept BY GitHubBegins, StatusesBegin DEF Init
<1>2. GitHubInv /\ StatusKept => KeptIsCurrent BY StatusesHold DEF KeptIsCurrent, GitHubInv
<1> QED BY <1>1, <1>2, EachSteps, GitHubReadsStep, StatusesStep, PTL DEF Spec

\* Every variable of the transport, of the settings and of the services has its type, whichever of
\* them moves.
THEOREM ServicesTypeCorrect == Spec => []TypeOK
<1>1. Init => /\ TransportInit /\ SettingsInit /\ AccountsInit /\ GitHubReadsInit /\ ActionsInit
              /\ StatusesInit /\ GenerationsInit /\ ClonesInit /\ ServiceInit
  BY DEF Init
<1>2. Spec => TransportSpec /\ SettingsSpec /\ AccountsSpec /\ GitHubReadsSpec
  BY <1>1, EachSteps, PTL DEF Spec, TransportSpec, SettingsSpec, AccountsSpec, GitHubReadsSpec
<1>3. Spec => ActionsSpec /\ StatusesSpec /\ GenerationsSpec /\ ClonesSpec /\ ServiceSpec
  BY <1>1, EachSteps, PTL DEF Spec, ActionsSpec, StatusesSpec, GenerationsSpec, ClonesSpec, ServiceSpec
<1>4. TransportSpec => []TransportTypeOK
  <2>1. IInv => TransportTypeOK BY DEF IInv
  <2> QED BY <2>1, Invariant, PTL
<1>5. ActionsSpec => []ActionsTypeOK BY ActionsTypes, ActionsBegin, ActionsStep, PTL DEF ActionsSpec
<1>6. StatusesSpec => []StatusesTypeOK
  <2>1. StatusesInit => StatusKept BY StatusesBegin
  <2> QED BY <2>1, StatusesTypes, StatusesStep, PTL DEF StatusesSpec
<1>7. GitHubReadsSpec => []GitHubReadsTypeOK
  <2>1. GitHubReadsInit => GitHubInv /\ GitHubLimits
    BY GitHubBegins, GitHubReadsAssumption DEF GitHubReadsInit, GitHubLimits
  <2>2. GitHubInv /\ GitHubLimits => GitHubReadsTypeOK BY GitHubTypes
  <2> QED BY <2>1, <2>2, GitHubReadsStep, GitHubLimitsStep, PTL DEF GitHubReadsSpec
<1>8. ASSUME TransportTypeOK, SettingsTypeOK, AccountsTypeOK, GitHubReadsTypeOK, ActionsTypeOK,
             StatusesTypeOK, GenerationsTypeOK, ClonesTypeOK, ServiceTypeOK
      PROVE  TypeOK
  BY <1>8 DEF TypeOK
<1> QED BY <1>2, <1>3, <1>4, <1>5, <1>6, <1>7, <1>8, SettingsTypeCorrect, AccountsTypeCorrect, GenerationsTypeCorrect,
           ClonesTypeCorrect, ServiceTypeCorrect, PTL
==============================
