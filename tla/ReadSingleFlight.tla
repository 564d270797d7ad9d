------- MODULE ReadSingleFlight -------
(****************************************)
(* src/main/git/ReadSingleFlight.ts: reads of one repository share pending *)
(* attempts.  A scope's map entry is a generation: the flights created *)
(* since the scope was last invalidated.  A reader whose flight belongs to *)
(* an invalidated generation retries, at most twice. *)
(* *)
(* A generation needs no identity of its own: all the flights of a scope *)
(* whose gen is "current" are in the generation the map holds for it.  When *)
(* the entry empties they become "dropped" (no later invalidation can reach *)
(* them); when it is invalidated they become "invalidated". *)
(* *)
(* The operators below are steps; GitProcess composes them with the writes *)
(* that invalidate, and supplies what a flight sees and the floor below *)
(* which a reader's answer would be stale. *)
(****************************************)
EXTENDS Naturals, FiniteSets

CONSTANTS
  Readers,      \* concurrent calls of run
  Flights,      \* promise identities; one per reader is always enough
  Scopes,       \* what invalidate names
  Keys,         \* what tells the reads of a scope apart
  None          \* no value, no flight

ASSUME ReadAssumption ==
  /\ Scopes # {} /\ Keys # {}
  /\ None \notin Flights
  /\ None \notin Nat

VARIABLES
  flight,       \* the shared promises, with the flags of their generation
  reader        \* the local variables of every call of run

readVars == <<flight, reader>>

LastAttempt == 2

Flight == [stage : {"free", "pending", "settled"},
           gen   : {"current", "dropped", "invalidated"},
           scope : Scopes, key : Keys, seen : Nat \cup {None}]

Reader == [pc : {"idle", "waiting", "returned"},
           scope : Scopes, key : Keys, retryInvalidated : BOOLEAN,
           attempt : 0..LastAttempt, flight : Flights \cup {None},
           floor : Nat, result : Nat \cup {None}]

ReadTypeOK ==
  /\ flight \in [Flights -> Flight]
  /\ reader \in [Readers -> Reader]

AnyScope == CHOOSE s \in Scopes : TRUE
AnyKey == CHOOSE k \in Keys : TRUE

FreeFlight == [stage |-> "free", gen |-> "dropped", scope |-> AnyScope,
               key |-> AnyKey, seen |-> None]

IdleReader == [pc |-> "idle", scope |-> AnyScope, key |-> AnyKey,
               retryInvalidated |-> FALSE, attempt |-> 0, flight |-> None,
               floor |-> 0, result |-> None]

ReadInit ==
  /\ flight = [f \in Flights |-> FreeFlight]
  /\ reader = [r \in Readers |-> IdleReader]
------------------------------
(* The flights of the generation the map holds for a scope. *)
InGeneration(fl, s) == {f \in Flights : fl[f].gen = "current" /\ fl[f].scope = s}

\* Bug: invalidate marks the generation and leaves it in the map.
UnreleasedOrInvalidated(fl, s) ==
  {f \in Flights : fl[f].stage = "pending" /\ fl[f].gen # "dropped" /\ fl[f].scope = s}

\* generation.flights: the entries not released yet.
Unreleased(fl, s) == {f \in InGeneration(fl, s) : fl[f].stage = "pending"}

\* Every flight of the scope's generation leaves the map entry with this flag.
LeaveMap(fl, s, flag) ==
  [f \in Flights |-> IF f \in InGeneration(fl, s) THEN [fl[f] EXCEPT !.gen = flag]
                                                  ELSE fl[f]]

\* invalidate(scope)
Invalidated(fl, s) == LeaveMap(fl, s, "invalidated")

\* release() of a flight, on the value and on the error path: the entry goes, and
\* with the last entry the generation.
Released(fl, f) ==
  LET gone == [fl EXCEPT ![f].stage = "settled"]
  IN  IF fl[f].gen = "current" /\ Unreleased(gone, fl[f].scope) = {}
      THEN LeaveMap(gone, fl[f].scope, "dropped")
      ELSE gone

\* A settled promise nobody holds is garbage; its identity can be used again.
Forgotten(fl, f, r) ==
  IF \E q \in Readers \ {r} : reader[q].flight = f THEN fl
                                                  ELSE [fl EXCEPT ![f] = FreeFlight]

\* Bug: the pending flight is not found, as with a key that is never equal to itself.
AttachAlone(r, fl, call) ==
  \E f \in Flights :
    /\ fl[f].stage = "free"
    /\ flight' = [fl EXCEPT ![f] = [stage |-> "pending", gen |-> "current",
                     scope |-> call.scope, key |-> call.key, seen |-> None]]
    /\ reader' = [reader EXCEPT ![r] = [call EXCEPT !.flight = f]]

\* pending(): join the scope's flight for this key, or start one.
Attach(r, fl, call) ==
  LET existing == {f \in Unreleased(fl, call.scope) : fl[f].key = call.key}
  IN  \/ \E f \in existing :
           /\ flight' = fl
           /\ reader' = [reader EXCEPT ![r] = [call EXCEPT !.flight = f]]
      \/ /\ existing = {}
         /\ \E f \in Flights :
              /\ fl[f].stage = "free"
              /\ flight' = [fl EXCEPT ![f] =
                   [stage |-> "pending", gen |-> "current", scope |-> call.scope,
                    key |-> call.key, seen |-> None]]
              /\ reader' = [reader EXCEPT ![r] = [call EXCEPT !.flight = f]]
------------------------------
\* run(scope, key, read, retryInvalidated), up to its first await.
RunRead(r, s, k, retry, floor) ==
  /\ reader[r].pc = "idle"
  /\ Attach(r, flight, [pc |-> "waiting", scope |-> s, key |-> k,
                        retryInvalidated |-> retry, attempt |-> 0, flight |-> None,
                        floor |-> floor, result |-> None])

\* The read looks at the repository, at some moment between its start and its end.
Look(f, v) ==
  /\ flight[f].stage = "pending"
  /\ flight[f].seen = None
  /\ flight' = [flight EXCEPT ![f].seen = v]
  /\ UNCHANGED reader

\* The read ends: with what it saw, or with an error (no value).
Land(f, failed) ==
  /\ flight[f].stage = "pending"
  /\ flight[f].seen # None \/ failed
  /\ flight' = [Released(flight, f) EXCEPT ![f].seen = IF failed THEN None ELSE @]
  /\ UNCHANGED reader

\* Bug: no attempt is the last one.
SettleNever(r) == ~ reader[r].retryInvalidated

\* Whether this attempt's result is final although its generation was invalidated.
Settle(r) == ~ reader[r].retryInvalidated \/ reader[r].attempt = LastAttempt

Landed(r) == /\ reader[r].pc = "waiting"
             /\ flight[reader[r].flight].stage = "settled"

\* After the await: hand the value or the error to the caller.
ReturnRead(r) ==
  /\ Landed(r)
  /\ flight[reader[r].flight].gen # "invalidated" \/ Settle(r)
  /\ reader' = [reader EXCEPT ![r].pc = "returned", ![r].flight = None,
                              ![r].result = flight[reader[r].flight].seen]
  /\ flight' = Forgotten(flight, reader[r].flight, r)

\* Bug: one attempt too many.
RetryOnceMore(r, floor) ==
  /\ Landed(r)
  /\ flight[reader[r].flight].gen = "invalidated"
  /\ reader[r].retryInvalidated /\ reader[r].attempt <= LastAttempt
  /\ Attach(r, Forgotten(flight, reader[r].flight, r),
            [reader[r] EXCEPT !.attempt = @ + 1, !.floor = floor])

\* After the await: the generation was invalidated meanwhile, try again.
RetryRead(r, floor) ==
  /\ Landed(r)
  /\ flight[reader[r].flight].gen = "invalidated"
  /\ ~ Settle(r)
  /\ Attach(r, Forgotten(flight, reader[r].flight, r),
            [reader[r] EXCEPT !.attempt = IF @ < LastAttempt THEN @ + 1 ELSE @,
                              !.floor = floor])

\* The caller is done with the answer and may read again.
CallerDone(r) ==
  /\ reader[r].pc = "returned"
  /\ reader' = [reader EXCEPT ![r] = IdleReader]
  /\ UNCHANGED flight
------------------------------
(* Reads are shared: a scope never runs two current reads of the same key, *)
(* so a burst of identical requests costs one child process. *)
OneFlightPerKey ==
  \A f, g \in Flights :
    /\ flight[f].stage = "pending" /\ flight[g].stage = "pending"
    /\ flight[f].gen = "current" /\ flight[g].gen = "current"
    /\ flight[f].scope = flight[g].scope /\ flight[f].key = flight[g].key
    => f = g

(* The bounded retry ends: whatever is written meanwhile, a read that was *)
(* asked for is answered. *)
EveryReadReturns ==
  \A r \in Readers : reader[r].pc = "waiting" ~> reader[r].pc # "waiting"
==============================
