------- MODULE ServerProcess -------
(****************************************)
(* src/main/server/ServerProcessManager.ts as the desktop application uses *)
(* it: one start over a range of ports, restarts with a bounded backoff *)
(* after unexpected exits, changes of the listener reported by the utility, *)
(* and one stop. *)
(* *)
(* A process slot is used again once its process is gone, its exit event *)
(* was handled and nothing waits for its attempt any more. *)
(****************************************)
EXTENDS UtilityServer, FiniteSets

CONSTANTS
  Scan,         \* the addresses of the first start: one, when the port is explicit
  MaxDelays,    \* restartDelaysMs.length
  MaxCrashes    \* bound: crashes of utility processes

ASSUME ManagerAssumption ==
  /\ Scan \in Seq(Addrs) /\ Len(Scan) > 0
  /\ MaxDelays \in Nat \ {0} /\ MaxCrashes \in Nat

VARIABLES
  child, attemptChild,   \* ServerProcessManager.child and .attemptChild, NoProc for null
  address,               \* ServerProcessManager.address, Nowhere for null
  desired,               \* desiredHost with activePort, and desiredBrowserAccess
  failures,              \* consecutiveFailures
  timers,                \* which of restartTimer and stableTimer are armed
  attempt,               \* per slot, where spawnAndAdopt is with its process
  start,                 \* startInitial, and the offset of its loop
  stop,                  \* stopOwnedProcess, and the process it waits for
  gaveUp,                \* the state told to the application is "failed"
  crashes

managerVars == <<child, attemptChild, address, desired, failures, timers, attempt, start, stop,
                 gaveUp>>

superviseVars == <<proc, saved, updates, child, attemptChild, address, desired, failures, timers, attempt,
          start, stop, gaveUp, crashes>>

NoProc == 0

ManagerTypeOK ==
  /\ UtilityTypeOK
  /\ child \in Procs \cup {NoProc} /\ attemptChild \in Procs \cup {NoProc}
  /\ address \in Addrs \cup {Nowhere}
  /\ desired \in Config
  /\ failures \in 0..MaxDelays + 1
  /\ timers \in SUBSET {"restart", "stable"}
  /\ attempt \in [Procs -> {"none", "open", "probing", "adopted", "failed", "inUse", "over"}]
  /\ start \in [pc : {"idle", "running", "ready", "failed"}, offset : 0..Len(Scan)]
  /\ stop \in [pc : {"no", "waiting", "done"}, victim : Procs \cup {NoProc}]
  /\ gaveUp \in BOOLEAN /\ crashes \in 0..MaxCrashes

ManagerInit ==
  /\ UtilityInit
  /\ child = NoProc /\ attemptChild = NoProc /\ address = Nowhere
  /\ desired \in [addr : {Scan[1]}, access : BOOLEAN]
  /\ failures = 0 /\ timers = {}
  /\ attempt = [p \in Procs |-> "none"]
  /\ start = [pc |-> "idle", offset |-> 0]
  /\ stop = [pc |-> "no", victim |-> NoProc]
  /\ gaveUp = FALSE /\ crashes = 0

stopping == stop.pc # "no"

Unfinished(p) == attempt[p] \in {"open", "probing"}
------------------------------
\* spawnAndAdopt up to its first event, in the first free slot.
Fork(a, processes, attempts) ==
  \E p \in Procs :
    /\ \A q \in Procs : processes[q].st = "unused" => p <= q
    /\ processes[p].st = "unused"
    /\ proc' = [processes EXCEPT ![p] = [UnusedProc EXCEPT !.st = "forked",
                  !.config = [addr |-> a, access |-> desired.access]]]
    /\ attempt' = [attempts EXCEPT ![p] = "open"]
    /\ attemptChild' = p

StartServer ==
  /\ start.pc = "idle" /\ ~ stopping
  /\ start' = [pc |-> "running", offset |-> 1]
  /\ Fork(Scan[1], proc, attempt)
  /\ UNCHANGED <<saved, updates, child, address, desired, failures, timers, stop, gaveUp, crashes>>

\* Bug: a failed attempt leaves its process running.
FailQuietly(p, why) ==
  /\ attempt' = [attempt EXCEPT ![p] = why]
  /\ attemptChild' = IF attemptChild = p THEN NoProc ELSE attemptChild
  /\ proc' = proc
  /\ UNCHANGED <<saved, updates, child, address, desired, failures, timers, start, stop, gaveUp>>

\* kill(): the process makes no other step before it is gone.
Killed(process) ==
  [process EXCEPT !.told = TRUE, !.st = IF @ \in {"unused", "gone"} THEN @ ELSE "ending"]

\* fail(): the caller of spawnAndAdopt goes on once the failure is logged, see AttemptEnds.
Fail(p, why) ==
  /\ attempt' = [attempt EXCEPT ![p] = why]
  /\ attemptChild' = IF attemptChild = p THEN NoProc ELSE attemptChild
  /\ proc' = [proc EXCEPT ![p] = Killed(@)]
  /\ UNCHANGED <<saved, updates, child, address, desired, failures, timers, start, stop, gaveUp>>

\* The spawn event: the bootstrap message, unless the attempt was cancelled.
Spawned(p) ==
  /\ proc[p].st = "forked" /\ ~ proc[p].told
  /\ IF stopping THEN Fail(p, "failed")
     ELSE /\ proc' = [proc EXCEPT ![p].st = "booting"]
          /\ UNCHANGED <<saved, updates, managerVars>>
  /\ UNCHANGED crashes

\* The next message of a utility process.
MessageArrives(p) ==
  LET message == Head(proc[p].out)
      read == [proc EXCEPT ![p].out = Tail(@)]
  IN
  /\ proc[p].out # <<>>
  /\ IF message.type = "changed"
     THEN /\ proc' = read
          /\ IF child = p /\ address # Nowhere
             THEN desired' = message.net /\ address' = message.net.addr
             ELSE UNCHANGED <<desired, address>>
          /\ UNCHANGED <<attempt, attemptChild>>
     ELSE IF attempt[p] # "open"
     THEN proc' = read /\ UNCHANGED <<attempt, attemptChild, desired, address>>
     ELSE LET expected == message.type = "ready" /\ message.net.addr = proc[p].config.addr IN
          /\ proc' = IF expected THEN read ELSE [read EXCEPT ![p] = Killed(@)]
          /\ attempt' = [attempt EXCEPT ![p] =
               IF expected THEN "probing"
               ELSE IF message.type = "error" /\ message.inUse THEN "inUse" ELSE "failed"]
          /\ attemptChild' = IF ~ expected /\ attemptChild = p THEN NoProc ELSE attemptChild
          /\ UNCHANGED <<desired, address>>
  /\ UNCHANGED <<saved, updates, child, failures, timers, start, stop, gaveUp, crashes>>

\* The startup timer, a probe or a desktop authentication that fails.
AttemptFails(p) ==
  /\ Unfinished(p)
  /\ Fail(p, "failed")
  /\ UNCHANGED crashes

\* Probed and authenticated: the process is adopted, and the caller goes on at once.
Adopt(p) ==
  /\ attempt[p] = "probing" /\ ~ stopping
  /\ child' = p /\ address' = proc[p].config.addr
  /\ desired' = [desired EXCEPT !.addr = proc[p].config.addr]
  /\ attempt' = [attempt EXCEPT ![p] = "adopted"]
  /\ attemptChild' = IF attemptChild = p THEN NoProc ELSE attemptChild
  /\ timers' = timers \cup {"stable"}
  /\ failures' = IF start.pc = "running" THEN 0 ELSE failures
  /\ start' = IF start.pc = "running" THEN [start EXCEPT !.pc = "ready"] ELSE start
  /\ UNCHANGED <<proc, saved, updates, stop, gaveUp, crashes>>

\* scheduleRestart after one more failure, with the other timers that stay.
Backoff(kept) ==
  /\ failures' = failures + 1
  /\ IF stopping \/ "restart" \in kept THEN timers' = kept /\ gaveUp' = gaveUp
     ELSE /\ timers' = IF failures' > MaxDelays THEN kept ELSE kept \cup {"restart"}
          /\ gaveUp' = (failures' > MaxDelays)

Freed(p, processes, attempts) ==
  /\ proc' = [processes EXCEPT ![p] = UnusedProc]
  /\ attempt' = [attempts EXCEPT ![p] = "none"]

\* The exit event, which makes the messages that are left pointless.
ExitHandled(p) ==
  /\ proc[p].st = "gone" /\ attempt[p] \in {"open", "probing", "adopted", "over"}
  /\ IF Unfinished(p)
     THEN /\ attempt' = [attempt EXCEPT ![p] = "failed"]
          /\ attemptChild' = IF attemptChild = p THEN NoProc ELSE attemptChild
          /\ UNCHANGED <<proc, child, address, failures, timers, gaveUp>>
     ELSE /\ Freed(p, proc, attempt)
          /\ UNCHANGED attemptChild
          /\ IF attempt[p] = "adopted" /\ child = p
             THEN /\ child' = NoProc /\ address' = Nowhere
                  /\ IF stopping THEN timers' = timers \ {"stable"} /\ UNCHANGED <<failures, gaveUp>>
                     ELSE Backoff(timers \ {"stable"})
             ELSE UNCHANGED <<child, address, failures, timers, gaveUp>>
  /\ UNCHANGED <<saved, updates, desired, start, stop, crashes>>

\* The failure is logged: startInitial tries the next port, or the restart is tried again.
AttemptEnds(p) ==
  LET ended == [attempt EXCEPT ![p] = "over"]
      more == attempt[p] = "inUse" /\ start.offset < Len(Scan)
  IN
  /\ attempt[p] \in {"failed", "inUse"}
  /\ IF start.pc = "running"
     THEN /\ IF more
             THEN /\ Fork(Scan[start.offset + 1], proc, ended)
                  /\ start' = [start EXCEPT !.offset = @ + 1]
             ELSE /\ attempt' = ended
                  /\ start' = [start EXCEPT !.pc = "failed"]
                  /\ UNCHANGED <<proc, attemptChild>>
          /\ UNCHANGED <<failures, timers, gaveUp>>
     ELSE /\ attempt' = ended
          /\ Backoff(timers)
          /\ UNCHANGED <<proc, attemptChild, start>>
  /\ UNCHANGED <<saved, updates, child, address, desired, stop, crashes>>

\* Bug: a restart asks for the server that start() returned, and forks nothing.
RestartReusesStart ==
  /\ "restart" \in timers
  /\ timers' = timers \ {"restart"}
  /\ UNCHANGED <<proc, saved, updates, child, attemptChild, address, desired, failures, attempt,
                 start, stop, gaveUp, crashes>>

RestartTimerFires ==
  /\ "restart" \in timers
  /\ timers' = timers \ {"restart"}
  /\ Fork(desired.addr, proc, attempt)
  /\ UNCHANGED <<saved, updates, child, address, desired, failures, start, stop, gaveUp, crashes>>

StableTimerFires ==
  /\ "stable" \in timers
  /\ timers' = timers \ {"stable"} /\ failures' = 0
  /\ UNCHANGED <<proc, saved, updates, child, attemptChild, address, desired, attempt, start, stop,
                 gaveUp, crashes>>

\* stop(): the adopted process, or the one being started, is asked to shut down.  One that
\* was not spawned yet has no pid and is not waited for.
Stop ==
  LET victim == IF child # NoProc THEN child ELSE attemptChild
      running == victim # NoProc /\ proc[victim].st \notin {"unused", "forked", "gone"}
  IN
  /\ ~ stopping
  /\ timers' = {}
  /\ child' = NoProc /\ attemptChild' = NoProc /\ address' = Nowhere
  /\ proc' = IF running THEN [proc EXCEPT ![victim].told = TRUE] ELSE proc
  /\ stop' = [pc |-> IF running THEN "waiting" ELSE "done",
              victim |-> IF running THEN victim ELSE NoProc]
  /\ UNCHANGED <<saved, updates, desired, failures, attempt, start, gaveUp, crashes>>

\* The process is gone, or it is killed when the time for that is over.
StopEnds ==
  /\ stop.pc = "waiting"
  /\ stop' = [pc |-> "done", victim |-> NoProc]
  /\ UNCHANGED <<proc, saved, updates, child, attemptChild, address, desired, failures, timers,
                 attempt, start, gaveUp, crashes>>
------------------------------
Utility ==
  /\ \E p \in Procs :
       \/ Boot(p) \/ UpdateStep(p) \/ Exit(p)
       \/ \E next \in Config : BeginUpdate(p, next)
  /\ UNCHANGED <<managerVars, crashes>>

Crashes ==
  /\ crashes < MaxCrashes /\ crashes' = crashes + 1
  /\ \E p \in Procs : Crash(p)
  /\ UNCHANGED managerVars

Manager(p) ==
  Spawned(p) \/ MessageArrives(p) \/ Adopt(p) \/ ExitHandled(p) \/ AttemptEnds(p)

ManagerNext ==
  \/ Utility \/ Crashes
  \/ StartServer \/ RestartTimerFires \/ StableTimerFires \/ Stop \/ StopEnds
  \/ \E p \in Procs : Manager(p) \/ AttemptFails(p)

ManagerSpec == ManagerInit /\ [][ManagerNext]_superviseVars

(* Events of the manager and of the processes are handled in the end, a *)
(* timer that is armed fires, a process that was told to end ends, and an *)
(* attempt does not stay open: its startup timer sees to that. *)
ManagerFairness ==
  /\ WF_superviseVars(RestartTimerFires)
  /\ \A p \in Procs : /\ WF_superviseVars(Manager(p)) /\ WF_superviseVars(AttemptFails(p))
                      /\ WF_superviseVars(Exit(p) /\ UNCHANGED <<managerVars, crashes>>)

ManagerFairSpec == ManagerSpec /\ ManagerFairness
------------------------------
Running == {p \in Procs : Alive(p) /\ ~ proc[p].told}

(* The application owns one utility server: a process that was not told to *)
(* end is the adopted one or the one being started, and there are not two. *)
OneUtility ==
  Cardinality(Running) <= 1 /\ (~ stopping => Running \subseteq {child, attemptChild})

(* A process that was adopted runs, or its exit is still to be handled. *)
AdoptedIsWatched ==
  child # NoProc => attempt[child] = "adopted" /\ (proc[child].st = "gone" \/ child \in Running)

(* Once it is to stop, the application neither adopts a process nor arms a *)
(* timer, whatever was under way. *)
NothingAfterStop == stopping => child = NoProc /\ timers = {}

(* The application has one server, knows it, and has none after its end. *)
OneServerIsWatched == OneUtility /\ AdoptedIsWatched /\ NothingAfterStop

(* A server between two updates serves the configuration on file, from its *)
(* own listener, unless undoing a failed update failed too. *)
ServesWhatIsSaved ==
  \A p \in Running :
    proc[p].st = "serving" /\ proc[p].update = "no" /\ ~ proc[p].astray /\ saved # {}
    => saved = {proc[p].net} /\ proc[p].at \in {proc[p].net.addr, Nowhere}

(* A utility listens where the supervisor expects it to: its answer to the *)
(* bootstrap message is not refused for its address. *)
ReadyWhereExpected ==
  \A p \in Procs : \A i \in DOMAIN proc[p].out :
    proc[p].out[i].type = "ready" => proc[p].out[i].net.addr = proc[p].config.addr

(* A server that is lost comes back, or its restarts were used up, or the *)
(* application stops. *)
CrashIsAnswered ==
  (start.pc = "ready" /\ child = NoProc) ~> (child # NoProc \/ gaveUp \/ stopping)

(* After a stop no utility process stays, the ones that were being started *)
(* included. *)
StopLeavesNothing == stopping ~> [](\A p \in Procs : ~ Alive(p))
==============================
