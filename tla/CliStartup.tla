------- MODULE CliStartup -------
(****************************************)
(* How a server of the command line starts for a home, and how a command *)
(* that restarts or installs its service learns what became of it: *)
(* packages/server/src/cli.ts (startCliServer), cli-startup.ts, cli-home.ts, *)
(* cli-runtime.ts and waitServiceReady of cli-service.ts.  The programs share *)
(* two files: runtime.json says which process serves the home, *)
(* startup.json how the last requested start goes.  Each is read in one step *)
(* and written or removed in a later one. *)
(* *)
(* A process is its number and its instance.  An attempt is the process that *)
(* made it up, or "command" when the command requested it. *)
(****************************************)
EXTENDS Integers, FiniteSets

CONSTANTS
  Processes,      \* what is started for the home; the first one serves at the beginning
  First, NoProcess,
  Ports,
  ServicePort,    \* of the service
  MaxMishaps      \* bound: starts that fail, processes that are killed

ASSUME StartupAssumption ==
  /\ First \in Processes /\ "command" \notin Processes /\ NoProcess \notin Processes \cup {"command"}
  /\ ServicePort \in Ports /\ MaxMishaps \in Nat

VARIABLES
  processes,   \* what each process does
  startupFile, \* startup.json
  runtimeFile, \* runtime.json: the process that serves
  job,         \* the process of the service manager
  unit,        \* the version of the service's definition
  command,     \* the command that restarts or installs; `earlier` is what was started before its restart
  mishaps

startupVars == <<processes, startupFile, runtimeFile, job, unit, command, mishaps>>

NoStartup == [attempt |-> NoProcess, phase |-> "none", by |-> NoProcess]
NotStarted == [stage |-> "none", managed |-> FALSE, version |-> 1, port |-> ServicePort,
               attempt |-> NoProcess, previous |-> NoProcess, failed |-> FALSE, seen |-> NoProcess]
NoCommand == [stage |-> "none", earlier |-> {}, record |-> NoStartup, runtime |-> NoProcess]

\* The order of a start; what follows "serve" is its end.
Saving == {"save-starting", "write-starting", "save-ready", "write-ready", "save-failed", "write-failed"}
Stages == {"none", "begin", "refuse", "clear-stale", "rm-stale", "listen", "record", "serve", "clear", "rm", "end", "gone"}
          \cup Saving

StartupTypeOK ==
  /\ \A p \in Processes : LET x == processes[p] IN
       /\ x.stage \in Stages /\ x.managed \in BOOLEAN /\ x.version \in 1..2 /\ x.port \in Ports /\ x.failed \in BOOLEAN
       /\ x.attempt \in Processes \cup {"command", NoProcess}
       /\ (x.stage \in Saving => x.managed /\ x.attempt # NoProcess)
  /\ startupFile.phase \in {"none", "pending", "starting", "ready", "failed"}
  /\ runtimeFile \in Processes \cup {NoProcess} /\ job \in Processes \cup {NoProcess} /\ unit \in 1..2
  /\ command.stage \in {"none", "stop", "start", "poll", "runtime", "verify", "ready", "failed", "late"}
  /\ mishaps \in 0..MaxMishaps

StartupInit ==
  /\ processes = [p \in Processes |-> IF p = First THEN [NotStarted EXCEPT !.stage = "serve", !.managed = TRUE, !.attempt = First]
                                      ELSE NotStarted]
  /\ startupFile = [attempt |-> First, phase |-> "ready", by |-> First]
  /\ runtimeFile = First /\ job = First /\ unit = 1 /\ command = NoCommand /\ mishaps = 0

Lives(p) == p # NoProcess /\ processes[p].stage \notin {"none", "gone"}

\* Its server answers: it has bound its port and is not closed.
Serving(p) == Lives(p) /\ processes[p].stage \in {"record", "save-ready", "write-ready", "serve"}

Becomes(p, x) == processes' = [processes EXCEPT ![p] = x]
Goes(p, stage) == Becomes(p, [processes[p] EXCEPT !.stage = stage])
Mishap == mishaps < MaxMishaps /\ mishaps' = mishaps + 1
------------------------------
(* A process *)

Born(p, managed, version, port) ==
  /\ ~Lives(p) /\ processes[p].stage = "none"
  /\ Becomes(p, [NotStarted EXCEPT !.stage = IF managed THEN "begin" ELSE "refuse", !.managed = managed,
                                   !.version = version, !.port = port])

\* Somebody serves the home from a terminal: no startup is reported.
StartInTerminal(p) ==
  /\ \E version \in 1..2, port \in Ports : Born(p, FALSE, version, port)
  /\ UNCHANGED <<startupFile, runtimeFile, job, unit, command, mishaps>>

\* startupReporter: a requested attempt that nobody has begun is its own, or it makes one up.
BeginReport(p) ==
  /\ processes[p].stage = "begin"
  /\ Becomes(p, [processes[p] EXCEPT !.stage = "save-starting", !.previous = startupFile.attempt,
                                     !.attempt = IF startupFile.phase = "pending" THEN startupFile.attempt ELSE p])
  /\ UNCHANGED <<startupFile, runtimeFile, job, unit, command, mishaps>>

AfterSave(stage) == CASE stage \in {"save-starting", "write-starting"} -> "refuse"
                      [] stage \in {"save-ready", "write-ready"} -> "serve"
                      [] OTHER -> "gone"
Phase(stage) == CASE stage = "write-starting" -> "starting" [] stage = "write-ready" -> "ready" [] OTHER -> "failed"
WriteStage(stage) == CASE stage = "save-starting" -> "write-starting" [] stage = "save-ready" -> "write-ready"
                       [] OTHER -> "write-failed"

\* save: not over the attempt of another, at first not over one that was not there before.
MaySave(p) ==
  \/ startupFile = NoStartup \/ startupFile.attempt = processes[p].attempt
  \/ processes[p].stage = "save-starting" /\ startupFile.attempt = processes[p].previous

SaveLooks(p) ==
  /\ processes[p].stage \in {"save-starting", "save-ready", "save-failed"}
  /\ Goes(p, IF MaySave(p) THEN WriteStage(processes[p].stage) ELSE AfterSave(processes[p].stage))
  /\ UNCHANGED <<startupFile, runtimeFile, job, unit, command, mishaps>>

SaveWrites(p) ==
  /\ processes[p].stage \in {"write-starting", "write-ready", "write-failed"}
  /\ startupFile' = [attempt |-> processes[p].attempt, phase |-> Phase(processes[p].stage), by |-> p]
  /\ Goes(p, AfterSave(processes[p].stage))
  /\ UNCHANGED <<runtimeFile, job, unit, command, mishaps>>

\* The error of a start: what the server had is closed, its record cleared, the failure reported.
Failing(p) ==
  Becomes(p, [processes[p] EXCEPT !.failed = TRUE,
                !.stage = IF @ \in {"record", "save-ready"} THEN "clear" ELSE IF processes[p].managed THEN "save-failed" ELSE "gone"])

\* refuseActiveRuntime
RefuseActive(p) ==
  /\ processes[p].stage = "refuse"
  /\ IF runtimeFile = NoProcess THEN Goes(p, "listen")
     ELSE IF Lives(runtimeFile) THEN Failing(p)
     ELSE Becomes(p, [processes[p] EXCEPT !.stage = "clear-stale", !.seen = runtimeFile])
  /\ UNCHANGED <<startupFile, runtimeFile, job, unit, command, mishaps>>

\* clearRuntimeState: only the record of the instance that it is about.
Clears(p) ==
  /\ processes[p].stage \in {"clear-stale", "clear"}
  /\ LET own == processes[p].stage = "clear"
         found == runtimeFile = (IF own THEN p ELSE processes[p].seen)
     IN Goes(p, CASE own -> IF found THEN "rm" ELSE "end"
                  [] OTHER -> IF found THEN "rm-stale" ELSE "listen")
  /\ UNCHANGED <<startupFile, runtimeFile, job, unit, command, mishaps>>

Removes(p) ==
  /\ processes[p].stage \in {"rm-stale", "rm"}
  /\ runtimeFile' = NoProcess
  /\ Goes(p, IF processes[p].stage = "rm" THEN "end" ELSE "listen")
  /\ UNCHANGED <<startupFile, job, unit, command, mishaps>>

\* After the record is cleared: a failure is reported, a server that was stopped exits.
Ends(p) ==
  /\ processes[p].stage = "end"
  /\ Goes(p, IF processes[p].failed /\ processes[p].managed THEN "save-failed" ELSE "gone")
  /\ UNCHANGED <<startupFile, runtimeFile, job, unit, command, mishaps>>

\* startOnConfiguredPort
Listens(p) ==
  /\ processes[p].stage = "listen"
  /\ IF \E q \in Processes \ {p} : Serving(q) /\ processes[q].port = processes[p].port
     THEN Failing(p) ELSE Goes(p, "record")
  /\ UNCHANGED <<startupFile, runtimeFile, job, unit, command, mishaps>>

Records(p) ==
  /\ processes[p].stage = "record"
  /\ runtimeFile' = p
  /\ Goes(p, IF processes[p].managed THEN "save-ready" ELSE "serve")
  /\ UNCHANGED <<startupFile, job, unit, command, mishaps>>

\* Git is missing, a file cannot be written.
FailsToStart(p) ==
  /\ processes[p].stage \in {"refuse", "listen", "record", "save-ready"} /\ Mishap /\ Failing(p)
  /\ UNCHANGED <<startupFile, runtimeFile, job, unit, command>>

\* waitForShutdown, for a process that serves; a signal ends any other at once.
Signalled(p) == Goes(p, IF processes[p].stage = "serve" THEN "clear" ELSE "gone")

Interrupted(p) ==
  /\ ~processes[p].managed /\ processes[p].stage = "serve" /\ Signalled(p)
  /\ UNCHANGED <<startupFile, runtimeFile, job, unit, command, mishaps>>

Killed(p) ==
  /\ Lives(p) /\ Mishap /\ Becomes(p, [processes[p] EXCEPT !.stage = "gone", !.failed = TRUE])
  /\ UNCHANGED <<startupFile, runtimeFile, job, unit, command>>
------------------------------
(* The service manager *)

\* It starts the service again after a failure, unless it is told to restart it.
StartsAgain(p) ==
  /\ job # NoProcess /\ ~Lives(job) /\ processes[job].failed /\ command.stage # "start"
  /\ Born(p, TRUE, unit, ServicePort) /\ job' = p
  /\ UNCHANGED <<startupFile, runtimeFile, unit, command, mishaps>>
------------------------------
(* The command *)

CommandGoes(stage) == command' = [command EXCEPT !.stage = stage]

\* installService writes the definition; both request a startup: a record in place of the last.
RequestStartup ==
  /\ command.stage = "none"
  /\ CommandGoes("stop")
  /\ unit' \in 1..2
  /\ startupFile' = [attempt |-> "command", phase |-> "pending", by |-> NoProcess]
  /\ UNCHANGED <<processes, runtimeFile, job, mishaps>>

\* restart of the manager: the process is stopped, and gone before the next one is started.
RestartStops ==
  /\ command.stage = "stop"
  /\ CommandGoes("start") /\ IF Lives(job) THEN Signalled(job) ELSE UNCHANGED processes
  /\ UNCHANGED <<startupFile, runtimeFile, job, unit, mishaps>>

RestartStarts(p) ==
  /\ command.stage = "start" /\ ~Lives(job)
  /\ Born(p, TRUE, unit, ServicePort) /\ job' = p
  /\ command' = [command EXCEPT !.stage = "poll", !.earlier = {q \in Processes : processes[q].stage # "none"}]
  /\ UNCHANGED <<startupFile, runtimeFile, unit, mishaps>>

\* waitServiceReady: a failure of the requested attempt ends the wait.
PollStartup ==
  /\ command.stage = "poll"
  /\ command' = [command EXCEPT !.record = startupFile, !.stage =
                    IF startupFile.attempt = "command" /\ startupFile.phase = "failed" THEN "failed" ELSE "runtime"]
  /\ UNCHANGED <<processes, startupFile, runtimeFile, job, unit, mishaps>>

PollRuntime ==
  /\ command.stage = "runtime"
  /\ command' = [command EXCEPT !.stage = IF runtimeFile = NoProcess THEN "poll" ELSE "verify", !.runtime = runtimeFile]
  /\ UNCHANGED <<processes, startupFile, runtimeFile, job, unit, mishaps>>

\* Bug: public readiness is enough.
IsReady == Serving(command.runtime) /\ processes[command.runtime].version = unit

\* verifiedServiceRuntime and what the record says: it is the manager's process, it answers, and it
\* has reported that the requested attempt is ready.
IsVerified ==
  /\ job = command.runtime /\ Serving(command.runtime) /\ processes[command.runtime].version = unit
  /\ command.record = [attempt |-> "command", phase |-> "ready", by |-> command.runtime]

VerifyReady ==
  /\ command.stage = "verify"
  /\ CommandGoes(IF IsVerified THEN "ready" ELSE "poll")
  /\ UNCHANGED <<processes, startupFile, runtimeFile, job, unit, mishaps>>

\* startupTimeout
GiveUpWaiting ==
  /\ command.stage = "poll" /\ CommandGoes("late")
  /\ UNCHANGED <<processes, startupFile, runtimeFile, job, unit, mishaps>>

StartupNext ==
  \/ \E p \in Processes :
       \/ StartInTerminal(p) \/ BeginReport(p) \/ SaveLooks(p) \/ SaveWrites(p) \/ RefuseActive(p) \/ Clears(p)
       \/ Removes(p) \/ Ends(p) \/ Listens(p) \/ Records(p) \/ FailsToStart(p) \/ Interrupted(p) \/ Killed(p)
       \/ StartsAgain(p) \/ RestartStarts(p)
  \/ RequestStartup \/ RestartStops \/ PollStartup \/ PollRuntime \/ VerifyReady \/ GiveUpWaiting

StartupSpec == StartupInit /\ [][StartupNext]_startupVars
------------------------------
(* "reports success only after verifying the managed server's identity" *)
(* (docs/getting-started.md:193): what a command takes for the server it *)
(* asked for is the manager's, was started by the restart or after it, from *)
(* the definition as it is, and has got through its start. *)
ReadyIsTheRequested ==
  command.stage = "ready" =>
    LET p == command.runtime IN
    /\ p \notin command.earlier /\ processes[p].managed /\ processes[p].version = unit
    /\ processes[p].attempt = "command"

(* The record of a server that serves stays until it ends, whoever else *)
(* starts, ends or fails for the home. *)
RecordStays ==
  \A p \in Processes : processes[p].stage = "serve" =>
    runtimeFile = p \/ \E q \in Processes \ {p} : Serving(q) /\ runtimeFile = q

(* One process serves a home: "OpenTig is already running for this home" *)
(* (packages/server/src/cli.ts:258). *)
OneServerPerHome == Cardinality({p \in Processes : Serving(p)}) <= 1

(* "An old process must never replace a newer requested attempt." *)
(* (packages/server/src/cli-startup.ts:41) *)
NewerAttemptStays ==
  [][\A p \in Processes : SaveWrites(p) /\ processes[p].attempt # "command" /\ startupFile.attempt = "command" =>
       startupFile.phase # "pending"]_startupVars

(* What a command reports as the failure of the start is of a process that *)
(* its restart, or the manager after it, started: "older records are not *)
(* treated as the current result" (docs/getting-started.md:280). *)
FailureIsItsOwn == command.stage = "failed" => command.record.by \notin command.earlier
==============================
