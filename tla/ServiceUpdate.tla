------- MODULE ServiceUpdate -------
(****************************************)
(* The managed CLI service and the programs that change it: the running *)
(* server's updater (packages/server/src/service-updater.ts), the worker it *)
(* starts outside itself (service-update-worker.ts) and the commands of the *)
(* command line (cli-service.ts).  They share files: the definition the *)
(* operating system starts the service from, installation.json, the result *)
(* of the last update, and a lock directory with the worker's plan in it. *)
(* *)
(* A definition and an installation are the version they name, 0 for none. *)
(* Whoever ends an operation deletes the lock, also one that another program *)
(* created meanwhile; `holder` says who created it.  The latest release is *)
(* Latest.  Any program can be killed between two steps. *)
(****************************************)
EXTENDS Integers, FiniteSets

CONSTANTS
  Latest,       \* the version of the latest release
  Clis,         \* processes of the command line, each of one version
  MaxFaults,    \* bound: steps that fail
  MaxKills      \* bound: programs that are killed, the service included

ASSUME UpdateAssumption ==
  /\ Latest \in Nat \ {0, 1} /\ IsFiniteSet(Clis) /\ "updater" \notin Clis
  /\ MaxFaults \in Nat /\ MaxKills \in Nat

VARIABLES
  definition, installation, result,
  holder,      \* who created the lock directory: "free", "updater" or a process of the command line
  plan,        \* plan.json in the lock directory
  server,      \* the running server: its version, and whether it was told of a failed update
  updater,     \* ServiceUpdater and its install(), in the running server
  worker,      \* the worker: runUpdateTransaction and applyServiceUpdate around it
  cli,         \* per process, manage()
  faults, kills,
  overlapped,  \* history: two operations were in progress at once
  unrecovered, \* history: an operation was cut short between its files, by a kill or a failed undoing or
               \* removal, and none has succeeded in replacing or removing the service since
  stale,       \* history: the same of a command that took the lock with what it had read before
               \* another's change
  downgraded   \* history: a command installed a version older than the one in place

updateVars == <<definition, installation, result, holder, plan, server, updater, worker, cli, faults, kills,
                overlapped, unrecovered, stale, downgraded>>

files == <<definition, installation, result>>
serviceHistory == <<overlapped, unrecovered, stale, downgraded>>

Versions == 1..Latest
NoServer == [version |-> 0, told |-> FALSE]
NoUpdater == [phase |-> "unavailable", stage |-> "none"]
NoUpdate == [current |-> 0, unit |-> 0]
NoWorker == [stage |-> "none", plan |-> NoUpdate, success |-> FALSE]
NoCli == [stage |-> "none", action |-> "install", version |-> 1, installed |-> 0, definition |-> 0]

Transaction == {"write", "save", "restart", "health", "put-back", "put-back-save", "tell", "restart-back", "unlock"}
UnderLock == {"ready", "write", "save", "restart", "wait", "put-back", "put-back-save", "restart-back", "unlock"}

ServiceTypeOK ==
  /\ definition \in 0..Latest /\ installation \in 0..Latest
  /\ result \in [success : BOOLEAN, version : 0..Latest]
  /\ holder \in {"free", "updater"} \cup Clis
  /\ server \in [version : 0..Latest, told : BOOLEAN]
  /\ updater.phase \in {"unavailable", "idle", "available", "downloading", "ready", "installing", "error"}
  /\ updater.stage \in {"none", "lock", "plan", "launch", "launched", "watch"}
  /\ worker.stage \in {"none", "read"} \cup Transaction
  /\ \A c \in Clis : cli[c].stage \in {"none", "read", "lock"} \cup UnderLock
  /\ faults \in 0..MaxFaults /\ kills \in 0..MaxKills

ServiceInit ==
  /\ definition = 1 /\ installation = 1 /\ result = [success |-> TRUE, version |-> 0]
  /\ holder = "free" /\ plan = NoUpdate
  /\ server = [version |-> 1, told |-> FALSE] /\ updater = [phase |-> "idle", stage |-> "none"]
  /\ worker = NoWorker /\ cli = [c \in Clis |-> NoCli] /\ faults = 0 /\ kills = 0
  /\ overlapped = FALSE /\ unrecovered = FALSE /\ stale = FALSE /\ downgraded = FALSE

Fault == faults < MaxFaults /\ faults' = faults + 1
------------------------------
(* The service manager of the operating system *)

\* The server of a version reads the rest at startup (createServiceUpdater).
Started(version) ==
  /\ server' = [version |-> version, told |-> result = [success |-> FALSE, version |-> version]]
  /\ updater' = IF version = 0 \/ installation # version THEN NoUpdater
                ELSE [phase |-> IF server'.told THEN "error" ELSE "idle", stage |-> "none"]

Stopped == server' = NoServer /\ updater' = NoUpdater

\* A restart or a stop fails before or after the server has stopped; on Windows a task is
\* stopped before it is written.
MayStop == Stopped \/ UNCHANGED <<server, updater>>

\* The server crashes or the computer restarts it, from the definition that is there or from
\* the one that is still loaded.
Crash ==
  /\ server.version # 0 /\ kills < MaxKills /\ kills' = kills + 1
  /\ \E version \in {definition, server.version} \ {0} : Started(version)
  /\ UNCHANGED <<files, holder, plan, worker, cli, faults, serviceHistory>>
------------------------------
(* ServiceUpdater *)

Phase(from, to) ==
  /\ updater.phase = from /\ updater' = [updater EXCEPT !.phase = to]
  /\ UNCHANGED <<files, holder, plan, server, worker, cli, kills, serviceHistory>>

\* check
CheckForUpdate ==
  \/ \E from \in {"idle", "error"} :
       Phase(from, IF server.version < Latest THEN "available" ELSE "idle") /\ UNCHANGED faults
  \/ Phase("idle", "error") /\ Fault

\* download; the release is staged in a folder of its own.
Download == Phase("available", "downloading") /\ UNCHANGED faults
Staged ==
  \/ Phase("downloading", "ready") /\ UNCHANGED faults
  \/ Phase("downloading", "error") /\ Fault

\* install
BeginInstall ==
  /\ updater.phase = "ready" /\ updater' = [phase |-> "installing", stage |-> "lock"]
  /\ UNCHANGED <<files, holder, plan, server, worker, cli, faults, kills, serviceHistory>>

InstallFails == updater' = [phase |-> "error", stage |-> "none"]

Free == holder' = "free" /\ plan' = NoUpdate

\* The end of an operation.  A lock that cannot be deleted stays.
Unlock == \/ Free /\ UNCHANGED faults
          \/ Fault /\ UNCHANGED <<holder, plan>>

LockForUpdate ==
  /\ updater.stage = "lock"
  /\ IF holder = "free" THEN holder' = "updater" /\ updater' = [updater EXCEPT !.stage = "plan"]
                        ELSE InstallFails /\ UNCHANGED holder
  /\ UNCHANGED <<files, plan, server, worker, cli, faults, kills, serviceHistory>>

WritePlan ==
  /\ updater.stage = "plan"
  /\ IF definition = 0 THEN InstallFails /\ Free
     ELSE /\ plan' = [current |-> server.version, unit |-> definition]
          /\ updater' = [updater EXCEPT !.stage = "launch"] /\ UNCHANGED holder
  /\ UNCHANGED <<files, server, worker, cli, faults, kills, serviceHistory>>

\* The command that starts the worker can fail although it started it.
LaunchWorker ==
  \/ /\ updater.stage = "launch" /\ worker = NoWorker
     /\ updater' = [updater EXCEPT !.stage = "launched"] /\ worker' = [NoWorker EXCEPT !.stage = "read"]
     /\ UNCHANGED <<files, holder, plan, server, cli, faults, kills, serviceHistory>>
  \/ /\ updater.stage = "launched" /\ updater' = [updater EXCEPT !.stage = "watch"]
     /\ UNCHANGED <<files, holder, plan, server, worker, cli, faults, kills, serviceHistory>>
  \/ /\ updater.stage \in {"launch", "launched"} /\ Fault /\ InstallFails /\ Free
     /\ UNCHANGED <<files, server, worker, cli, kills, serviceHistory>>

\* The worker is gone and this server is still there.
WorkerGone ==
  /\ updater.stage = "watch" /\ worker = NoWorker /\ InstallFails /\ Free
  /\ UNCHANGED <<files, server, worker, cli, faults, kills, serviceHistory>>

\* 120 seconds are over.
GiveUpWatching ==
  /\ updater.stage = "watch" /\ InstallFails
  /\ UNCHANGED <<files, holder, plan, server, worker, cli, faults, kills, serviceHistory>>
------------------------------
(* The worker *)

Busy(w, c) == Cardinality({x \in Clis : c[x].stage \in UnderLock}) + (IF w.stage \in Transaction THEN 1 ELSE 0)
WorkerGoes(stage) == worker' = [worker EXCEPT !.stage = stage]

\* The plan is gone with its lock, or the service is not the one it was made for: no cleanup.
ReadPlan ==
  /\ worker.stage = "read"
  /\ worker' = IF plan # NoUpdate /\ installation = plan.current /\ definition = plan.unit
               THEN [worker EXCEPT !.stage = "write", !.plan = plan] ELSE NoWorker
  /\ overlapped' = (overlapped \/ Busy(worker', cli) > 1)
  /\ UNCHANGED <<files, holder, plan, server, updater, cli, faults, kills, unrecovered, stale, downgraded>>

\* Bug: the service is restarted as it is.
FailedStageRestart == "restart-back"

\* A failed step starts the restoration; one of the restoration ends it.
FailedStage == "put-back"
WorkerFails ==
  /\ worker.stage \in {"write", "save", "health", "put-back", "put-back-save", "tell"} /\ Fault
  /\ IF worker.stage \in {"write", "put-back"} THEN MayStop ELSE UNCHANGED <<server, updater>>
  /\ IF worker.stage \in {"write", "save", "health"}
     THEN WorkerGoes(FailedStage) /\ UNCHANGED unrecovered
     ELSE WorkerGoes("unlock") /\ unrecovered' = TRUE
  /\ UNCHANGED <<files, holder, plan, cli, kills, overlapped, stale, downgraded>>

Activate ==
  /\ \/ worker.stage = "write" /\ definition' = Latest /\ MayStop /\ WorkerGoes("save") /\ UNCHANGED installation
     \/ worker.stage = "save" /\ installation' = Latest /\ WorkerGoes("restart") /\ UNCHANGED <<definition, server, updater>>
  /\ UNCHANGED <<result, holder, plan, cli, faults, kills, serviceHistory>>

RestartNew ==
  /\ worker.stage = "restart"
  /\ \/ Started(definition) /\ WorkerGoes("health") /\ UNCHANGED faults
     \/ Fault /\ MayStop /\ WorkerGoes(FailedStage)
  /\ UNCHANGED <<files, holder, plan, cli, kills, serviceHistory>>

\* healthy: the new version answers that it is ready.  That it does not is a fault (WorkerFails).
Healthy == server.version = Latest
Confirm ==
  /\ worker.stage = "health" /\ Healthy
  /\ result' = [success |-> TRUE, version |-> Latest]
  /\ worker' = [worker EXCEPT !.stage = "unlock", !.success = TRUE]
  /\ UNCHANGED <<definition, installation, holder, plan, server, updater, cli, faults, kills, serviceHistory>>

NotReady ==
  /\ worker.stage = "health" /\ ~Healthy /\ WorkerGoes(FailedStage)
  /\ UNCHANGED <<files, holder, plan, server, updater, cli, faults, kills, serviceHistory>>

Tell == result' = [success |-> FALSE, version |-> worker.plan.current]
Restore ==
  /\ \/ worker.stage = "put-back" /\ definition' = worker.plan.unit /\ MayStop /\ WorkerGoes("put-back-save")
        /\ UNCHANGED <<installation, result>>
     \/ worker.stage = "put-back-save" /\ installation' = worker.plan.current /\ WorkerGoes("tell")
        /\ UNCHANGED <<definition, result, server, updater>>
     \/ worker.stage = "tell" /\ Tell /\ WorkerGoes("restart-back")
        /\ UNCHANGED <<definition, installation, server, updater>>
  /\ UNCHANGED <<holder, plan, cli, faults, kills, serviceHistory>>

RestartOld ==
  /\ worker.stage = "restart-back" /\ WorkerGoes("unlock")
  /\ \/ Started(definition) /\ UNCHANGED <<faults, unrecovered>>
     \/ Fault /\ MayStop /\ unrecovered' = TRUE
  /\ UNCHANGED <<files, holder, plan, cli, kills, overlapped, stale, downgraded>>

WorkerUnlocks ==
  /\ worker.stage = "unlock" /\ Unlock /\ worker' = NoWorker
  /\ UNCHANGED <<files, server, updater, cli, kills, serviceHistory>>

\* The computer shuts down, or somebody kills the worker.  The lock stays.
KillWorker ==
  /\ worker # NoWorker /\ kills < MaxKills /\ kills' = kills + 1
  /\ worker' = NoWorker /\ unrecovered' = (unrecovered \/ worker.stage \in Transaction)
  /\ UNCHANGED <<files, holder, plan, server, updater, cli, faults, overlapped, stale, downgraded>>
------------------------------
(* The command line *)

CliGoes(c, stage) == cli' = [cli EXCEPT ![c].stage = stage]

\* manage() up to its second read: the version that is installed is not newer than its own.
BeginServiceCommand(c) ==
  /\ cli[c].stage = "none"
  /\ \E action \in {"install", "restart", "uninstall"}, version \in Versions :
       /\ installation <= version
       /\ cli' = [cli EXCEPT ![c] = [NoCli EXCEPT !.stage = "read", !.action = action, !.version = version,
                                                  !.installed = installation]]
  /\ UNCHANGED <<files, holder, plan, server, updater, worker, faults, kills, serviceHistory>>

ReadDefinition(c) ==
  /\ cli[c].stage = "read"
  /\ cli' = [cli EXCEPT ![c] = IF @.action = "uninstall" /\ definition = 0 /\ @.installed = 0 THEN NoCli
                               ELSE [@ EXCEPT !.stage = "lock", !.definition = definition]]
  /\ UNCHANGED <<files, holder, plan, server, updater, worker, faults, kills, serviceHistory>>

LockForCommand(c) ==
  /\ cli[c].stage = "lock"
  /\ IF holder = "free"
     THEN /\ holder' = c /\ CliGoes(c, "ready")
          /\ stale' = (stale \/ cli[c].installed # installation \/ cli[c].definition # definition)
          /\ overlapped' = (overlapped \/ Busy(worker, cli') > 1)
     ELSE cli' = [cli EXCEPT ![c] = NoCli] /\ UNCHANGED <<holder, stale, overlapped>>
  /\ UNCHANGED <<files, plan, server, updater, worker, faults, kills, unrecovered, downgraded>>

\* An installation beside a running server needs it to be the service's.  Its checks can fail.
Choose(c) ==
  LET known == cli[c].definition # 0 /\ cli[c].installed # 0 IN
  /\ cli[c].stage = "ready" /\ cli[c].action \in {"install", "restart"}
  /\ \/ /\ CliGoes(c, CASE cli[c].action = "restart" -> IF known THEN "restart" ELSE "unlock"
                        [] OTHER -> IF server.version = 0 \/ known THEN "write" ELSE "unlock")
        /\ UNCHANGED faults
     \/ Fault /\ CliGoes(c, "unlock")
  /\ UNCHANGED <<files, holder, plan, server, updater, worker, kills, serviceHistory>>

NoResult == [success |-> TRUE, version |-> 0]
Gone == definition = 0 /\ server.version = 0

\* uninstall: the service stops, then its folder is deleted, the lock in it too.
Uninstall(c) ==
  /\ cli[c].action = "uninstall"
  /\ \/ /\ cli[c].stage = "ready" /\ CliGoes(c, "save")
        /\ IF cli[c].definition # 0 THEN definition' = 0 /\ Stopped ELSE UNCHANGED <<definition, server, updater>>
        /\ UNCHANGED <<installation, result, holder, plan, unrecovered, stale>>
     \/ /\ cli[c].stage = "save" /\ CliGoes(c, "unlock")
        /\ installation' = 0 /\ result' = NoResult /\ Free
        /\ unrecovered' = (unrecovered /\ ~Gone) /\ stale' = (stale /\ ~Gone)
        /\ UNCHANGED <<definition, server, updater>>
  /\ UNCHANGED <<worker, faults, kills, overlapped, downgraded>>

\* manager.stop or manager.remove fails, before or after its effect.
RemovalFails == \/ MayStop /\ UNCHANGED definition
                \/ Stopped /\ definition' = 0

\* One of the three steps fails, the last with some of the folder deleted.
UninstallFails(c) ==
  /\ cli[c].action = "uninstall" /\ Fault /\ CliGoes(c, "unlock")
  /\ \/ /\ cli[c].stage = "ready" /\ cli[c].definition # 0 /\ RemovalFails
        /\ UNCHANGED <<installation, result, holder, plan>>
     \/ /\ cli[c].stage = "save" /\ installation' \in {installation, 0} /\ result' \in {result, NoResult}
        /\ Free \/ UNCHANGED <<holder, plan>>
        /\ UNCHANGED <<definition, server, updater>>
  /\ unrecovered' = (unrecovered \/ definition' = 0)
  /\ UNCHANGED <<worker, kills, overlapped, stale, downgraded>>

\* installService
Register(c) ==
  /\ cli[c].action = "install"
  /\ \/ cli[c].stage = "write" /\ definition' = cli[c].version /\ MayStop /\ CliGoes(c, "save")
        /\ UNCHANGED <<installation, downgraded>>
     \/ cli[c].stage = "save" /\ installation' = cli[c].version /\ CliGoes(c, "restart")
        /\ downgraded' = (downgraded \/ installation > cli[c].version) /\ UNCHANGED <<definition, server, updater>>
  /\ UNCHANGED <<result, holder, plan, worker, faults, kills, overlapped, unrecovered, stale>>

AfterFailure(c) == IF cli[c].action = "install" THEN "put-back" ELSE "unlock"

RestartService(c) ==
  /\ cli[c].stage = "restart"
  /\ \/ Started(definition) /\ CliGoes(c, "wait") /\ UNCHANGED faults
     \/ Fault /\ MayStop /\ CliGoes(c, AfterFailure(c))
  /\ UNCHANGED <<files, holder, plan, worker, kills, serviceHistory>>

\* waitServiceReady: the version that was started answers, or the time for that is over.
WaitReady(c) ==
  /\ cli[c].stage = "wait"
  /\ \/ /\ server.version = (IF cli[c].action = "install" THEN cli[c].version ELSE cli[c].installed)
        /\ CliGoes(c, "unlock") /\ UNCHANGED faults
        /\ unrecovered' = (unrecovered /\ cli[c].action # "install") /\ stale' = (stale /\ cli[c].action # "install")
     \/ Fault /\ CliGoes(c, AfterFailure(c)) /\ UNCHANGED <<unrecovered, stale>>
  /\ UNCHANGED <<files, holder, plan, server, updater, worker, kills, overlapped, downgraded>>

RegisterFails(c) ==
  /\ cli[c].action = "install" /\ cli[c].stage \in {"write", "save"} /\ Fault /\ CliGoes(c, "put-back")
  /\ IF cli[c].stage = "write" THEN MayStop ELSE UNCHANGED <<server, updater>>
  /\ UNCHANGED <<files, holder, plan, worker, kills, serviceHistory>>

\* The definition and the installation of before, or none.
PutBack(c) ==
  /\ \/ /\ cli[c].stage = "put-back" /\ cli[c].definition # 0
        /\ definition' = cli[c].definition /\ MayStop /\ CliGoes(c, "put-back-save") /\ UNCHANGED installation
     \/ /\ cli[c].stage = "put-back" /\ cli[c].definition = 0
        /\ definition' = 0 /\ installation' = 0 /\ Stopped /\ CliGoes(c, "unlock")
     \/ /\ cli[c].stage = "put-back-save"
        /\ installation' = cli[c].installed /\ CliGoes(c, "restart-back") /\ UNCHANGED <<definition, server, updater>>
  /\ UNCHANGED <<result, holder, plan, worker, faults, kills, serviceHistory>>

PutBackFails(c) ==
  /\ cli[c].stage \in {"put-back", "put-back-save"} /\ Fault /\ CliGoes(c, "unlock") /\ unrecovered' = TRUE
  /\ CASE cli[c].stage = "put-back-save" -> UNCHANGED <<definition, server, updater>>
       [] cli[c].definition # 0 -> MayStop /\ UNCHANGED definition
       [] OTHER -> RemovalFails
  /\ UNCHANGED <<installation, result, holder, plan, worker, kills, overlapped, stale, downgraded>>

RestartPrevious(c) ==
  /\ cli[c].stage = "restart-back" /\ CliGoes(c, "unlock")
  /\ \/ Started(definition) /\ UNCHANGED <<faults, unrecovered>>
     \/ Fault /\ MayStop /\ unrecovered' = TRUE
  /\ UNCHANGED <<files, holder, plan, worker, kills, overlapped, stale, downgraded>>

\* withServiceLock
CommandUnlocks(c) ==
  /\ cli[c].stage = "unlock" /\ Unlock /\ cli' = [cli EXCEPT ![c] = NoCli]
  /\ UNCHANGED <<files, server, updater, worker, kills, serviceHistory>>

\* The terminal is closed.  The lock stays.
KillCommand(c) ==
  /\ cli[c].stage # "none" /\ kills < MaxKills /\ kills' = kills + 1
  /\ cli' = [cli EXCEPT ![c] = NoCli] /\ unrecovered' = (unrecovered \/ cli[c].stage \in UnderLock)
  /\ UNCHANGED <<files, holder, plan, server, updater, worker, faults, overlapped, stale, downgraded>>

\* The user deletes the lock of an operation that is not active any more.
RemoveLock ==
  /\ holder # "free" /\ updater.stage = "none" /\ worker = NoWorker /\ Busy(worker, cli) = 0 /\ Free
  /\ UNCHANGED <<files, server, updater, worker, cli, faults, kills, serviceHistory>>

ServiceNext ==
  \/ Crash \/ RemoveLock
  \/ CheckForUpdate \/ Download \/ Staged \/ BeginInstall \/ LockForUpdate \/ WritePlan \/ LaunchWorker
  \/ WorkerGone \/ GiveUpWatching
  \/ ReadPlan \/ WorkerFails \/ Activate \/ RestartNew \/ Confirm \/ NotReady \/ Restore \/ RestartOld
  \/ WorkerUnlocks \/ KillWorker
  \/ \E c \in Clis :
       \/ BeginServiceCommand(c) \/ ReadDefinition(c) \/ LockForCommand(c) \/ Choose(c) \/ Uninstall(c)
       \/ UninstallFails(c) \/ Register(c)
       \/ RestartService(c) \/ WaitReady(c) \/ RegisterFails(c) \/ PutBack(c) \/ PutBackFails(c)
       \/ RestartPrevious(c) \/ CommandUnlocks(c) \/ KillCommand(c)

ServiceSpec == ServiceInit /\ [][ServiceNext]_updateVars
------------------------------
\* No two operations ever ran at once, and whatever was cut short has been made good by an
\* installation or a removal.
Orderly == ~overlapped /\ ~unrecovered /\ ~stale

(* Whatever step of an update fails, once the worker gives up its lock the *)
(* definition, the installation and the result on disk name one version, the *)
(* new one after a success and the one before otherwise, and the server that *)
(* runs is of that version; a server that was put back knows why. *)
(* And when no operation is in progress, whatever was installed, updated or *)
(* removed in which order, definition and installation agree and what runs *)
(* is what they say.  An operation that was killed, or whose undoing or *)
(* removal failed, leaves them apart; one installation that succeeds, or one *)
(* removal, makes the service whole again, whatever state it finds. *)
ServiceIsWhole ==
  /\ worker.stage = "unlock" /\ Orderly =>
       /\ definition = installation
       /\ definition = IF worker.success THEN Latest ELSE worker.plan.current
       /\ result = [success |-> worker.success, version |-> definition]
       /\ server.version = definition /\ server.told = ~worker.success
  /\ Busy(worker, cli) = 0 /\ Orderly =>
       /\ definition = installation
       /\ server.version \in {0, definition}

(* "Installation and updates are serialized so they cannot run concurrently" *)
(* (docs/getting-started.md:241). *)
Serialized == ~overlapped

(* An earlier version is not reinstalled over a newer one *)
(* (docs/getting-started.md:308). *)
NoDowngrade == ~downgraded
==============================
