------- MODULE MCProgress -------
(****************************************)
(* What the program must get to in the end: answers to the requests of a *)
(* client (Transport), the report of changes in a repository *)
(* (RepositoryWatcher) and a server that runs again after a crash, or no *)
(* more after a stop (ServerProcess).  And the desktop around that server *)
(* (DesktopShell).  They share no state here: the shell knows of the server *)
(* its address and whether it was stopped.  One run checks them side by *)
(* side: `focus` is the one that moves, and in the others' initial states *)
(* nothing is due that their fairness asks for. *)
(****************************************)
EXTENDS Transport, RepositoryWatcher, ServerProcess, DesktopShell, TLC

CONSTANTS tab, push, port1, port2

VARIABLE focus

allVars == <<focus, transportVars, watcherVars, superviseVars, shellVars>>

\* The requests come from one browser tab.
OwnedByTab == [r \in Requests |-> tab]

\* The preferred port is in use, or not, and then the next one is tried.
ScanTwo == <<port1, port2>>

ProgressInit ==
  /\ focus \in {"transport", "watcher", "server", "shell"}
  /\ TransportInit /\ WatcherInit /\ ShellInit
  /\ ManagerInit /\ (focus = "server" \/ (saved = {} /\ ~desired.access))

ProgressNext ==
  /\ UNCHANGED focus
  /\ \/ focus = "transport" /\ TransportNext /\ UNCHANGED <<watcherVars, superviseVars, shellVars>>
     \/ focus = "watcher" /\ WatcherNext /\ UNCHANGED <<transportVars, superviseVars, shellVars>>
     \/ focus = "server" /\ ManagerNext /\ UNCHANGED <<transportVars, watcherVars, shellVars>>
     \/ focus = "shell" /\ ShellNext /\ UNCHANGED <<transportVars, watcherVars, superviseVars>>

ProgressSpec ==
  /\ ProgressInit /\ [][ProgressNext]_allVars
  /\ TransportFairness /\ WatcherFairness /\ ManagerFairness

\* websocket-transport.ts, websocket.ts, RepositoryWatcher.ts: the types of what the temporal
\* properties are about; ServerProcessManager.ts, OpenTigServer.ts: whatever fails or crashes,
\* one server runs and is watched, and it listens where the saved settings say.
ServerIsSound ==
  /\ TransportTypeOK /\ WatcherTypeOK /\ ManagerTypeOK
  /\ OneServerIsWatched /\ ServesWhatIsSaved

\* main.ts, DesktopUpdater.ts: text that is not saved outlives what happens to the server, and
\* nothing is installed that the user did not ask for or the page refused.
ShellHolds == ShellTypeOK /\ InstallsAsAsked /\ TextHasItsServer /\ WindowFollows
==============================
