------- MODULE RepositoryWatcher -------
(****************************************)
(* src/main/files/RepositoryWatcher.ts: changes in the working tree and in *)
(* the Git directory of the open repository are gathered for a while and *)
(* reported to every client as one scope of what to read again.  While a *)
(* Git process runs the report waits, a limited number of times. *)
(* *)
(* Every command that opens a repository starts the watcher anew, and so *)
(* does bootstrap, which each client sends when it connects *)
(* (registerServerCommands.ts). *)
(****************************************)
EXTENDS Integers, FiniteSets, ChangeScopes

CONSTANTS Repositories, None,
          MAX_DEFERRALS

ASSUME WatcherAssumption == None \notin Repositories \cup RepositoryChangeScope /\ MAX_DEFERRALS \in Nat

VARIABLES
  watching,      \* active: the repository that is watched, or None
  timer,         \* "off", "running", or "due": its callback waits for its turn
  deferrals,
  pendingScope,  \* or None
  gitActive,     \* hasActiveGitProcess
  unreported,    \* history: the kinds of change in it since the last report
  missed         \* history: a client connected and changes were forgotten

watcherVars == <<watching, timer, deferrals, pendingScope, gitActive, unreported, missed>>

WatcherTypeOK ==
  /\ watching \in Repositories \cup {None} /\ timer \in {"off", "running", "due"}
  /\ deferrals \in 0..MAX_DEFERRALS /\ pendingScope \in RepositoryChangeScope \cup {None}
  /\ gitActive \in BOOLEAN /\ unreported \subseteq RepositoryChangeScope /\ missed \in BOOLEAN

WatcherInit ==
  /\ watching = None /\ timer = "off" /\ deferrals = 0 /\ pendingScope = None
  /\ gitActive = FALSE /\ unreported = {} /\ missed = FALSE
------------------------------
\* stop
Cleared == timer' = "off" /\ deferrals' = 0 /\ pendingScope' = None /\ unreported' = {}

\* start: for a command that opens a repository; its clients read all of it anyway.
StartWatching(r) == Cleared /\ watching' = r /\ UNCHANGED <<gitActive, missed>>

\* bootstrap starts the watcher for the repository that is open already, and only the
\* client that connects reads it.
BootstrapStarts ==
  /\ watching # None /\ Cleared /\ missed' = (missed \/ unreported # {})
  /\ UNCHANGED <<watching, gitActive>>

\* A command forgets the repository, or a file watcher fails.
StopWatching == watching # None /\ Cleared /\ watching' = None /\ UNCHANGED <<gitActive, missed>>

\* A file watcher's callback, for what classifyRepositoryChange doesn't ignore, and schedule.
Change ==
  /\ watching # None
  /\ \E scope \in RepositoryChangeScope :
       /\ pendingScope' = IF pendingScope = None THEN scope ELSE Merged(pendingScope, scope)
       /\ unreported' = unreported \cup {scope}
  /\ timer' = "running"
  /\ UNCHANGED <<watching, deferrals, gitActive, missed>>

Elapse == timer = "running" /\ timer' = "due"
          /\ UNCHANGED <<watching, deferrals, pendingScope, gitActive, unreported, missed>>

\* fire
Defer ==
  /\ timer = "due" /\ gitActive /\ deferrals < MAX_DEFERRALS
  /\ deferrals' = deferrals + 1 /\ timer' = "running"
  /\ UNCHANGED <<watching, pendingScope, gitActive, unreported, missed>>

Reported == IF pendingScope = None THEN "unknown" ELSE pendingScope

Report ==
  /\ timer = "due" /\ ~(gitActive /\ deferrals < MAX_DEFERRALS)
  /\ timer' = "off" /\ deferrals' = 0 /\ pendingScope' = None
  /\ unreported' = unreported \ Refreshed(Reported)
  /\ UNCHANGED <<watching, gitActive, missed>>

GitStarts == ~gitActive /\ gitActive' = TRUE /\ UNCHANGED <<watching, timer, deferrals, pendingScope, unreported, missed>>
GitEnds == gitActive /\ gitActive' = FALSE /\ UNCHANGED <<watching, timer, deferrals, pendingScope, unreported, missed>>

WatcherNext ==
  \/ \E r \in Repositories : StartWatching(r)
  \/ BootstrapStarts \/ StopWatching \/ Change \/ Elapse \/ Defer \/ Report \/ GitStarts \/ GitEnds

\* Timers end and their callbacks run.
WatcherFairness == WF_watcherVars(Elapse) /\ WF_watcherVars(Defer \/ Report)
WatcherSpec == WatcherInit /\ [][WatcherNext]_watcherVars /\ WatcherFairness
------------------------------
(* Properties. *)

\* Unless changes keep coming (each starts the timer anew), every change is reported, even
\* though a Git process may never end (or the watcher stops): the scope that is reported
\* makes the clients read again all that has changed, however changes of several kinds and
\* the waiting for Git follow each other (RepositoryWatcher.ts:97).
ChangesAreReported == []<><<Change>>_watcherVars \/ (unreported # {} ~> unreported = {})

\* docs/features.md: "filesystem/Git events propagate to every connected tab", also if
\* another client connects meanwhile.
EventsPropagate == ~missed
==============================
