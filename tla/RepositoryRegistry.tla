------- MODULE RepositoryRegistry -------
(****************************************)
(* The repositories a backend knows and the one that is open: what the *)
(* setters of SettingsStore.ts do with the document, the commands of *)
(* RepositoryService.ts that inspect a folder with Git before they call *)
(* them, and what registerServerCommands.ts does when they are done: start *)
(* the watcher and tell the clients which repository is open. *)
(* *)
(* Between a command's inspection, its change and the end of its save other *)
(* commands run; saves end in their order (SettingsStore).  A worktree is *)
(* its repository and a number: that is what commonDir and path say. *)
(****************************************)
EXTENDS Integers, Sequences, FiniteSets

CONSTANTS
  RepositoryKeys, \* repository keys: common directories
  Folders,      \* numbers of their worktrees
  Projects,
  Callers,      \* clients; each runs a command at a time
  NoWorktree,
  MaxCommands   \* bound: commands that wait for something

ASSUME RegistryAssumption ==
  MaxCommands \in Nat /\ NoWorktree \notin RepositoryKeys \cup Projects \cup Callers \cup (RepositoryKeys \X Folders)

RepositoryWorktrees == RepositoryKeys \X Folders
Key(w) == w[1]

VARIABLES
  recent,       \* recentRepositories: a set of worktrees
  activeId,     \* activeRepositoryId, or NoWorktree
  projects,     \* repositoryProjects: their repository keys
  accounts,     \* githubAccounts: keys with an account of their own
  openFiles,    \* openFilesStates: worktrees with saved tabs
  missing,      \* folders that don't exist
  watched,      \* the watcher's active repository, or NoWorktree
  shown,        \* the repository each client shows, or NoWorktree
  commandOf,    \* the command of each client
  saves,        \* the clients whose command waits for its save
  commands,     \* counter
  failed,       \* history: a save has failed
  reverted,     \* history: a client that connected has reopened a repository
  late          \* history: worktrees a client has sent tabs of after they were forgotten

registryVars == <<recent, activeId, projects, accounts, openFiles, missing, watched, shown, commandOf, saves,
                  commands, failed, reverted, late>>

Stored == <<recent, activeId, projects, accounts, openFiles>>

NoCommand == [name |-> "none", stage |-> "none", worktree |-> NoWorktree, from |-> NoWorktree]

RegistryTypeOK ==
  /\ recent \subseteq RepositoryWorktrees /\ activeId \in RepositoryWorktrees \cup {NoWorktree}
  /\ projects \in [Projects -> SUBSET RepositoryKeys] /\ accounts \subseteq RepositoryKeys
  /\ openFiles \subseteq RepositoryWorktrees /\ missing \subseteq RepositoryWorktrees
  /\ watched \in RepositoryWorktrees \cup {NoWorktree} /\ shown \in [Callers -> RepositoryWorktrees \cup {NoWorktree}]
  /\ \A c \in Callers :
       /\ commandOf[c].name \in {"none", "open", "bootstrap", "relocate", "forget"}
       /\ commandOf[c].stage \in {"none", "inspect", "save"}
       /\ {commandOf[c].worktree, commandOf[c].from} \subseteq RepositoryWorktrees \cup {NoWorktree}
  /\ \A i \in DOMAIN saves : saves[i] \in Callers
  /\ commands \in 0..MaxCommands /\ failed \in BOOLEAN /\ reverted \in BOOLEAN /\ late \subseteq RepositoryWorktrees

RegistryInit ==
  /\ recent = {} /\ activeId = NoWorktree /\ projects = [p \in Projects |-> {}] /\ accounts = {} /\ openFiles = {}
  /\ missing = {} /\ watched = NoWorktree /\ shown = [c \in Callers |-> NoWorktree]
  /\ commandOf = [c \in Callers |-> NoCommand] /\ saves = <<>> /\ commands = 0
  /\ failed = FALSE /\ reverted = FALSE /\ late = {}

Known(key) == \E w \in recent : Key(w) = key
------------------------------
(* Commands begin; those that open a folder inspect it first. *)

BeginCommand(c, name, w, from) ==
  /\ commandOf[c] = NoCommand /\ commands < MaxCommands /\ commands' = commands + 1
  /\ commandOf' = [commandOf EXCEPT ![c] = [name |-> name, stage |-> "inspect", worktree |-> w, from |-> from]]
  /\ UNCHANGED <<Stored, missing, watched, shown, saves, failed, reverted, late>>

\* openRuntimeRepositoryPath; also openRecent, selectWorktree and completeSetup.
OpenPath(c) == \E w \in RepositoryWorktrees : BeginCommand(c, "open", w, NoWorktree)

\* bootstrap and restore: the repository that is open now is opened again.
Bootstrap(c) == activeId # NoWorktree /\ BeginCommand(c, "bootstrap", activeId, NoWorktree)

\* relocateRecent
Relocate(c) == \E w \in recent, to \in RepositoryWorktrees : BeginCommand(c, "relocate", to, w)

CommandEnded(c) == commandOf' = [commandOf EXCEPT ![c] = NoCommand]
Saving(c) == /\ commandOf' = [commandOf EXCEPT ![c].stage = "save"]
             /\ saves' = Append(saves, c)

\* inspectPath fails; bootstrap answers that no repository is open.
InspectionFails(c) ==
  /\ commandOf[c].stage = "inspect" /\ commandOf[c].worktree \in missing
  /\ CommandEnded(c)
  /\ shown' = IF commandOf[c].name = "bootstrap" THEN [shown EXCEPT ![c] = NoWorktree] ELSE shown
  /\ UNCHANGED <<Stored, missing, watched, saves, commands, failed, reverted, late>>

\* touchRepository
Touch(c) ==
  /\ commandOf[c].stage = "inspect" /\ commandOf[c].name \in {"open", "bootstrap"} /\ commandOf[c].worktree \notin missing
  /\ recent' = recent \cup {commandOf[c].worktree} /\ activeId' = commandOf[c].worktree
  /\ Saving(c)
  /\ reverted' = (reverted \/ (commandOf[c].name = "bootstrap" /\ activeId # commandOf[c].worktree))
  /\ UNCHANGED <<projects, accounts, openFiles, missing, watched, shown, commands, failed, late>>

\* A project's keys when a worktree of one repository turns up in another.
RelocatedKeys(keys, from, to) ==
  IF from \notin keys THEN keys
  ELSE IF to # from /\ \E p \in Projects : to \in projects[p] THEN keys \ {from}
  ELSE (keys \ {from}) \cup {to}

\* relocateRepository, after its checks.
Rebind(c) ==
  LET to == commandOf[c].worktree  from == commandOf[c].from IN
  /\ commandOf[c].stage = "inspect" /\ commandOf[c].name = "relocate" /\ to \notin missing
  /\ from \in recent /\ (to = from \/ to \notin recent)
  /\ recent' = (recent \ {from}) \cup {to} /\ activeId' = to
  /\ projects' = [p \in Projects |-> RelocatedKeys(projects[p], Key(from), Key(to))]
  /\ accounts' = IF Key(from) \in accounts THEN (accounts \ {Key(from)}) \cup {Key(to)} ELSE accounts
  /\ openFiles' = IF from \in openFiles THEN (openFiles \ {from}) \cup {to} ELSE openFiles
  /\ late' = IF from \in late THEN late \cup {to} ELSE late
  /\ Saving(c)
  /\ UNCHANGED <<missing, watched, shown, commands, failed, reverted>>

RelocationRefused(c) ==
  LET to == commandOf[c].worktree  from == commandOf[c].from IN
  /\ commandOf[c].stage = "inspect" /\ commandOf[c].name = "relocate" /\ to \notin missing
  /\ (from \notin recent \/ (to # from /\ to \in recent))
  /\ CommandEnded(c) /\ UNCHANGED <<Stored, missing, watched, shown, saves, commands, failed, reverted, late>>

ForgetActive(gone) == IF activeId \in gone THEN NoWorktree ELSE activeId

\* forgetRepository: no inspection. from is the repository that was open.
Forget(c) ==
  /\ commandOf[c] = NoCommand /\ commands < MaxCommands /\ commands' = commands + 1
  /\ \E key \in RepositoryKeys :
       LET gone == {w \in recent : Key(w) = key} IN
       /\ gone # {}
       /\ recent' = recent \ gone /\ openFiles' = openFiles \ gone /\ accounts' = accounts \ {key}
       /\ projects' = [p \in Projects |-> projects[p] \ {key}]
       /\ activeId' = ForgetActive(gone)
  /\ commandOf' = [commandOf EXCEPT ![c] = [name |-> "forget", stage |-> "save", worktree |-> NoWorktree, from |-> activeId]]
  /\ saves' = Append(saves, c)
  /\ UNCHANGED <<missing, watched, shown, failed, reverted, late>>
------------------------------
(* A save has ended. *)

\* Bug: the watcher is stopped whatever repository is open by now.
WatchedAfterForgetAny(c) == IF commandOf[c].from # NoWorktree THEN NoWorktree ELSE watched
WatchedAfterForget(c) == IF commandOf[c].from # NoWorktree /\ activeId = NoWorktree THEN NoWorktree ELSE watched

\* bootstrap answers its client; the others are told which repository is open, and after a
\* forget the client that asked for it leaves the repository.
SaveEnded ==
  /\ saves # <<>>
  /\ LET c == Head(saves)  w == commandOf[c].worktree IN
     /\ CommandEnded(c)
     /\ CASE commandOf[c].name = "forget" ->
               /\ watched' = WatchedAfterForget(c)
               /\ shown' = IF activeId = NoWorktree THEN [shown EXCEPT ![c] = NoWorktree] ELSE shown
          [] commandOf[c].name = "bootstrap" -> watched' = w /\ shown' = [shown EXCEPT ![c] = w]
          [] OTHER -> watched' = w /\ shown' = [d \in Callers |-> w]
  /\ saves' = Tail(saves)
  /\ UNCHANGED <<Stored, missing, commands, failed, reverted, late>>

\* The change stays in memory; the command ends with the error.
RegistrySaveFails ==
  /\ saves # <<>> /\ ~failed /\ failed' = TRUE
  /\ CommandEnded(Head(saves)) /\ saves' = Tail(saves)
  /\ UNCHANGED <<Stored, missing, watched, shown, commands, reverted, late>>
------------------------------
(* Setters whose save nobody waits for here. *)

RegistryOthers == <<missing, watched, shown, commandOf, saves, commands, failed, reverted>>

\* assignRepositoryProject
AssignProject ==
  /\ \E key \in RepositoryKeys, target \in Projects \cup {NoWorktree} :
       /\ Known(key)
       /\ projects' = [p \in Projects |-> (projects[p] \ {key}) \cup (IF p = target THEN {key} ELSE {})]
  /\ UNCHANGED <<recent, activeId, accounts, openFiles, late, RegistryOthers>>

\* removeRepositoryProject (and one of the same number is created)
RemoveProject ==
  /\ \E p \in Projects : projects' = [projects EXCEPT ![p] = {}]
  /\ UNCHANGED <<recent, activeId, accounts, openFiles, late, RegistryOthers>>

\* setGitHubAccount, for a repository a client shows.
SetAccount ==
  /\ \E w \in recent : accounts' = accounts \cup {Key(w)}
  /\ UNCHANGED <<recent, activeId, projects, openFiles, late, RegistryOthers>>

\* setOpenFilesState: a client sends the tabs of the repository it shows, also one that
\* another client has forgotten.
SetOpenFiles ==
  /\ \E c \in Callers :
       /\ shown[c] # NoWorktree /\ openFiles' = openFiles \cup {shown[c]}
       /\ late' = IF shown[c] \notin recent THEN late \cup {shown[c]} ELSE late
  /\ UNCHANGED <<recent, activeId, projects, accounts, RegistryOthers>>

\* forgetWorktreePath: its folder has been removed.
ForgetWorktree ==
  /\ \E w \in recent \ {activeId} :
       /\ recent' = recent \ {w} /\ openFiles' = openFiles \ {w} /\ missing' = missing \cup {w}
  /\ UNCHANGED <<activeId, projects, accounts, watched, shown, commandOf, saves, commands, failed, reverted, late>>

\* Outside the program a folder disappears or comes back.
FolderMoves ==
  /\ \E w \in RepositoryWorktrees : missing' = IF w \in missing THEN missing \ {w} ELSE missing \cup {w}
  /\ UNCHANGED <<Stored, watched, shown, commandOf, saves, commands, failed, reverted, late>>

RegistryNext ==
  \/ \E c \in Callers : \/ OpenPath(c) \/ Bootstrap(c) \/ Relocate(c) \/ Forget(c)
                        \/ InspectionFails(c) \/ Touch(c) \/ Rebind(c) \/ RelocationRefused(c)
  \/ SaveEnded \/ RegistrySaveFails
  \/ AssignProject \/ RemoveProject \/ SetAccount \/ SetOpenFiles \/ ForgetWorktree \/ FolderMoves

RegistrySpec == RegistryInit /\ [][RegistryNext]_registryVars
------------------------------
(* Properties. *)

\* Commands of several clients overlap; when the last of them has ended, the watcher watches
\* the repository that is open, and the clients that show a repository show that one, unless
\* a save has failed or a client that connected has reopened the one before a switch.
WatchesTheOpenOne ==
  (\A c \in Callers : commandOf[c].stage # "save") /\ ~failed =>
    /\ watched = activeId
    /\ activeId # NoWorktree /\ ~reverted => \A c \in Callers : shown[c] \in {activeId, NoWorktree}

\* The open repository is a known one, a repository is in one project at most, also after
\* it was relocated, and no tabs are kept of a worktree that was forgotten, whatever
\* commands were in progress, but for those a client sends later.
RegistryIsConsistent ==
  /\ activeId \in recent \cup {NoWorktree}
  /\ \A p, q \in Projects : p # q => projects[p] \cap projects[q] = {}
  /\ openFiles \subseteq recent \cup late

\* docs/features.md: "Repository switches ... propagate to every connected tab": clients
\* that show a repository show the open one when no command is in progress.
SwitchesPropagate ==
  (\A c \in Callers : commandOf[c] = NoCommand) /\ ~failed /\ activeId # NoWorktree
    => \A c \in Callers : shown[c] \in {activeId, NoWorktree}

\* Whatever commands overlap, the registry, the watcher and the clients agree in the end.
RegistryHolds == WatchesTheOpenOne /\ RegistryIsConsistent
==============================
