# TLA+ models of OpenTig

OpenTig is a Git client. Its renderer runs in the desktop window or in a browser and talks over a
WebSocket to a server; the server runs as a utility process of the Electron application or as a
headless service, and works on repositories by running Git, the file system, the GitHub CLI and AI
programs. These modules model the parts of that system in which several things are under way at
once: who may write when, what a reader has seen, what outlives a lost socket, a crash, a failed
write or a change of mind.

Paths are those of the repository. `PROJECT.json` maps every definition to its source lines, lists
the runs, a plausible bug ("mutant") each property finds, the hazards and the findings.

## The system

| Part | State it keeps | Operations, and whom it talks to |
| --- | --- | --- |
| Renderer transport (`src/renderer/lib/websocket-transport.ts`) | pending requests, waiters, socket, timers | request, abort, timeout, reconnect; the server's WebSocket |
| Server transport (`packages/server/src/websocket.ts`), `CommandRegistry` | connections, in-flight requests, running handlers, update pause | upgrade, dispatch, answer, time out, revoke; handlers of the runtime |
| Sessions (`auth.ts`, `auth-store.ts`, `BrowserSessionFile`) | pairing credential, access switch, generation, sessions in memory and on file | pair, exchange, revoke, reset, switch; HTTP and WebSocket ask it |
| Utility server (`utility.ts`, `OpenTigServer.ts`, `network-settings.ts`) | listener, network settings and their file | boot, update and rebind, exit; messages to its supervisor |
| `ServerProcessManager` | child, attempt, address, failures, two timers, stop | start, adopt, restart, stop; forks utility processes |
| Desktop shell (`src/main.ts`), `DesktopUpdater` | window, trusted address, phases of an update and of the end | reconnect, install, quit; the page may refuse to be left |
| Command line and service (`packages/server/src/cli*.ts`, `service-*.ts`) | `runtime.json`, `startup.json`, definition, installation, update lock | serve, install, restart, update, restore; the system's service manager |
| `GitProcess`, `ReadSingleFlight` | promise chain per lock key, shared reads per scope | runWrite, runWriteTask, run, shareRead; Git children |
| `GitRepositoryOperations` | nothing of its own: the repository | stage, commit, pull, switch, worktrees, prepareCommitGroup; GitProcess |
| `FileService`, `FileOperationHistory` | undo and redo steps per repository, snapshot bytes | create, move, delete, paste, save, undo, redo; the working tree |
| `RepositoryService`, `RepositoryWatcher` | known worktrees, the open one; a timer and a scope | open, forget, relocate; change events; the renderer refreshes |
| `SettingsStore` and the log stores | one document in memory, a file and its backup | change, background save, flush |
| `CommitMessageService`, `PullRequestDraftService`, `CliResolver` | running generations, status cache and its file | generate, cancel, inspect; AI programs |
| GitHub accounts, data and actions | selections with revisions, shared and kept reads | choose an account, read, act through `gh` |
| `RepositoryClone`, worktree removal | clone jobs, folders being removed | start, follow, cancel, delete |
| Renderer application (`src/renderer/app/App.tsx` and features) | status, tabs and drafts, refresh cycles, commit plan | everything the user does |
| HTTP handler, static files, shared contracts, website, scripts | none that outlives a request | |

What is hard in it: write tasks made of several Git commands interleave with each other and with
other programs; reads are shared while writes invalidate them; requests outlive sockets, answers
outlive requests and handlers outlive both; sessions end while their work is on the way; files are
written while the process is replaced; a child crashes while it is being adopted; work on many
files fails half way and so may its rollback; a plan, an account or a pull request is checked at
another moment than it was seen; a user types while something else is saved, refreshed or closed;
processes that know nothing of each other share files. `PROJECT.json` lists each of these under
`hazards` with its line and the properties that would catch it.

### What makes each part correct

- Git writes: one task per lock key at a time, in order, all get their turn; reads never return
  content older than a write that had ended, and do end.
- Transport: what the caller is told about a mutation is true; every request settles; the client
  reconnects; nothing runs for a revoked session; an update waits for handlers.
- Sessions: the access switch follows the last request; a token pairs one browser; revoked stays
  revoked and paired stays paired over failed writes and restarts.
- Server process: one utility server, watched while adopted; a crash is answered; a stop leaves
  nothing; the listener is the one on file.
- Desktop shell: unsaved text has its server; the window follows the server's address; only what
  was asked for and not refused is installed.
- Service and command line: whatever fails or is killed, definition, installation and what runs
  agree; a command that reports success has verified the process it asked for.
- File history and transfers: stacks in order and true about the files; bytes counted; no file is
  lost by a failure; an undo gives back what was there.
- Local changes: in the working tree or in a stash through every pull, switch and failure.
- Worktree removal: a partly removed worktree can be removed again; the report is true.
- Registry and settings: what was confirmed is on disk; one open worktree, watched and known.
- Commit plans: a prepared group is alone in the index with the content the plan is for.
- AI: a result belongs to the question and its content; a cancelled generation delivers nothing;
  the shown status is of the configured programs.
- GitHub: actions are made with the account and on the commits the user saw; what is kept is no
  older than the program's own changes; reports are true.
- Clones: nothing of others is removed; a job is followed to its end.
- Open files: typed text is held; a save is compared with what its author began from.
- Refreshes: once nothing is under way a tab shows all that changed.

## Modules

| Module | Models |
| --- | --- |
| `WriteLock` | `GitProcess.withWriteLock`: the promise chain per lock key |
| `WriteQueue` | abstract: tasks of a key run one at a time in the order they asked |
| `ReadSingleFlight` | the shared reads of `ReadSingleFlight.ts` |
| `GitProcess` | composes the two with commands, invalidation and content |
| `ClientTransport`, `ServerTransport`, `Transport` | the renderer's end of the sockets, the server's end with `CommandRegistry`, both joined |
| `RemoteCall` | abstract: what the caller of a mutation may believe; `Transport` implements it |
| `AuthStore`, `SessionAuth` | the session file and its queue; pairing and the access switch |
| `UtilityServer`, `ServerProcess` | the child process with its listener and settings; its supervisor |
| `DesktopShell` | window, reconnect, quitting of `main.ts`; `DesktopUpdater` |
| `ServiceUpdate` | the service's updater, its worker, the install, restart and uninstall commands |
| `CliStartup` | starts of servers for one home, their two records, and the command that waits |
| `FileHistory` | `FileOperationHistory` and the commands that record in it |
| `FileTransfers` | move, cut, copy, paste and delete on disk, with rollback, undo and redo |
| `Autostash` | the safety stash of pull, branch switch and discard |
| `WorktreeRemoval` | `removeWorktree`, `worktreeDeletion.ts`, the tracker |
| `RepositoryRegistry` | the registry's commands and what the settings keep per repository |
| `ChangeScopes`, `RepositoryWatcher`, `Refreshes` | kinds of change; the server's watcher; a tab's refresh cycles |
| `SettingsStore` | document, write queue, file, backup, background channels, flush |
| `CommitPlan` | generation, preparation and commit of a plan, the window, other programs |
| `AiGenerations`, `AiStatuses` | generations of messages and drafts; what is known of the programs |
| `GitHubAccounts`, `GitHubReads`, `PullRequestActions` | accounts and revisions; shared and kept reads; actions on a pull request |
| `CloneJobs` | clone jobs, their accounts, and the tabs that follow them |
| `TabSession`, `OpenFiles` | the tab model as functions; tabs, drafts, editor and saves of a window |
| `..._proofs` | theorems about the module of that name; `Reads_proofs` about what `MCReads` composes: `GitProcess`, `CliStartup` and `Refreshes`; `Progress_proofs` about `ServerProcess` with `UtilityServer`, `DesktopShell` and `RepositoryWatcher`; `WorkingCopy_proofs` about `WorktreeRemoval`, `RepositoryRegistry`, `Autostash`, `CommitPlan` and `FileTransfers`; `Services_proofs` about `GitHubAccounts`, `AiGenerations`, `PullRequestActions`, `CloneJobs`, `SettingsStore` and `ServiceUpdate`; `Kept_proofs` about `GitHubReads`, `AiStatuses` and what `MCServices` composes; `Client_proofs` about `SessionAuth` (with `AuthStore`) and `OpenFiles`; `History_proofs` about `FileHistory` and what `MCWorkingCopy` composes |
| `MC...` | constants, symmetry, bounds and compositions for TLC |

A definition that starts with the comment "Bug:" is a plausible mistake in the definition after it
and is part of no specification; replacing the one by the other must violate a property.

### Compositions

Components that meet in the code are composed in their own module, on shared variables: `GitProcess`
extends `WriteLock` and `ReadSingleFlight`; `Transport` joins the two ends over `conn`;
`SessionAuth` works on `AuthStore`'s queue; `ServerProcess` drives slots of `UtilityServer`;
`OpenFiles` changes sessions by the functions of `TabSession`; `GitHubReads` uses
`ReadSingleFlight`; `RepositoryWatcher` and `Refreshes` merge scopes by `ChangeScopes`. An action
models the whole handler and names all it changes.

Components that share no state in the program are checked in one run side by side, to keep the
runs few: `MCProgress`, `MCServices`, `MCWorkingCopy` and `MCReads` have a variable `focus`, chosen
initially, that says which component moves; the others keep one initial state. The states of such a
run are the disjoint union of the components', and an invariant of one is decided where it moves.

### How the models correspond to the code

**Git.** A task goes from `idle` through `queued` to `inside`; `running` is a child of it.
`Enqueue`, `Enter` and `Release` are the parts of `withWriteLock` before, after and behind its
awaits. A repository's content is a version that a running write or another program may advance; a
flight (a shared read) sees the version when its child looks (`Look`) and is stale for a caller
when it lands later. Invalidation removes a scope's map entry; the generation a flight belongs to
is kept as a flag. `reader.floor` is a history value: the version that had been committed in the
scope when the answering attempt began. Freshness is per scope, as in the code: a task on a
worktree invalidates that worktree and, unless the directory is unknown, its common directory.

**Transport.** A socket is a record with the two ends' views and the messages in flight; a message
sent can be received after the other end is gone. One request is one message each way. Close codes
are kept as 1008 (policy: stop) or other. An oversized result and an abort by the caller are
answers that promise nothing ("unknown"). Handlers are separate from requests: a timed-out or
disconnected request leaves its handler running. A socket's identity is used again once both ends
are done with it. The renewal of a session and expiry by age are left out.

**Sessions.** Changes of the session file queue; each computes the next sessions from memory,
writes them, then makes them current; a write that fails may have replaced the file. A restart
loads the file and starts with whatever access flag the settings hold.

**Server process.** A slot of `proc` is one utility process with its configuration, its listening
address and the messages it posted, which arrive in order, or are lost in part when it crashes.
Host and port are one address, and browser access is one flag. `attempt` is where the promise of
`spawnAndAdopt` is; a fork that throws is an attempt that fails at once. A process told to stop may
finish an update that is under way; one that is killed makes no other step than to go. A failing
write of the settings may have replaced the file already. `restart(host)` and
`setBrowserAccessEnabled` exist in the manager but the application never calls them, and control
requests have no influence on the process's life: neither is modelled.

**Desktop shell.** The page is its address and whether it has unsaved text; `closing` is the time in
which it is asked. Each call of `reconnect` is at one of two places, before it asks the page and
before it loads; the two awaited cookie calls lie between. Quitting is `started` while the tasks of
`before-quit` run and `ready` for the second quit. `fromMenu`, `raced` and `wanted` are history.

**Service and command line.** `ServiceUpdate`: definition and installation are the version they
name; the lock is a directory whoever ends an operation deletes; the worker and a command are their
stage, and either, and the server, may be killed between two steps. Stopping, removing, deleting the
service's folder, undoing and deleting the lock can each fail, half-way too; a dead operation's lock
is removed by the user. A server that crashed comes back from the definition on disk or the one the
system has still loaded, and writing a definition may stop the server first, as on Windows.
`unrecovered` and `stale` are history, reset by an installation or a removal that succeeds. `CliStartup`: reading a record
and writing it are separate steps, as in `save` and `clearRuntimeState`; a process is its pid and
instance; probing it tells whether it has bound its port and is not closed. The service manager is
external: it stops, starts, and starts again after a failure.

**File history and transfers.** In `FileHistory` the queue of a repository is one task, a step is
plain, an image (with bytes) or a marker, and what its work left behind is `done`, `undone` or
`mixed`. `FileTransfers` has that work itself: a command checks, then works item by item, and rolls
back what it did when an item fails; other repositories' commands and other programs act between
its steps. What lies at a place is a set of tokens, so a folder can be there in part; `trash` is the
system's. `apart` says that the repositories are on different devices.

**Autostash.** Git by its effects, each command of a pull or a switch a step of its own. A switch is one
write task on the common directory, so one runs at a time. A pull is no write task (each of its
commands locks its worktree for itself), so pulls of one worktree or of several mix with each other
and with a switch. Changes are numbers; stash entries have identities and positions, as the drop by
position needs. What mixes badly is history: `met` (two operations ran at once), `mistaken` (one took
the newest entry for its own although another had pushed it), `slipped` (a drop hit another entry than
the one whose position was looked up), and per operation `crowded` (another one ran in its worktree).
`ChangesAreSafe` holds for all overlaps: a change is lost by a slip only, and an operation alone in its
worktree tells the truth; one operation at a time never mistakes or slips. `rebase --abort` also resets
tracked files that are edited while the rebase stands, which is left out.

**Worktree removal.** The folder is its entries and its `.git` file; entries may be held open, made,
or taken away with their drive. `platform` says who deletes: Node, entry by entry, or Git.

**Registry and settings.** `SettingsStore` keeps a function from parts of the document to values, a
queue of snapshots to write, the file and its backup, each of which can be ruined; setters that roll
back do it by restoring the part. `RepositoryRegistry` has the commands that inspect, change and
save, interleaved, with what the clients show.

**Watcher and refreshes.** A tab's read joins the read under way; a round reads its resources, is
applied if its repository is shown, and is followed by the merged round that was asked for
meanwhile. Versions count changes per kind.

**Commit plans.** A file's content is a version in the head commit, the index and the working tree.
The staged patch is the function from staged files to both contents; the code compares its hash.
Status and patch of a generation are read at two moments; fingerprints are taken file by file; a
preparation is its separate Git commands, between which other programs act. Renames, conflicts and
a truncated summary block a plan exactly as a partially staged file does and are left out, as are
the texts. `touched`, `disturbed`, `added`, `overtaken` and `refused` are history: nothing but
properties reads them. Hashing during the recheck of a preparation is one step.

**AI.** Content and instructions of a repository are versions; a generation reads them, asks, reads
them again and answers; `flavor` is one of the two services, which do not know each other. A status
is the pair of the paths used and of what was installed when the program looked.

**GitHub.** A moment is the state of GitHub and the account then. An action reads the live state,
checks it, asks GitHub with the head it read, and reads again; others change the pull request
between any two of these. Permissions only refuse more.

**Clones.** A destination is the set of what is in it. A tab's watch of its job survives a closed
dialog in memory and a reload in its storage.

**Open files.** The list of tabs is the strip's order of paths and a function from open paths to what
is known of each; closing several tabs is one function of the set, which has the result of closing
them one by one. A text is a number, every edit a new one. `last` is history: what was typed last and
from which base. The viewer shows one file; reads and saves arrive late. `raced` is history too: the
files of which `EditsAreSafe` says less, since a save or a close of them was under way while its
author typed, or a rename took their path while it was on screen, had a tab, or was being saved.

## Runs

| Run (module, cfg) | Question | Bounds |
| --- | --- | --- |
| `git_locks` (`MCReads`, `GitLocks`) | Do tasks of a key exclude each other, in the order they asked, and does everybody finish, readers too? Fair (`LocksSpec`). | 3 writers, 1 reader, 1 flight, a worktree and its common directory as keys, content fixed |
| `git_reads` (`MCReads`, `GitReads`) | Are shared reads fresh and answers as new as ended writes? Does a tab show all that changed, and only its own repository? Is a started server the one that was asked for? | 2 readers, 2 flights, 1 writer, 1 change; 2 repositories, 2 views, 2 changes, 1 fault, 3 moves of the user; 3 processes, 2 ports, 1 mishap |
| `session_auth` (`SessionAuth`) | Do access, tokens, revocations and sign-ins survive queues, failed writes and restarts? | 2 browsers, 1 desktop, 2 tokens, queue of 1, 2 switches, 1 crash |
| `progress` (`MCProgress`, `Progress`) | Does every request settle, the client come back, a change get reported, a crash get answered, a stop leave nothing? Fair. Is there one server that listens where the file says, and does the desktop around it keep text, address and installation right? | 1 mutation, 2 sockets, 1 restart, offline after 2; 2 repositories, 10 deferrals as in the code; 2 process slots, 2 addresses, 2 restarts, 1 crash, 1 listener change; 3 addresses, 2 moves, 1 fault |
| `working_copy` (`MCWorkingCopy`, `WorkingCopy`) | Do history, transfers, plans, stashes, removals and the registry keep what they must not lose? | 2 repositories, worktrees, files; 3 operations, 2 steps and 2 bytes kept; 3 transfers, 1 error, 1 stranger; 1 outside change of a plan; 2 requests in 2 worktrees, 2 edits, 2 pulls or switches; 3 events of a removal; 3 registry commands |
| `services` (`MCServices`, `Services`) | Does each service of the backend keep its promises to clients, disk and outside? | a mutation and a query, 2 sockets, 1 restart; 3 settings changes, 2 background channels, 2 failed writes; 2 logins, 1 repository; 3 moments of GitHub, 2 calls; 1 action against 2 changes of others; 2 configurations of paths, 3 checks, 1 restart; 2 generations, 1 edit; 2 clone jobs, 1 reload; 2 mishaps of the service, 1 of them a kill |
| `open_files` (`MCOpenFiles`, `OpenFiles`) | Is typed text held and compared with what its author began from? | 3 files, 1 tab and the preview, 1 outside change, 1 text, 1 save |
| `file_history_overtaken` (`FileHistory`) | Does undoing a step leave the others alone? **Violated** | as in `working_copy` |
| `server_process_restart` (`MCProgress`) | Does a restarted utility listen where the supervisor expects? **Violated** | as in `progress` |
| `commit_plan_stale` (`CommitPlan`) | Is what a preparation stages what the model was shown? **Violated** | as in `working_copy` |
| `typing_while_saving` (`MCOpenFiles`) | Is what is typed during a save held? **Violated** | 2 files, 2 texts, 1 save |
| `undo_restores_cut` (`MCWorkingCopy`) | Does the undo of a paste bring back what was cut elsewhere? **Violated** | as in `working_copy` |

What each passing run's properties say:

- `git_locks`: `WriteExclusion`; `ChainIsQueue`, the refinement of `WriteQueue`; `EveryWriteRuns`,
  `EveryReadReturns`.
- `git_reads`: `OneFlightPerKey`, `SharedReadsFresh`, `ReadYourWrites`; `RefreshesHold` (nothing is
  missed once all is quiet, what is shown belongs to the repository shown); `StartupsHold` (a
  command that succeeded has the manager's process, started by its restart or later, of the
  definition's version, and through its start).
- `session_auth`: `AccessFollowsLastSwitch`; `PairingsHold` (one cookie per token, revoked stays
  revoked, paired stays paired); `NoCookieAcrossSwitchOff`.
- `progress`: `RequestsRecover`, `ChangesAreReported`, `CrashIsAnswered`, `StopLeavesNothing`;
  `ServerIsSound` (one utility, watched, none after a stop; a serving server serves the file);
  `ShellHolds` (an installation the page refused is not made up for later; who closes the window
  keeps the server while text is unsaved; a window at an old address is being reconnected).
- `working_copy`: `HistoryIsSound`, `TransfersHold` (no file is lost by failures, and undo and redo
  restore the disk), `PlanHolds`, `ChangesAreSafe` (changes are committed, in a worktree or in the
  stash list, however operations overlap, but for a drop that slips; reports true), `RemovalIsSafe`, `RegistryHolds`.
- `services`: `NothingIsCut`, `AnswersAreTrue` (the refinement of `RemoteCall`),
  `NothingForRevoked`, `ConfirmedIsStored`, `AccountsHold`, `KeptIsCurrent` (GitHub reads and
  statuses of AI programs), `ActionsHold` (no action on commits its user has not seen; reports
  true), `GenerationsHold`, `ClonesAreSafe`, `ServiceIsWhole` (definition, installation, result and
  server agree after an update, whatever failed in it, and at rest, unless something was cut short or
  overlapped and nothing has succeeded since).
- `open_files`: `EditsAreSafe` (text is held; a save compares with the base of the edit).

`TypeOK` of the composed runs is the conjunction of the components' type invariants; in `progress`
it is part of `ServerIsSound` and `ShellHolds`, in `git_reads` of `RefreshesHold` and `StartupsHold`.

### Why the bounds are enough to meet the cases

Three writers are the fewest in which the map entry of a lock is replaced behind a waiting task
while another releases. Two readers and two flights give sharing and a retry that meets a newer
flight. Two sockets give an old and a new connection, with messages of the old one on the way; a
mutation and a query differ in what a lost socket means to them. Two browsers with two tokens race
for one token and across two pairings; two switches are an older and a newer one. Two process slots
are the process that has failed and its successor; two addresses are the port scan, a change and a
return; three addresses in the shell are two reconnects that overtake each other. Three operations
over two repositories with two steps' space give eviction of the other repository's step in every
phase of an undo. Three transfers are a command, its undo and its redo, or a command of the other
repository between the two. Two requests in two worktrees are two pulls, or a pull and a switch, of one worktree or on the one
stash list of both; two edits are what is put aside and what is made meanwhile. Three processes for one home are the old server,
its successor and one from a terminal or by the manager. Two files are two groups of a plan; three
contents distinguish head, staged and edited. Two changes by others are one between the check and
the request of an action and one between the request and the read after it.

Some runs exclude states by a `CONSTRAINT`, all of them combinations of what each is met alone or
with one other: `Few` of `MCServices` (a session that ends or a server
that is replaced, four of settings changes and failed writes, at most one of mutation, edit and adoption beside another,
two saves queued, one mishap of the generations, two mishaps of the service, and no steps after two
operations on it overlapped, which ends what `ServiceIsWhole` speaks of), `FewAtOnce` of `MCWorkingCopy` (no two
transfers at once after another program came between), `Few` of `MCOpenFiles` (two files in use
while files are saved, listed or changed). `SYMMETRY` is used in runs without liveness only.

`CHECK_DEADLOCK FALSE` is set where the system may really stop: a client told to stop, an
application that quit, sessions, histories and commands at the bound of their operations.
`git_locks` checks for deadlock.

### Fairness

- `GitProcess`: continuations run; a Git child ends, by itself or by its timeout; a task issues
  finitely many commands (strong fairness of its end). The repository's changes are not fair;
  `LocksSpec` leaves them out.
- `Transport`: timers fire, close events arrive, handlers are not assumed to end, and a server that
  is tried again and again accepts in the end (strong fairness of the upgrade and the open event).
- `ServerProcess`: events are handled, an armed restart timer fires, a process told to end ends, and
  the startup timer closes an attempt. Nothing makes a process ready.
- `RepositoryWatcher`: its timer elapses and its callback runs. A Git process need not end: the
  deferrals are bounded. A stream of changes without an end restarts the timer each time, which
  `ChangesAreReported` excepts.

## Findings

Five runs show a disagreement between what the repository says and what the code does:

1. **A step of the file history disappears** (`file_history_overtaken`). `FileOperationHistory.apply`
   leaves a step on its stack while its file work runs and then pops whatever is on top
   (`FileOperationHistory.ts:144`). A recording in another repository may have evicted the step
   meanwhile; the pop then takes the step below it, which was never undone.
2. **A restart that can never succeed** (`server_process_restart`). `network-changed` is only taken in
   from the adopted child (`ServerProcessManager.ts:386`). A change saved before adoption, or lost
   in a crash, leaves the supervisor with the old address; every restarted utility serves the saved
   one and is refused (`ServerProcessManager.ts:608`) until the supervisor gives up.
3. **A stale commit plan passes its recheck** (`commit_plan_stale`). The fingerprint of a group is taken
   from the working tree after the model answered, the generation's recheck compares the staged
   patch only, and `git add -A` stages the working tree: content edited during the generation is
   prepared under a message written for other content.
4. **Text typed during a save is forgotten** (`typing_while_saving`). The end of a save drops the
   draft of its path and marks the tab clean, whatever the draft holds by then (`App.tsx:2867`).
5. **An undone paste does not go back** (`undo_restores_cut`). What was cut in another repository is
   recorded with paths that are cut by the target's root (`registerServerCommands.ts:256`).

The components `Refreshes`, `CliStartup` and `DesktopShell` define, beside the properties that hold,
ones that the code does not keep; TLC finds each violated when it is added to the cfg of the run
(`FailureIsItsOwn` with `MaxMishaps = 2`): `BusyIsDue`, `BranchesBelong`; `NewerAttemptStays`,
`FailureIsItsOwn`, `OneServerPerHome`, `RecordStays`; `EditsHaveTheServer`, `WindowArrives`,
`InstallsAfterClosing`. `PROJECT.json` tells each under `findings`.

Others that are defined in their modules, do not hold, and say how the code differs from a document:

| Property (module) | Document | What happens |
| --- | --- | --- |
| `DraftIsShown` (`OpenFiles`) | `docs/features.md:211` | an editor that is mounted again shows the file's text although a draft is kept |
| `StashKept` (`Autostash`) | `docs/features.md:168` | the stash is found and dropped by position in two commands (`GitRepositoryOperations.ts:1297-1307`); another operation's stash, of this worktree or another, comes between |
| `BackgroundIsSettled` (`SettingsStore`) | `SettingsStore.ts:432` | a full save forgets the dirty channels it takes along before its write succeeded |
| `EventsPropagate` (`RepositoryWatcher`), `SwitchesPropagate` (`RepositoryRegistry`) | `docs/features.md:84` | a client that connects starts the watcher anew and drops the gathered change; two switches end in another order than they are told |
| `ActsAsReviewed` (`GitHubAccounts`) | `GitHubAccess.ts:39` | the account changes between the last check and the request |
| `VerdictOnSeenCode` (`PullRequestActions`) | `docs/github.md:112`, `:186` | a review or an edit names no commit; others push between check and request (`PullRequestActionRunner.ts:83-92`) |
| `LiveStateDrops` (`GitHubReads`) | `GitHubService.ts:31` | a read under way when a live state shows a change is kept when it ends |
| `OnePerRepository` (`AiGenerations`) | `CommitMessageService.ts:74` | two that ask while the status is looked up are both admitted |
| `StatusesOfThePaths` (`AiStatuses`) | `docs/ai-assistance.md:49` | an inspection that ends between the change of the paths and its save fills the cache |
| `Serialized`, `NoDowngrade` (`ServiceUpdate`) | `docs/getting-started.md:241`, `:308` | an operation deletes the lock another one made; a command installs an older version over an update |

Seen while reading and modelling, without a property of their own: a group prepared while a new
plan is generated is marked as prepared on the new plan (`App.tsx:1730`). A cancellation in the
phase in which a generation looks up its program's status is lost (`CommitMessageService.ts:78`).
The rollback of a setting by value can undo another client's newer choice
(`SettingsStore.ts:179-185`). `FileService.write` compares the file and renames over it in two
steps. A rename onto a path whose tab is open drops that tab's text. A move between devices whose
removal of the source fails in part loses what the copy's rollback deletes (`FileService.ts:679`),
and a failed paste leaves a part of a folder (`:327`). The end of a cut paste forgets a newer cut
(`registerServerCommands.ts:255`). A clone whose start was answered to nobody cannot be followed or
cancelled, one cancelled after Git ended is said to have left partial data, and a job forgotten
after thirty minutes is said to have been interrupted. A bootstrap that fails after a reconnect is
silent (`server-client.ts:206`). Two reconnects of the desktop can load a dead address last
(`main.ts:293` does not look at the address again). `onNetworkChanged` of the command line can
write `runtime.json` again after its server's end (`cli.ts:154`).

## Proofs

Each theorem holds for any values of the constants that the modules' named assumptions allow. Most
of these say that a value that stands for "nothing" is outside the set it is added to (and, in
`StartupAssumption` and `WatcherAssumption`, is no other value of the same field), and that bounds are
natural numbers. The others: there is a first directory, where the files of a
repository are at first (`TransfersAssumption`); views and kinds of change are the code's (`RefreshAssumption`); clients of `Transport` exist and its requests are finite,
`MaxRestarts` is a number; the commands of `ServiceUpdate` are finite; there is a setting, and
"no document" is none of the documents (`SettingsAssumption`); scopes, keys and kinds of directories
are as `GitProcess` forms them (`WriteAssumption`, `ReadAssumption`, `GitAssumption`). Runs check
every assumption for their constants. The specification of a theorem is that of its component
without fairness, which is what moves in a composed run while `focus` names the component, or the
composed specification itself (`ProgressSpec`, `ReadsSpec`).

| Theorem (module) | States | Of |
| --- | --- | --- |
| `TypeCorrect` (`Reads_proofs`) | `Spec => []TypeOK` | Git writes and reads |
| `Exclusion` | `Spec => []WriteExclusion`: two tasks of a key are never inside together | |
| `Freshness` | `Spec => []SharedReadsFresh`: what can be joined has seen every ended write | |
| `ReadsSeeWrites` | `Spec => []ReadYourWrites`: no answer is older than the attempt's floor | |
| `SharedChildren` | `Spec => []OneFlightPerKey` | |
| `ChainRefinesQueue` | `Spec => ChainIsQueue`: the promise chain implements `WriteQueue` | |
| `StartupsReadyAsAsked` | `ReadsSpec => []StartupsHold` | startup of the command line |
| `TabsMissNothing` | `ReadsSpec => []RefreshesHold` | refresh cycles of a tab |
| `AuthTypeCorrect` (`Client_proofs`) | `AuthSpec => []AuthTypeOK` | sessions and pairing |
| `AccessCorrect` | `AuthSpec => []AccessFollowsLastSwitch` | |
| `PairingsCorrect` | `AuthSpec => []PairingsHold` | |
| `NoCookieAcross` | `AuthSpec => NoCookieAcrossSwitchOff` | |
| `EditsStaySafe` | `Spec => []EditsAreSafe` | tabs, drafts, saves |
| `NoHalfCalls` (`Transport_proofs`) | `TransportSpec => []NothingIsCut` | both ends of the sockets |
| `RevokedIsOver` | `TransportSpec => NothingForRevoked` | |
| `TruthTold` | `TransportSpec => AnswersAreTrue`: the transports implement `RemoteCall` | |
| `RemovalsAreSafe` (`WorkingCopy_proofs`) | `RemovalSpec => []RemovalIsSafe` | removal of a worktree |
| `RegistryAgrees` | `RegistrySpec => []RegistryHolds` | registry of repositories |
| `NoChangeIsLost` | `StashSpec => []ChangesAreSafe` | automatic stash |
| `PlansHold` | `PlanSpec => []PlanHolds` | commit plans |
| `TransfersAreKept` | `TransfersSpec => []TransfersHold` | move, copy, delete, undo and redo on disk |
| `HistoryStaysSound` (`History_proofs`) | `HistorySpec => []HistoryIsSound` | history of file operations |
| `OthersStayUnlessOvertaken` | `HistorySpec => [][...]_historyVars`: a step that ends takes no other out of the history unless one was evicted under it (`overtaken`), the only cause of finding 1 | |
| `WorkingCopyTypeCorrect` | `Spec => []TypeOK` of `MCWorkingCopy` | history, transfers, plans, stashes, removals, registry |
| `ServerStaysSound` (`Progress_proofs`) | `ProgressSpec => []ServerIsSound` | utility server and its supervisor |
| `ShellStaysSound` | `ProgressSpec => []ShellHolds` | desktop shell and updater |
| `ChangesStayGathered` | `WatcherSpec => []ChangesAreGathered`, stated there: a change that was not reported is part of what an armed timer will report | watcher |
| `AccountsAreAsChosen` (`Services_proofs`) | `AccountsSpec => []AccountsHold` | GitHub accounts |
| `GenerationsStayCurrent` | `GenerationsSpec => []GenerationsHold` | messages and drafts |
| `ActionsTellTheTruth` | `ActionsSpec => ActionsHold` | actions on a pull request |
| `ClonesStaySafe` | `ClonesSpec => ClonesAreSafe` | clone jobs |
| `SettingsAreStored` | `SettingsSpec => []ConfirmedIsStored` | settings |
| `ServiceStaysWhole` | `ServiceSpec => []ServiceIsWhole` | update of the service |
| `AnswersStayUpToDate` (`Kept_proofs`) | `GitHubReadsSpec => []AnswersKeepUp` | reads from GitHub |
| `StatusesStayUpToDate` | `StatusesSpec => []StatusesKeepUp` | statuses of the AI programs |
| `KeptStaysCurrent` | `Spec => []KeptIsCurrent` of `MCServices`: the two above, composed | |
| `ServicesTypeCorrect` | `Spec => []TypeOK` of `MCServices` | transport, settings and services |

None of the properties is inductive by itself. What has to be known besides, checked by TLC on a
small instance before it was proved:

- **Git.** Exclusion needs to know *who* is inside: `LockInv` says that the tasks of a key form a
  line without repetition, that each one's `previous` is the task before it, that the map's `tail` is
  the last of the line or empty together with it, and that only the first can be inside. Then a
  release lets exactly the next one in, and removing the map entry is safe because the line is
  empty. Freshness needs to know about flights that are *not* joinable any more: `ReadInv` says of
  every flight what it may still be given to (`FlightGood`) and of every reader that its flight has
  seen at least its floor or was invalidated before it landed (`ReaderGood`). `ChainRefinesQueue`
  maps the line and the set of tasks inside to the abstract queue.
- **Startup.** `StartupInv`: what a record of a start says of the process that wrote it stays true;
  once the command has restarted the service, the manager's process is one that was not there
  before; a command that says "ready" has read a record of its own attempt, written by the process
  that serves.
- **Refreshes.** `NothingIsMissed` speaks of a tab at rest; `RefreshInv` says of the tab in motion
  *who* will still repair what it shows. Each resource that is shown is up to date, or an event, the
  queued round or the connection's return will have it read again (`Told`, `Due`), or the round
  under way has yet to read it or joined a read that was too early (`Again`), or what it has read is
  current (`Fresh`). The same of what a round will apply (`RoundOK`), with the exception of a round
  whose read was lost with the connection, which cannot end normally (`Intact`); a round for another
  view than the shown one is followed by a full one (`ViewOK`); without a connection nothing is found
  (`NothingFound`). That merging requests loses no resource is `RequestsMerge`.
- **Server process.** `ManagerInv`: the supervisor does one thing at a time and what it does
  determines which utilities run, who knows of them and which timers may be armed; at each stage of
  an update of the listener, what is on file, in the settings and in the utility.
- **Shell.** `ShellInv`: an installation that is pending is wanted, who quits other than from the menu
  has closed the window, the server has stopped exactly when the second quit begins, and a reload
  under way goes where the server is and has no text to lose, unless another one raced it.
- **Watcher.** `WatcherInv`: what was not reported is in the gathered scope, and its timer is armed.
- **Sessions.** `AccessInv`: access is on only if it is wanted, and a queued switch that still counts
  by its generation was asked for after the last switch off. For pairings: each queued change of the
  session file was computed from what the changes before it leave, a failed write may have replaced
  the file, and who holds a cookie is in memory, file or queue according to how far it came.
- **Transport.** `SocketInv`: a client's socket is its own until its close event, and what is on
  its way or run for it belongs to its owner. Request, messages and handler of a mutation are then
  in one of few joint states, each with what the caller may be told; the refinement follows from
  it. A session that is gone has no socket the server would still read from or write to.
- **Working copy.** Of a removal, what each stage has made sure of (`StageInv`) and that `.git` is
  missing only while it is put back. Of the registry, what each command has read and who changes it
  meanwhile. Of a stash (`StashInv`), that
  every change is committed, in a tree or in an entry as long as no drop slipped, and what an entry
  held that has been applied is elsewhere already: committed, in a tree or in a *newer* entry, so that
  two operations that drop each other's changes cannot close a ring; of an operation alone in its
  worktree, where what it put aside is at each stage; that entries have one owner unless one was
  mistaken; and of an operation alone in the repository that the list is as it left it.
- **Open files.** `EditInv`: what the drafts hold, what the editor, a save, a prompt and a late
  answer refer to, and for each function of `TabSession` that it keeps edited tabs open.
- **Commit plans.** `PlanInv`: groups are disjoint, each stage of a generation and of a preparation
  has read what it compares, and while nothing disturbs it the files of complete groups are at what
  was shown and the others where they were.
- **Transfers.** `TransfersInv` has three ideas. Of a command nobody disturbed, `Tracks` says what lies
  at every place: the items done are where they were to come, everything else is as before; then a
  rollback that ends leaves the disk as it was, and a step on record relates the disks before and
  after it (`Spans`), which undo and redo use. Of a command that was disturbed only `Fresh` is left:
  what it has yet to overwrite is free or is known to be somebody else's. And `KeptInv` says of
  *everything* on the disk that it is safe somewhere, where a command may not remove it without
  telling: there is a set of loose places, with all that a copy or a restore has made; while a file
  is at two places, moved from one device to another, both are loose or none is. Such links never
  close a ring (`ForestInv`), so a copy that is taken away again frees one side only.
- **History.** `HistoryInv`: the stacks of a repository are in the order of their steps' numbers, the
  undone ones younger than the ones that can be undone; no number is on two stacks or above
  `sequence`; a step being applied is on top of its stack unless it was evicted meanwhile
  (`overtaken`), and its number lies between those of the two stacks either way. Until then
  `snapshotBytes` is what all stacks hold, counted as a set of pairs of a step and a byte, so that what disjoint sets of steps
  hold adds up (`BytesAdd`) and evicting the oldest steps makes room for the new one
  (`EvictionMakesRoom`). Stacks are filtered by rank (`Rest`), not by `SelectSeq`, which is recursive.
- **Types of the working copy.** The invariants above leave out what the type invariants bound.
  `SoundTransfers`: only a folder has several tokens at a place, on the disk, before each command and
  before each step on record, and an item is at two places only if they are on different devices.
  `SoundPlan`: the groups are a partition of what was staged, and one of them is left while a plan is
  shown.
- **Services.** `AccountInv`: what is remembered under a repository's present revision was chosen as
  it is now. `GenerationInv`: what a generation has read is no newer than the content, and which
  tab waits for it. `ActionInv`: what the check has established about the head until the request.
  `CloneInv`: who owns what is in the folder at each stage. `SettingsInv`: each queued snapshot has
  the values that were current when it was queued (`LastIsKept`), what was confirmed is in every
  snapshot behind the confirming one (`SureIsStored`), and per channel where its last value is:
  dirty, queued, or stored. `ServiceInv`: at most one operation runs while none has overlapped, and
  at each stage what definition, installation and server may be, what is put back being older
  than the newest version; an installation under way is sound (`InstallIsSound`) whatever it found,
  so that its success makes the service whole. `GitHubInv`: the account only moves
  forward; what is kept, and a flight that can still be joined, has seen all that the program knows
  to have changed; the flight a reader waits for is of the account of its attempt and has seen what
  had changed when it was asked, and everything if nothing was dropped since (the epoch tells).
  `StatusInv`: the inspection that is pending is the last that began and of the present paths once
  they are saved; what is kept and what it finds is no older than the last invalidation and the last
  forced check (`Floor`); the file is read only while nothing was invalidated. `CacheKnows`: the cache
  has what it says of a program only from an inspection of it, so that a look at one program's status
  suffices to take the cache. The exception is an
  inspection that was kept while a change of the paths was being saved (`outrun`).

An attempt to prove found what TLC's bounds had hidden, and the models were corrected:

- `EditsAreSafe` did not except a rename whose answer arrives while the new path is on screen, has a
  tab, or is being saved. It needs a second outside change.
- A timer's background save that fails while a flush waits at its end is saved again by the next
  timer, which clears the error; the flush then reports success. `FlushedIsStored` excepts it
  (`orphaned`), and the run has a second channel, with which TLC meets it.

Model-checked only, and why:

- liveness and `ENABLED`: out of the prover's reach.
- `TypeOK` of `OpenFiles`: the strip of tabs is filtered by `SelectSeq`, a recursive operator of
  which nothing can be proved here without induction over data.

## Plan

Done in this order, most important behaviour first: Git writes and reads; transport; sessions;
server process; file history; commit plans; proofs about Git; then, along the hazards, open files,
stashes, worktree removal, watcher, settings, registry, GitHub accounts, reads and actions, AI
statuses and generations, the service's update, clones, transfers, refreshes, startup of the
command line, and the desktop shell; then proofs about sessions, transport, working copy, open files,
commit plans, the services, the server process, the shell, startups, refreshes, transfers, kept
reads, the file history, and the types of the composed runs.

Abstract specifications still worth stating: a settings document that is one of the last two
written; a stash as a place of the local changes; a service that runs the old or the new version.

## Simplifications

Where a model does less than its code, so that the results do not speak of it: a choice of AI programs
whose save fails (the paths stay in memory, nothing is invalidated); GitHub reads that fail and the
look at the account after such a failure (`GitHubService.ts:144-148`); moving several projects at once
(`registerServerCommands.ts:183-189`), which is several moves without watcher or event; a file is
reloaded only while no save or rename of it is under way, and drafts that collide in a rename are
taken in one order; leaving a dialog cancels its generation in the same step (the code sends the
cancellation over the socket), and the three services of generations close in one.

## Not modelled

The renderer's views, layout, themes, shortcuts and previews; parsers of Git's and GitHub's output;
search; prompts, providers and the programs' output; HTTP routing and static files; menus and
window placement; schemas; website, scripts and build. They make up most of the repository's lines,
keep no state that several activities share, or are input and output only, so the share of lines
that the modules stand for stays far below the share of the concurrent behaviour. Within the
modelled components, `PROJECT.json` says under `components` what each leaves out: among them the
credential broker and SSH identities, comments and workflow approvals on GitHub, the desktop's first
load with its error page, the expiry of sessions, and the timers of caches.
