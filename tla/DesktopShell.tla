------- MODULE DesktopShell -------
(****************************************)
(* The desktop's main process around its server: src/main.ts (the window, *)
(* reconnect, before-quit) and src/main/updates/DesktopUpdater.ts.  The page *)
(* in the window refuses to be left while it has unsaved text *)
(* (beforeunload, App.tsx:1259); Electron then keeps the window, the page and *)
(* the application as they are.  The last window that closes ends the *)
(* application, as everywhere but on macOS. *)
(****************************************)
EXTENDS Integers, FiniteSets

CONSTANTS
  Addresses,     \* where the server listens, one after another
  FirstAddress,
  MaxListeners,  \* bound: changes of the address
  MaxShellFaults \* bound: what fails

ASSUME ShellAssumption ==
  FirstAddress \in Addresses /\ MaxListeners \in Nat /\ MaxShellFaults \in Nat

VARIABLES
  window,      \* "open", "closing" (the page is asked), "closed"
  page,        \* the page: its address, and whether it has unsaved text
  backend,     \* the server: its address, and whether it runs, stops or has stopped
  trusted,     \* allowedServerOrigin
  reconnects,  \* calls of reconnect under way: <<address, step>>
  update,      \* DesktopUpdater: phase, pendingInstall, stopped
  quitting,    \* "no", "started", "ready", and "gone" for the application
  installed,   \* whether the installer was started: "no", "wanted" or "unwanted"
  listeners, shellFaults,
  wanted,      \* history: the user asked for the installation, and the page did not refuse since
  fromMenu,    \* history: the user chose to quit instead of closing the window
  raced        \* history: between the page's answer and its reload it got unsaved text, or the server moved

shellVars == <<window, page, backend, trusted, reconnects, update, quitting, installed, listeners, shellFaults,
               wanted, fromMenu, raced>>
shellHistory == <<wanted, fromMenu, raced>>

ShellTypeOK ==
  /\ window \in {"open", "closing", "closed"} /\ page \in [address : Addresses, unsaved : BOOLEAN]
  /\ backend \in [address : Addresses, state : {"runs", "stops", "stopped"}] /\ trusted \in Addresses
  /\ reconnects \subseteq Addresses \X {"asks", "loads"}
  /\ update \in [phase : {"idle", "checking", "available", "downloading", "ready", "installing", "error"},
                 pending : BOOLEAN, stopped : BOOLEAN]
  /\ quitting \in {"no", "started", "ready", "gone"} /\ installed \in {"no", "wanted", "unwanted"}
  /\ {wanted, fromMenu, raced} \subseteq BOOLEAN
  /\ (update.pending => update.phase = "installing")
  /\ (backend.state # "runs" <=> quitting # "no")
  /\ listeners \in 0..MaxListeners /\ shellFaults \in 0..MaxShellFaults

ShellInit ==
  /\ window = "open" /\ page = [address |-> FirstAddress, unsaved |-> FALSE]
  /\ backend = [address |-> FirstAddress, state |-> "runs"] /\ trusted = FirstAddress /\ reconnects = {}
  /\ update = [phase |-> "idle", pending |-> FALSE, stopped |-> FALSE]
  /\ quitting = "no" /\ installed = "no" /\ listeners = 0 /\ shellFaults = 0
  /\ wanted = FALSE /\ fromMenu = FALSE /\ raced = FALSE

ShellFault == shellFaults < MaxShellFaults /\ shellFaults' = shellFaults + 1
------------------------------
(* The page *)

InPage == window = "open" /\ quitting # "gone"
Loading == \E a \in Addresses : <<a, "loads">> \in reconnects

Types ==
  /\ window # "closed" /\ page' = [page EXCEPT !.unsaved = TRUE] /\ raced' = (raced \/ Loading)
  /\ UNCHANGED <<window, backend, trusted, reconnects, update, quitting, installed, listeners, shellFaults, wanted, fromMenu>>

\* Text is saved as long as the page's server runs, or discarded.
SavesOrDiscards ==
  /\ window # "closed" /\ page' = [page EXCEPT !.unsaved = FALSE]
  /\ UNCHANGED <<window, backend, trusted, reconnects, update, quitting, installed, listeners, shellFaults, shellHistory>>

\* onBeforeUnload
Refuses == page.unsaved

\* Bug: the page that refuses leaves the installation pending.
StillInstalls == UNCHANGED update

\* will-prevent-unload: cancelInstall.
RefusalCancels == update' = IF update.pending THEN [update EXCEPT !.pending = FALSE, !.phase = "ready"] ELSE update
------------------------------
(* DesktopUpdater *)

UpdaterGoes(from, to) ==
  /\ update.phase \in from /\ update' = [update EXCEPT !.phase = to]
  /\ UNCHANGED <<window, page, backend, trusted, reconnects, quitting, installed, listeners, shellHistory>>

\* check, asked for or due, and its end; after stop() a check that ends leaves the phase.
BeginCheck == ~update.stopped /\ UpdaterGoes({"idle", "error"}, "checking") /\ UNCHANGED shellFaults
EndCheck ==
  \/ ~update.stopped /\ (UpdaterGoes({"checking"}, "available") \/ UpdaterGoes({"checking"}, "idle")) /\ UNCHANGED shellFaults
  \/ ShellFault /\ UpdaterGoes({"checking"}, "error")

\* download and update-downloaded
BeginDownload == ~update.stopped /\ UpdaterGoes({"available"}, "downloading") /\ UNCHANGED shellFaults
EndDownload ==
  \/ UpdaterGoes({"downloading"}, "ready") /\ UNCHANGED shellFaults
  \/ ShellFault /\ UpdaterGoes({"downloading"}, "error")

\* install: it asks the window to close (requestClose).
Install ==
  /\ InPage /\ ~update.stopped /\ update.phase = "ready"
  /\ update' = [update EXCEPT !.phase = "installing", !.pending = TRUE] /\ wanted' = TRUE
  /\ window' = "closing"
  /\ UNCHANGED <<page, backend, trusted, reconnects, quitting, installed, listeners, shellFaults, fromMenu, raced>>
------------------------------
(* The window and the end of the application *)

\* before-quit, the first time: the update and the server stop.
BeginsToQuit ==
  /\ quitting' = "started" /\ backend' = [backend EXCEPT !.state = "stops"]
CloseWindow ==
  /\ InPage /\ window' = "closing"
  /\ UNCHANGED <<page, backend, trusted, reconnects, update, quitting, installed, listeners, shellFaults, shellHistory>>

\* The page answers.  A closed window is the last one: the application quits.
WindowCloses ==
  /\ window = "closing"
  /\ IF Refuses
     THEN window' = "open" /\ RefusalCancels /\ wanted' = FALSE /\ UNCHANGED <<quitting, backend>>
     ELSE /\ window' = "closed" /\ UNCHANGED wanted
          /\ IF quitting = "no" THEN BeginsToQuit /\ update' = [update EXCEPT !.stopped = TRUE]
             ELSE /\ quitting' = (IF quitting = "ready" THEN "gone" ELSE quitting) /\ UNCHANGED <<backend, update>>
  /\ UNCHANGED <<page, trusted, reconnects, installed, listeners, shellFaults, fromMenu, raced>>

\* app.quit once all has stopped: before-quit lets it pass, the window is closed if there is one.
QuitsAtLast ==
  IF window = "closed" THEN quitting' = "gone" /\ UNCHANGED window
                       ELSE quitting' = "ready" /\ window' = "closing"

QuitFromMenu ==
  /\ window # "closed" /\ quitting # "gone" /\ fromMenu' = TRUE
  /\ CASE quitting = "no" -> BeginsToQuit /\ update' = [update EXCEPT !.stopped = TRUE] /\ UNCHANGED window
       [] quitting = "started" -> UNCHANGED <<quitting, backend, update, window>>
       [] OTHER -> QuitsAtLast /\ UNCHANGED <<backend, update>>
  /\ UNCHANGED <<page, trusted, reconnects, installed, listeners, shellFaults, wanted, raced>>

\* What is still to be installed is, or the installer doesn't start.
FinishInstall ==
  IF update.pending
  THEN \/ /\ installed' = (IF wanted THEN "wanted" ELSE "unwanted") /\ update' = [update EXCEPT !.pending = FALSE]
          /\ UNCHANGED shellFaults
       \/ ShellFault /\ update' = [update EXCEPT !.pending = FALSE, !.phase = "error"] /\ UNCHANGED installed
  ELSE UNCHANGED <<update, installed, shellFaults>>

\* The tasks of before-quit are settled, whatever became of them.
TasksSettle ==
  /\ quitting = "started" /\ backend' = [backend EXCEPT !.state = "stopped"]
  /\ FinishInstall
  /\ QuitsAtLast
  /\ UNCHANGED <<page, trusted, reconnects, listeners, shellHistory>>
------------------------------
(* The address of the server *)

\* applyServerState: ready at another address.
ListenerMoves(a) ==
  /\ quitting = "no" /\ a # backend.address /\ listeners < MaxListeners /\ listeners' = listeners + 1
  /\ backend' = [backend EXCEPT !.address = a] /\ trusted' = a
  /\ reconnects' = reconnects \cup {<<a, "asks">>} /\ raced' = (raced \/ Loading)
  /\ UNCHANGED <<window, page, update, quitting, installed, shellFaults, wanted, fromMenu>>

\* The page is asked whether it can be left (opentig:before-update); if not, again in a second.
ReconnectAsks(a) ==
  /\ <<a, "asks">> \in reconnects
  /\ \/ /\ window = "closed" \/ trusted # a \/ quitting # "no"
        /\ reconnects' = reconnects \ {<<a, "asks">>}
     \/ /\ window # "closed" /\ trusted = a /\ quitting = "no" /\ ~Refuses
        /\ reconnects' = (reconnects \ {<<a, "asks">>}) \cup {<<a, "loads">>}
  /\ UNCHANGED <<window, page, backend, trusted, update, quitting, installed, listeners, shellFaults, shellHistory>>

\* After the cookies: the window loads the address, unless the page refuses after all.
ReconnectLoads(a) ==
  /\ <<a, "loads">> \in reconnects /\ reconnects' = reconnects \ {<<a, "loads">>}
  /\ \/ window = "closed" /\ UNCHANGED <<page, update, wanted, shellFaults>>
     \/ window # "closed" /\ Refuses /\ RefusalCancels /\ wanted' = FALSE /\ UNCHANGED <<page, shellFaults>>
     \/ window # "closed" /\ ~Refuses /\ page' = [page EXCEPT !.address = a] /\ UNCHANGED <<update, wanted, shellFaults>>
     \/ ShellFault /\ UNCHANGED <<page, update, wanted>>
  /\ UNCHANGED <<window, backend, trusted, quitting, installed, listeners, fromMenu, raced>>

ShellNext ==
  \/ Types \/ SavesOrDiscards \/ BeginCheck \/ EndCheck \/ BeginDownload \/ EndDownload \/ Install
  \/ CloseWindow \/ WindowCloses \/ QuitFromMenu \/ TasksSettle
  \/ \E a \in Addresses : ListenerMoves(a) \/ ReconnectAsks(a) \/ ReconnectLoads(a)

ShellSpec == ShellInit /\ [][ShellNext]_shellVars
------------------------------
(* "nothing installs on ordinary application exit" (DesktopUpdater.ts:4): an *)
(* installation that the page refused, for its unsaved text, is not made up *)
(* for at a later end of the application.  And "only after the window *)
(* accepted closing and the server/settings finished shutdown" *)
(* (DesktopUpdater.ts:111), when the user closes the window. *)
InstallsAsAsked ==
  /\ installed # "unwanted"
  /\ installed = "wanted" /\ ~fromMenu => window = "closed" /\ backend.state = "stopped"

(* "first lets you handle edited files, then shuts down the backend" *)
(* (docs/getting-started.md:55): who closes the window, to install or not, *)
(* has the server as long as there is unsaved text. *)
TextHasItsServer == window # "closed" /\ page.unsaved /\ ~fromMenu => backend.state = "runs"

(* "A desktop window that needs a new address waits for unsaved edits before *)
(* reloading." (docs/web-access.md:126): however long it waits and however *)
(* often the address changes meanwhile, it is still being reconnected. *)
WindowFollows ==
  window # "closed" /\ quitting = "no" /\ page.address # trusted /\ ~raced /\ shellFaults = 0 =>
    {<<trusted, "asks">>, <<trusted, "loads">>} \cap reconnects # {}

\* main.ts 449-481, DesktopUpdater.ts 111: the same however the user quits.  The code does not keep it.
InstallsAfterClosing == installed # "no" => window = "closed"
EditsHaveTheServer == window # "closed" /\ page.unsaved => backend.state = "runs"

\* main.ts 281-295: the same if there is text at the wrong moment.  The code does not keep it.
WindowArrives ==
  window # "closed" /\ quitting = "no" /\ page.address # trusted /\ shellFaults = 0 => reconnects # {}
==============================
