------- MODULE MCReads -------
(****************************************)
(* What programs learn from what they share.  Reads are shared twice: by the *)
(* server, whose Git children serve everybody who asks the same (GitProcess *)
(* with ReadSingleFlight), and by a browser tab, whose refresh rounds join *)
(* what is being read already (Refreshes).  And a command learns from two *)
(* files how the server that it has restarted gets on (CliStartup).  They *)
(* share no state: one run checks them side by side, `focus` is the one that *)
(* moves. *)
(****************************************)
EXTENDS GitProcess, Refreshes, CliStartup, TLC

CONSTANTS r1, r2, f1, f2, w1, w2, w3, main, git

VARIABLE focus

\* One worktree, the repository's own.
MainDirs == {main}
MainScopes == {main, git}
MainCommonDir == (main :> git)

Similar == Permutations(Readers) \cup Permutations(Flights) \cup Permutations(Processes \ {First})

ReadsInit == focus \in {"server", "tab", "startup"} /\ Init /\ RefreshInit /\ StartupInit

ReadsNext ==
  /\ UNCHANGED focus
  /\ \/ focus = "server" /\ Next /\ UNCHANGED <<refreshVars, startupVars>>
     \/ focus = "tab" /\ RefreshNext /\ UNCHANGED <<vars, startupVars>>
     \/ focus = "startup" /\ StartupNext /\ UNCHANGED <<vars, refreshVars>>

ReadsSpec == ReadsInit /\ [][ReadsNext]_<<focus, vars, refreshVars, startupVars>>

\* The server alone, for what its fairness brings about.  What tasks do to each other does
\* not depend on the content: it stays as it is.
LocksInit == ReadsInit /\ focus = "server"
LocksNext == Next /\ UNCHANGED <<version, focus, refreshVars, startupVars>>
LocksSpec == LocksInit /\ [][LocksNext]_<<focus, vars, refreshVars, startupVars>> /\ Fairness

\* App.tsx 701-814: a tab shows all that has changed once nothing is on its way to it any
\* more, and until then the status and the files of its own repository only.
RefreshesHold == RefreshTypeOK /\ NothingIsMissed /\ ShownBelongs

\* cli-service.ts 186-212, cli-startup.ts: a command that succeeded has the server it asked for.
StartupsHold == StartupTypeOK /\ ReadyIsTheRequested
==============================
