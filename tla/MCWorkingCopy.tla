------- MODULE MCWorkingCopy -------
(****************************************)
(* Components that change a working copy or the list of them and share no *)
(* state in the program: what can be undone, files that are moved and *)
(* copied, a plan of commits, the automatic stash, the removal of a worktree *)
(* and the registry.  One run checks them side by side: `focus` is the one *)
(* that moves, the others keep an initial state. *)
(****************************************)
EXTENDS FileHistory, FileTransfers, CommitPlan, Autostash, WorktreeRemoval, RepositoryRegistry, TLC

CONSTANTS v1, v2, w1, w2, doc, lib

VARIABLE focus

allVars == <<focus, historyVars, transferVars, planVars, stashVars, removalVars, registryVars>>

\* Repositories, files, worktrees and entries are one pair of model values, callers another.
Interchangeable == Permutations({v1, v2}) \cup Permutations({w1, w2})

\* What is selected in a repository: a file, or a file and a folder.
Selected == {<<doc>>, <<doc, lib>>}

\* Bound: no two commands on files at once after another program came between.
FewAtOnce == (\E r \in Roots : jobs[r] = NoTransfer) \/ used.strangers = 0

InitialContent == [f \in Files |-> 0]

Init ==
  /\ focus \in {"history", "transfers", "plan", "stash", "removal", "registry"}
  /\ HistoryInit /\ StashInit /\ RegistryInit
  \* A plan is of what is staged.
  /\ PlanInit /\ IF focus = "plan" THEN Staged # {} ELSE index = InitialContent /\ work = InitialContent
  /\ TransfersInit /\ (focus = "transfers" \/ ~apart)
  /\ RemovalInit /\ (focus = "removal" \/ platform = "git")

Next ==
  /\ UNCHANGED focus
  /\ \/ focus = "history" /\ HistoryNext /\ UNCHANGED <<transferVars, planVars, stashVars, removalVars, registryVars>>
     \/ focus = "plan" /\ PlanNext /\ UNCHANGED <<historyVars, transferVars, stashVars, removalVars, registryVars>>
     \/ focus = "stash" /\ StashNext /\ UNCHANGED <<historyVars, transferVars, planVars, removalVars, registryVars>>
     \/ focus = "removal" /\ RemovalNext /\ UNCHANGED <<historyVars, transferVars, planVars, stashVars, registryVars>>
     \/ focus = "registry" /\ RegistryNext /\ UNCHANGED <<historyVars, transferVars, planVars, stashVars, removalVars>>
     \/ focus = "transfers" /\ TransfersNext /\ UNCHANGED <<historyVars, planVars, stashVars, removalVars, registryVars>>

Spec == Init /\ [][Next]_allVars

\* The type invariants of the components.
TypeOK ==
  /\ focus = "history" => HistoryTypeOK
  /\ focus = "transfers" => TransfersTypeOK
  /\ focus = "plan" => PlanTypeOK
  /\ focus = "stash" => StashTypeOK
  /\ focus = "removal" => RemovalTypeOK
  /\ focus = "registry" => RegistryTypeOK
==============================
