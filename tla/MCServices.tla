------- MODULE MCServices -------
(****************************************)
(* Components of the backend that share no state in the program: the *)
(* transport, the settings, the services of GitHub, of the AI providers and *)
(* of clones, and the update of the service.  One run checks them side by *)
(* side: `focus` is the one that moves, the others keep an initial state. *)
(****************************************)
EXTENDS Transport, SettingsStore, GitHubAccounts, GitHubReads, PullRequestActions,
        AiStatuses, AiGenerations, CloneJobs, ServiceUpdate, TLC

CONSTANTS tab, push, status, v1, v2, w1, w2, s1, s2

VARIABLE focus

allVars == <<focus, transportVars, settingsVars, accountVars, gitHubReadVars, actionVars,
             statusVars, aiVars, cloneVars, updateVars>>

\* Both requests come from one browser tab.
OwnedByTab == [r \in Requests |-> tab]

\* The keys of GitHub reads: what is read, and the revision of the account.
AllKeys == Resources \X (0..MaxMoments)

\* Logins, readers, watchers, tabs and background channels are one pair of model values; flights and
\* executable paths another; what tabs show is a third one.
Interchangeable == Permutations({v1, v2}) \cup Permutations({w1, w2}) \cup Permutations({s1, s2})

\* One of several initial states, for a component that does not move.
Initial ==
  /\ focus = "accounts" \/ (defaultLogin = NoLogin /\ ghActive = NoLogin)
  /\ focus = "actions" \/ (~pr.draft /\ pr.status = "ready" /\ ~mergeQueue)
  /\ focus = "statuses" \/ paths = w1
  /\ focus = "clones" \/ folder = Absent
  /\ focus = "generations" \/ (flavor = "draft" /\ \A t \in Tabs : aiTabs[t].shelf = s1)

Init ==
  /\ focus \in {"transport", "settings", "accounts", "reads", "actions", "statuses", "generations",
                "clones", "update"}
  /\ TransportInit /\ SettingsInit /\ GitHubReadsInit /\ ServiceInit
  /\ AccountsInit /\ ActionsInit /\ StatusesInit /\ GenerationsInit /\ ClonesInit
  /\ Initial

Next ==
  /\ UNCHANGED focus
  /\ \/ /\ focus = "transport" /\ TransportNext
        /\ UNCHANGED <<settingsVars, accountVars, gitHubReadVars, actionVars, statusVars, updateVars, aiVars, cloneVars>>
     \/ /\ focus = "settings" /\ SettingsNext
        /\ UNCHANGED <<transportVars, accountVars, gitHubReadVars, actionVars, statusVars, updateVars, aiVars, cloneVars>>
     \/ /\ focus = "accounts" /\ AccountsNext
        /\ UNCHANGED <<transportVars, settingsVars, gitHubReadVars, actionVars, statusVars, updateVars, aiVars, cloneVars>>
     \/ /\ focus = "reads" /\ GitHubReadsNext
        /\ UNCHANGED <<transportVars, settingsVars, accountVars, actionVars, statusVars, updateVars, aiVars, cloneVars>>
     \/ /\ focus = "actions" /\ ActionsNext
        /\ UNCHANGED <<transportVars, settingsVars, accountVars, gitHubReadVars, statusVars, updateVars, aiVars, cloneVars>>
     \/ /\ focus = "statuses" /\ StatusesNext
        /\ UNCHANGED <<transportVars, settingsVars, accountVars, gitHubReadVars, actionVars, updateVars, aiVars, cloneVars>>
     \/ /\ focus = "generations" /\ GenerationsNext
        /\ UNCHANGED <<transportVars, settingsVars, accountVars, gitHubReadVars, actionVars, statusVars, updateVars, cloneVars>>
     \/ /\ focus = "clones" /\ ClonesNext
        /\ UNCHANGED <<transportVars, settingsVars, accountVars, gitHubReadVars, actionVars, statusVars, updateVars, aiVars>>
     \/ /\ focus = "update" /\ ServiceNext
        /\ UNCHANGED <<transportVars, settingsVars, accountVars, gitHubReadVars, actionVars, statusVars, aiVars, cloneVars>>

Spec == Init /\ [][Next]_allVars

\* One thing that goes wrong with the generations: a failure, a cancellation, a caller that is
\* gone, a change of what they read, or the end of the server.
OneMishap ==
  Cardinality({n \in Ids : generations[n].gone \/ generations[n].aborted \/ generations[n].step = "failed"})
  + Cardinality({sx \in Shelves \X Content : readable[sx[1]][sx[2]] > 0}) + (IF aiClosed THEN 1 ELSE 0) <= 1

\* Bounds: a session that ends or a server that is replaced, changes and failed writes of settings,
\* few changes of accounts at once, one change of what is read from GitHub, one mishap of the
\* generations, two mishaps of the service and no steps after two operations on it overlapped.
Few ==
  /\ restarts = 0 \/ \A c \in Clients : session[c] = "active"
  /\ sets + failures < 5
  /\ revision < 5 /\ Len(saving) < 3
  /\ Cardinality({x \in {<<"mutation", mutation>>, <<"edit", edit>>, <<"adoption", adoption>>} : x[2] # Idle}) < 2
  /\ Len(moments) + writes + mutations < 4
  /\ OneMishap /\ ~overlapped /\ faults + kills <= 2

\* The type invariants of the components.
TypeOK ==
  /\ focus = "transport" => TransportTypeOK
  /\ focus = "settings" => SettingsTypeOK
  /\ focus = "accounts" => AccountsTypeOK
  /\ focus = "reads" => GitHubReadsTypeOK
  /\ focus = "actions" => ActionsTypeOK
  /\ focus = "statuses" => StatusesTypeOK
  /\ focus = "generations" => GenerationsTypeOK
  /\ focus = "clones" => ClonesTypeOK
  /\ focus = "update" => ServiceTypeOK

\* What is kept of GitHub and of the AI programs follows what the program knows to have changed.
KeptIsCurrent == AnswersKeepUp /\ StatusesKeepUp
==============================
