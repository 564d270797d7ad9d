------- MODULE Refreshes -------
(****************************************)
(* How a browser tab keeps up with its repositories: the refresh cycles of *)
(* renderer/app/App.tsx (performRefresh, refresh, refreshFilesOnly) with *)
(* renderer/app/refresh-policy.ts, and what lib/server-client.ts does when *)
(* the connection returns. *)
(* *)
(* Reads go through TanStack Query: who asks for what is being read already *)
(* gets the result of that read.  What a read finds is a version. *)
(****************************************)
EXTENDS Integers, FiniteSets, ChangeScopes

CONSTANTS
  Trees,           \* the repositories a tab can show
  NoTree,
  Views,           \* of "changes" and "files"
  ChangeKinds,     \* the kinds of change that happen
  MaxVersions,     \* bound: changes of a resource
  MaxReadFaults,   \* bound: reads that fail, connections that are lost
  MaxMoves         \* bound: of the user, and changes

ASSUME RefreshAssumption ==
  /\ NoTree \notin Trees /\ Views \subseteq {"changes", "files"} /\ Views # {} /\ ChangeKinds \subseteq RepositoryChangeScope
  /\ {MaxVersions, MaxReadFaults, MaxMoves} \subseteq Nat

VARIABLES
  world,      \* the version of each resource of each repository
  reads,      \* the reads in flight
  cycles,     \* refreshCyclesRef
  app,        \* the state of App
  reports,    \* events on their way to the tab: <<repository, scope>>
  link,       \* the connection: "up", "down", or "back": bootstrap is asked for
  behind,     \* history: repositories that may be shown as they were, with a known reason
  moves, readFaults

refreshVars == <<world, reads, cycles, app, reports, link, behind, moves, readFaults>>

Resources == {"status", "branches", "files"}
Versions == [Resources -> 0..MaxVersions]
Unread == [res \in Resources |-> 0]

Refresh == [scope : RepositoryChangeScope, background : BOOLEAN, manual : BOOLEAN, view : Views]
NoRequest == [scope |-> "none", background |-> TRUE, manual |-> FALSE, view |-> CHOOSE v \in Views : TRUE]
NoRead == [stage |-> "none", version |-> 0, polled |-> FALSE]
NoCycle == [stage |-> "none", request |-> NoRequest, queued |-> NoRequest, awaits |-> {}, got |-> Unread,
            again |-> FALSE, old |-> FALSE]

RefreshTypeOK ==
  /\ world \in [Trees -> Versions]
  /\ reads \in [Trees -> [Resources -> [stage : {"none", "asked", "looked", "lost"}, version : 0..MaxVersions, polled : BOOLEAN]]]
  /\ \A r \in Trees : LET c == cycles[r] IN
       /\ c.stage \in {"none", "fetching", "reading", "pausing"} /\ c.awaits \subseteq Resources /\ c.got \in Versions
       /\ {c.request, c.queued} \subseteq Refresh \cup {NoRequest} /\ {c.again, c.old} \subseteq BOOLEAN
       /\ (c.stage = "none" <=> c.request = NoRequest) /\ (c.awaits # {} <=> c.stage = "reading")
       /\ \A res \in c.awaits : reads[r][res].stage # "none"
  /\ app \in [tree : Trees \cup {NoTree}, view : Views, snapshot : Trees \cup {NoTree}, busy : BOOLEAN,
              has : Versions, of : [Resources -> Trees \cup {NoTree}]]
  /\ reports \subseteq Trees \X ChangeKinds /\ link \in {"up", "down", "back"} /\ behind \subseteq Trees
  /\ moves \in 0..MaxMoves /\ readFaults \in 0..MaxReadFaults

RefreshInit ==
  /\ world = [r \in Trees |-> Unread] /\ reads = [r \in Trees |-> [res \in Resources |-> NoRead]]
  /\ cycles = [r \in Trees |-> NoCycle] /\ reports = {} /\ link = "up" /\ behind = {}
  /\ app = [tree |-> NoTree, view |-> CHOOSE v \in Views : TRUE, snapshot |-> NoTree, busy |-> FALSE,
            has |-> Unread, of |-> [res \in Resources |-> NoTree]]
  /\ moves = 0 /\ readFaults = 0
------------------------------
(* The policy. *)

\* refreshOperationsForScope
Needs(q) ==
  {"status"} \cup (IF q.scope \in {"unknown", "refs", "worktrees"} THEN {"branches"} ELSE {})
             \cup (IF q.view = "files" /\ q.scope \in {"unknown", "worktree", "index"} THEN {"files"} ELSE {})

\* Bug: of two requests the later one is kept.
MergedRequestsLater(p, q) == q

\* mergeRefreshRequests
MergedRequests(p, q) ==
  [scope |-> Merged(p.scope, q.scope), background |-> p.background /\ q.background,
   manual |-> p.manual \/ q.manual, view |-> q.view]

\* What a change of a scope changes.
ChangedBy(scope) == Needs([NoRequest EXCEPT !.scope = scope, !.view = "files"])
------------------------------
(* A cycle. *)

\* fetchQuery: what is not being read already is asked for.
Asked(rd, need) ==
  [res \in Resources |-> IF res \in need /\ rd[res].stage = "none" THEN [NoRead EXCEPT !.stage = "asked"] ELSE rd[res]]

\* History: a read that has looked already is joined, and what it reads has changed since.
JoinsOld(r, rd, need) == \E res \in need : rd[res].stage = "looked" /\ rd[res].version # world[r][res]

\* performRefresh: a manual one fetches first. In the second attempt after a failure, again holds.
Reading(r, c, rd) == [c EXCEPT !.stage = "reading", !.awaits = Needs(c.request), !.got = Unread, !.old = JoinsOld(r, rd, Needs(c.request))]
Round(r, q, rd) ==
  LET c == [NoCycle EXCEPT !.request = q] IN
  IF q.manual THEN [c EXCEPT !.stage = "fetching"] ELSE Reading(r, c, rd)
RoundReads(q, rd) == IF q.manual THEN rd ELSE Asked(rd, Needs(q))
Busy(q, a) == IF q.background THEN a ELSE [a EXCEPT !.busy = TRUE]

\* refresh: one cycle per repository; what comes meanwhile is merged into its next round. a is
\* the state of the application by then.
RefreshWith(r, q, a) ==
  IF cycles[r].stage # "none"
  THEN /\ cycles' = [cycles EXCEPT ![r].queued = IF @ = NoRequest THEN q ELSE MergedRequests(@, q)]
       /\ app' = a /\ UNCHANGED reads
  ELSE /\ cycles' = [cycles EXCEPT ![r] = Round(r, q, reads[r])]
       /\ reads' = [reads EXCEPT ![r] = RoundReads(q, @)] /\ app' = Busy(q, a)

\* finally, and the next round of the cycle; rd are the reads and a the application by then.
RoundEnds(r, rd, a) ==
  LET q == cycles[r].queued
      b == IF ~cycles[r].request.background /\ app.tree = r THEN [a EXCEPT !.busy = FALSE] ELSE a
  IN IF q = NoRequest
     THEN cycles' = [cycles EXCEPT ![r] = NoCycle] /\ reads' = [reads EXCEPT ![r] = rd] /\ app' = b
     ELSE /\ cycles' = [cycles EXCEPT ![r] = Round(r, q, rd)]
          /\ reads' = [reads EXCEPT ![r] = RoundReads(q, rd)] /\ app' = Busy(q, b)

worldVars == <<world, reports, link>>

\* The fetch of a manual refresh has ended, in whatever way.
FetchEnds(r) ==
  /\ cycles[r].stage = "fetching"
  /\ cycles' = [cycles EXCEPT ![r] = Reading(r, @, reads[r])]
  /\ reads' = [reads EXCEPT ![r] = Asked(@, Needs(cycles[r].request))]
  /\ UNCHANGED <<worldVars, app, behind, moves, readFaults>>

\* The server reads.
Looks(r, res) ==
  /\ reads[r][res].stage = "asked" /\ link # "down"
  /\ reads' = [reads EXCEPT ![r][res].stage = "looked", ![r][res].version = world[r][res]]
  /\ UNCHANGED <<worldVars, cycles, app, behind, moves, readFaults>>

\* The snapshot of a round is applied if its repository is still shown.
Applied(r, got, a) ==
  IF app.tree # r THEN a
  ELSE [a EXCEPT !.snapshot = r,
                 !.has = [res \in Resources |-> IF res \in Needs(cycles[r].request) THEN got[res] ELSE @[res]],
                 !.of = [res \in Resources |-> IF res \in Needs(cycles[r].request) THEN r ELSE @[res]]]

\* refreshFilesOnly takes the files.
Polled(r, res, a) ==
  IF reads[r][res].polled /\ app.tree = r
  THEN [a EXCEPT !.has[res] = reads[r][res].version, !.of[res] = r] ELSE a

\* History: a full round that joined no old read has caught up, one that did may be behind.
BehindAfter(r) ==
  IF app.tree # r THEN behind
  ELSE IF cycles[r].old THEN behind \cup {r}
  ELSE IF cycles[r].request.scope = "unknown" THEN behind \ {r} ELSE behind

Answers(r, res) ==
  LET c == cycles[r]
      got == [c.got EXCEPT ![res] = reads[r][res].version]
      rd == [reads[r] EXCEPT ![res] = NoRead]
      a == Polled(r, res, app)
  IN /\ reads[r][res].stage = "looked"
     /\ IF c.awaits = {res}
        THEN RoundEnds(r, rd, Applied(r, got, a)) /\ behind' = BehindAfter(r)
        ELSE /\ cycles' = IF res \in c.awaits
                          THEN [cycles EXCEPT ![r].awaits = @ \ {res}, ![r].got = got] ELSE cycles
             /\ reads' = [reads EXCEPT ![r] = rd] /\ app' = a /\ UNCHANGED behind
     /\ UNCHANGED <<worldVars, moves, readFaults>>

\* A read fails: with the connection, or alone. A refresh in the background pauses and tries
\* once more; otherwise it is told, or kept quiet if the connection is to blame.
Fails(r, res) ==
  LET c == cycles[r]
      alone == reads[r][res].stage # "lost"
      rd == [reads[r] EXCEPT ![res] = NoRead]
  IN /\ reads[r][res].stage # "none" /\ (alone => readFaults < MaxReadFaults /\ link # "down")
     /\ CASE res \notin c.awaits ->
               reads' = [reads EXCEPT ![r] = rd] /\ UNCHANGED <<cycles, app, behind>>
          [] res \in c.awaits /\ app.tree # r ->
               RoundEnds(r, rd, app) /\ UNCHANGED behind
          [] res \in c.awaits /\ app.tree = r /\ c.request.background /\ ~c.again ->
               /\ cycles' = [cycles EXCEPT ![r].stage = "pausing", ![r].awaits = {}, ![r].again = TRUE]
               /\ reads' = [reads EXCEPT ![r] = rd] /\ UNCHANGED <<app, behind>>
          [] OTHER ->
               RoundEnds(r, rd, app) /\ behind' = IF alone THEN behind \cup {r} ELSE behind
     /\ readFaults' = IF alone THEN readFaults + 1 ELSE readFaults
     /\ UNCHANGED <<worldVars, moves>>

\* A second later, if the repository is still shown.
Retries(r) ==
  /\ cycles[r].stage = "pausing"
  /\ IF app.tree # r
     THEN RoundEnds(r, reads[r], app)
     ELSE /\ cycles' = [cycles EXCEPT ![r] = Reading(r, @, reads[r])]
          /\ reads' = [reads EXCEPT ![r] = Asked(@, Needs(cycles[r].request))] /\ UNCHANGED app
  /\ UNCHANGED <<worldVars, behind, moves, readFaults>>
------------------------------
(* What asks for a refresh. *)

Full(view) == [scope |-> "unknown", background |-> FALSE, manual |-> FALSE, view |-> view]
InBackground(scope) == [scope |-> scope, background |-> TRUE, manual |-> FALSE, view |-> app.view]

Moves == moves < MaxMoves /\ moves' = moves + 1

\* Another repository is shown, or none: the snapshot is not of it.
Show(r) ==
  /\ Moves /\ r # app.tree
  /\ LET a == [app EXCEPT !.tree = r, !.snapshot = NoTree, !.of["files"] = NoTree] IN
     IF r = NoTree THEN app' = a /\ UNCHANGED <<cycles, reads>> ELSE RefreshWith(r, Full(app.view), a)
  /\ UNCHANGED <<worldVars, behind, readFaults>>

ShowView(v) ==
  /\ Moves /\ v # app.view
  /\ LET a == [app EXCEPT !.view = v] IN
     IF app.tree = NoTree THEN app' = a /\ UNCHANGED <<cycles, reads>> ELSE RefreshWith(app.tree, Full(v), a)
  /\ UNCHANGED <<worldVars, behind, readFaults>>

\* The button and Ctrl+R.
RefreshByHand ==
  /\ Moves /\ app.tree # NoTree /\ ~app.busy
  /\ RefreshWith(app.tree, [Full(app.view) EXCEPT !.manual = TRUE], app)
  /\ UNCHANGED <<worldVars, behind, readFaults>>

\* The periodic fetch has brought something, and nothing else is going on.
FetchedQuietly ==
  /\ Moves /\ app.tree # NoTree
  /\ RefreshWith(app.tree, InBackground("refs"), app)
  /\ UNCHANGED <<worldVars, behind, readFaults>>

\* The event of the watcher; of another repository it says nothing.
EventArrives(r, scope) ==
  /\ <<r, scope>> \in reports /\ link # "down" /\ reports' = reports \ {<<r, scope>>}
  /\ IF app.tree = r THEN RefreshWith(r, InBackground(scope), app) ELSE UNCHANGED <<cycles, reads, app>>
  /\ UNCHANGED <<world, link, behind, moves, readFaults>>

\* Every five seconds while the files are shown.
PollFiles ==
  /\ app.tree # NoTree /\ app.view = "files" /\ ~reads[app.tree]["files"].polled
  /\ reads' = [reads EXCEPT ![app.tree] = [Asked(@, {"files"}) EXCEPT !["files"].polled = TRUE]]
  /\ UNCHANGED <<worldVars, cycles, app, behind, moves, readFaults>>

\* Something changes; who is connected gets an event.
Changes(r, scope) ==
  /\ Moves /\ \A res \in ChangedBy(scope) : world[r][res] < MaxVersions
  /\ world' = [world EXCEPT ![r] = [res \in Resources |-> IF res \in ChangedBy(scope) THEN @[res] + 1 ELSE @[res]]]
  /\ reports' = IF link = "down" THEN reports ELSE reports \cup {<<r, scope>>}
  /\ UNCHANGED <<reads, cycles, app, link, behind, readFaults>>

\* The socket closes: what was sent and not answered fails, events on their way are lost.
LosesConnection ==
  /\ link # "down" /\ readFaults < MaxReadFaults /\ readFaults' = readFaults + 1
  /\ link' = "down" /\ reports' = {}
  /\ reads' = [r \in Trees |-> [res \in Resources |->
                 IF reads[r][res].stage = "none" THEN NoRead ELSE [reads[r][res] EXCEPT !.stage = "lost", !.version = 0]]]
  /\ UNCHANGED <<world, cycles, app, behind, moves>>

\* onReconnect: bootstrap is asked for, ...
ConnectsAgain ==
  /\ link = "down" /\ link' = "back"
  /\ UNCHANGED <<world, reads, cycles, app, reports, behind, moves, readFaults>>

\* ... and its answer counts as a change of everything in the repository that is open.
Bootstraps ==
  /\ link = "back" /\ link' = "up"
  /\ IF app.tree # NoTree THEN RefreshWith(app.tree, InBackground("unknown"), app) ELSE UNCHANGED <<cycles, reads, app>>
  /\ UNCHANGED <<world, reports, behind, moves, readFaults>>

\* An error is not told to anybody.
BootstrapFails ==
  /\ link = "back" /\ link' = "up" /\ readFaults < MaxReadFaults /\ readFaults' = readFaults + 1
  /\ behind' = behind \cup ({app.tree} \ {NoTree})
  /\ UNCHANGED <<world, reads, cycles, app, reports, moves>>

\* All requests on a lost socket fail in one turn, before anything else happens.
LostReads == {rr \in Trees \X Resources : reads[rr[1]][rr[2]].stage = "lost"}

RefreshNext ==
  \/ \E rr \in LostReads : Fails(rr[1], rr[2])
  \/ /\ LostReads = {}
     /\ \/ \E r \in Trees, res \in Resources : Looks(r, res) \/ Answers(r, res) \/ Fails(r, res)
        \/ \E r \in Trees : FetchEnds(r) \/ Retries(r)
        \/ \E r \in Trees \cup {NoTree} : Show(r)
        \/ \E v \in Views : ShowView(v)
        \/ \E r \in Trees, scope \in ChangeKinds : EventArrives(r, scope) \/ Changes(r, scope)
        \/ RefreshByHand \/ FetchedQuietly \/ PollFiles
        \/ LosesConnection \/ ConnectsAgain \/ Bootstraps \/ BootstrapFails

------------------------------
(* Properties. *)

\* Nothing is on its way to the tab about the repository that it shows.
Quiet(r) ==
  /\ link = "up" /\ cycles[r].stage = "none" /\ (\A scope \in ChangeKinds : <<r, scope>> \notin reports)
  /\ \A res \in Resources : reads[r][res].stage = "none"

ShownResources == {"status", "branches"} \cup (IF app.view = "files" THEN {"files"} ELSE {})

\* docs/features.md: "Overlapping watcher and manual refreshes are combined", "Reconnecting
\* clients load fresh state": when nothing is on its way any more, the tab shows all that has
\* changed, whatever was merged, retried, given up for another repository or lost with the
\* connection.  The exceptions: a read failed, which was told, or a round joined an old read.
NothingIsMissed ==
  app.tree # NoTree /\ Quiet(app.tree) /\ app.tree \notin behind =>
    app.snapshot = app.tree /\ \A res \in ShownResources : app.has[res] = world[app.tree][res]

\* What is shown as the status and the files of a repository is of that repository.
ShownBelongs ==
  app.snapshot # NoTree => app.snapshot = app.tree /\ \A res \in ShownResources \ {"branches"} : app.of[res] \in {app.tree, NoTree}

\* The same of the branches does not hold: A, then B, then A again while a round of A that
\* reads no branches is under way shows A with the branches of B until the next round ends.
BranchesBelong == app.snapshot # NoTree => app.of["branches"] = app.tree

\* docs/interface.md: "The icon rotates while refreshing and returns to rest afterward."  Busy
\* is one for all repositories: it does not hold, as the queued round of a repository that
\* was left sets it (App.tsx:705) and does not take it back (App.tsx:778).
BusyIsDue ==
  app.busy /\ app.tree # NoTree =>
    \/ cycles[app.tree].stage # "none" /\ ~cycles[app.tree].request.background
    \/ cycles[app.tree].queued # NoRequest /\ ~cycles[app.tree].queued.background
==============================
