------- MODULE Progress_proofs -------
(****************************************)
(* Proofs about the parts of MCProgress for any processes, addresses, scopes *)
(* and bounds: the server that the manager watches, the desktop shell around *)
(* it, and the changes that the watcher has gathered. *)
(****************************************)
EXTENDS MCProgress, Transport_proofs

------------------------------
(* The watcher. *)

\* What makes ChangesAreReported come true once timers fire: a change that no report has told
\* of has its timer, and the scope that is pending makes the clients read all of it again.
ChangesAreGathered ==
  /\ unreported # {} => timer # "off" /\ pendingScope # None /\ unreported \subseteq Refreshed(pendingScope)
  /\ timer # "off" => watching # None /\ pendingScope # None

\* A change that is read again for either of two scopes is read again for the merged one.
LEMMA MergedCovers ==
  ASSUME NEW left \in RepositoryChangeScope, NEW right \in RepositoryChangeScope
  PROVE  /\ Merged(left, right) \in RepositoryChangeScope
         /\ Refreshed(left) \cup {right} \subseteq Refreshed(Merged(left, right))
<1>1. CASE left = right BY <1>1 DEF Merged, Refreshed, RepositoryChangeScope
<1>2. CASE left # right /\ {left, right} = {"worktree", "index"}
  BY <1>2 DEF Merged, Refreshed, RepositoryChangeScope
<1>3. CASE left # right /\ {left, right} # {"worktree", "index"}
  <2>1. Merged(left, right) = "unknown" BY <1>3 DEF Merged
  <2> QED BY <2>1 DEF Refreshed, RepositoryChangeScope
<1> QED BY <1>1, <1>2, <1>3

WatcherInv == WatcherTypeOK /\ ChangesAreGathered

LEMMA WatcherStarts ==
  ASSUME WatcherInit PROVE WatcherInv
<1>1. 0 \in 0..MAX_DEFERRALS BY WatcherAssumption
<1> QED BY <1>1 DEF WatcherInit, WatcherInv, WatcherTypeOK, ChangesAreGathered

LEMMA WatcherStep ==
  ASSUME WatcherInv, [WatcherNext]_watcherVars PROVE WatcherInv'
<1>1. CASE UNCHANGED watcherVars
  BY <1>1 DEF WatcherInv, WatcherTypeOK, ChangesAreGathered, watcherVars
<1>2. ASSUME Cleared, watching' \in Repositories \cup {None}, UNCHANGED gitActive, missed' \in BOOLEAN
      PROVE  WatcherInv'
  BY <1>2, WatcherAssumption DEF WatcherInv, WatcherTypeOK, ChangesAreGathered, Cleared
<1>3. CASE \E r \in Repositories : StartWatching(r)
  BY <1>2, <1>3 DEF WatcherInv, WatcherTypeOK, StartWatching
<1>4. CASE BootstrapStarts
  <2>1. missed' \in BOOLEAN BY <1>4 DEF WatcherInv, WatcherTypeOK, BootstrapStarts
  <2> QED BY <1>2, <1>4, <2>1 DEF WatcherInv, WatcherTypeOK, BootstrapStarts
<1>5. CASE StopWatching BY <1>2, <1>5 DEF WatcherInv, WatcherTypeOK, StopWatching
<1>6. CASE Change
  <2>1. PICK scope \in RepositoryChangeScope :
          /\ pendingScope' = IF pendingScope = None THEN scope ELSE Merged(pendingScope, scope)
          /\ unreported' = unreported \cup {scope}
    BY <1>6 DEF Change
  <2>2. timer' = "running" /\ watching # None /\ UNCHANGED <<watching, deferrals, gitActive, missed>>
    BY <1>6 DEF Change
  <2>3. CASE pendingScope = None
    <3>1. unreported = {} /\ pendingScope' = scope BY <2>1, <2>3 DEF WatcherInv, ChangesAreGathered
    <3>2. scope \in Refreshed(scope) /\ scope # None
      BY WatcherAssumption DEF Refreshed, RepositoryChangeScope
    <3> QED BY <2>1, <2>2, <3>1, <3>2 DEF WatcherInv, WatcherTypeOK, ChangesAreGathered
  <2>4. CASE pendingScope # None
    <3>1. /\ pendingScope \in RepositoryChangeScope /\ pendingScope' = Merged(pendingScope, scope)
          /\ unreported \subseteq Refreshed(pendingScope)
      BY <2>1, <2>4 DEF WatcherInv, WatcherTypeOK, ChangesAreGathered
    <3>2. /\ pendingScope' \in RepositoryChangeScope
          /\ Refreshed(pendingScope) \cup {scope} \subseteq Refreshed(pendingScope')
      BY <3>1, MergedCovers
    <3> QED BY <2>1, <2>2, <3>1, <3>2, WatcherAssumption DEF WatcherInv, WatcherTypeOK, ChangesAreGathered
  <2> QED BY <2>3, <2>4
<1>7. CASE Elapse BY <1>7 DEF WatcherInv, WatcherTypeOK, ChangesAreGathered, Elapse
<1>8. CASE Defer
  <2>1. deferrals' \in 0..MAX_DEFERRALS
    BY <1>8, WatcherAssumption DEF WatcherInv, WatcherTypeOK, Defer
  <2> QED BY <1>8, <2>1 DEF WatcherInv, WatcherTypeOK, ChangesAreGathered, Defer
<1>9. CASE Report
  <2>1. unreported # {} => pendingScope # None /\ unreported \subseteq Refreshed(pendingScope)
    BY DEF WatcherInv, ChangesAreGathered
  <2>2. unreported' = {} BY <1>9, <2>1 DEF Report, Reported
  <2> QED BY <1>9, <2>2, WatcherAssumption DEF WatcherInv, WatcherTypeOK, ChangesAreGathered, Report
<1>10. CASE GitStarts \/ GitEnds
  BY <1>10 DEF WatcherInv, WatcherTypeOK, ChangesAreGathered, GitStarts, GitEnds
<1> QED BY <1>1, <1>3, <1>4, <1>5, <1>6, <1>7, <1>8, <1>9, <1>10 DEF WatcherNext

(* RepositoryWatcher.ts 97, repository-change.ts: however changes of several *)
(* kinds, waiting for Git and clients that connect follow each other, a *)
(* change that was not reported has its timer and is part of what is *)
(* reported next. *)
THEOREM ChangesStayGathered == WatcherSpec => []ChangesAreGathered
<1>1. WatcherInv => ChangesAreGathered BY DEF WatcherInv
<1> QED BY <1>1, WatcherStarts, WatcherStep, PTL DEF WatcherSpec
------------------------------
(* The utility server and its supervisor. *)

Pending(p) == attempt[p] \in {"open", "probing", "failed", "inUse"}

\* An attempt and its process: there is a slot for both, one that was given up has no process
\* that still runs, and one that has answered was spawned.
AttemptOK(p) ==
  /\ proc[p].st = "unused" <=> attempt[p] = "none"
  /\ attempt[p] \in {"failed", "inUse", "over"} => proc[p].told \/ proc[p].st = "gone"
  /\ attempt[p] \in {"probing", "adopted"} => proc[p].st \notin {"unused", "forked"}
  /\ proc[p].out # <<>> => proc[p].st \in {"serving", "ending", "gone"}
  /\ proc[p].st \in {"forked", "booting"} => proc[p].update = "no"

\* What the manager is about is one thing at a time: the first start that has not begun, an
\* attempt, the adopted process, or the timer for the next attempt.
NothingElse ==
  child = NoProc /\ "restart" \notin timers /\ start.pc # "idle" /\ failures <= MaxDelays
PendingOK(p) == Pending(p) => NothingElse /\ \A q \in Procs : Pending(q) => q = p
ChildOK ==
  child # NoProc =>
    /\ attempt[child] = "adopted" /\ (proc[child].st = "gone" \/ ~proc[child].told)
    /\ "restart" \notin timers /\ start.pc \notin {"idle", "running"} /\ failures <= MaxDelays
TimerOK == "restart" \in timers => start.pc \notin {"idle", "running"} /\ failures <= MaxDelays
IdleOK == start.pc = "idle" => failures = 0

\* Before a stop the manager knows what runs; after it nothing runs that was not told to end, but
\* a process that was not spawned yet.
KnownOK(p) ==
  /\ ~stopping => /\ Unfinished(p) => attemptChild = p
                  /\ attempt[p] = "adopted" => child = p
                  /\ attempt[p] \in {"open", "probing", "adopted"} => ~proc[p].told
                  /\ proc[p].told => proc[p].st \in {"ending", "gone"}
  /\ stopping /\ Alive(p) /\ ~proc[p].told => proc[p].st = "forked"

\* Where a server that runs is with an update of its configuration.
OnFile(now, file) == file = {} \/ file = {now.net}
Stage(now, file) ==
  /\ now.update = "no" => OnFile(now, file) /\ now.at \in {now.net.addr, Nowhere}
  /\ now.update = "rebind" => OnFile(now, file) /\ now.at = Nowhere
  /\ now.update = "save" => OnFile(now, file) /\ now.at \in {now.next.addr, Nowhere}
  /\ now.update = "post" => file = {now.next} /\ now.at \in {now.next.addr, Nowhere}
  /\ now.update = "rebindBack" => now.at = Nowhere
  /\ now.update = "saveBack" => now.at \in {now.net.addr, Nowhere}
StageOK(p) == proc[p].st = "serving" /\ ~proc[p].told /\ ~proc[p].astray => Stage(proc[p], saved)

ManagerInv ==
  /\ ManagerTypeOK /\ NothingAfterStop
  /\ ChildOK /\ TimerOK /\ IdleOK
  /\ \A p \in Procs : AttemptOK(p) /\ PendingOK(p) /\ KnownOK(p) /\ StageOK(p)

AttemptSteps == {"none", "open", "probing", "adopted", "failed", "inUse", "over"}

\* Slots are numbers from 1, and there is an address.
LEMMA SlotFacts ==
  /\ NoProc \notin Procs
  /\ Addrs # {} /\ AnyConfig \in Config /\ UnusedProc \in Proc
  /\ \A i \in 1..Len(Scan) : Scan[i] \in Addrs
<1>1. NoProc \notin Procs BY UtilityAssumption DEF NoProc, Procs
<1>2. \A i \in 1..Len(Scan) : Scan[i] \in Addrs BY ManagerAssumption
<1>3. Addrs # {} BY <1>2, ManagerAssumption
<1>4. AnyConfig \in Config BY <1>3 DEF AnyConfig, Config
<1>5. <<>> \in Seq(Message) OBVIOUS
<1>6. UnusedProc \in Proc BY <1>4, <1>5 DEF UnusedProc, Proc
<1> QED BY <1>1, <1>2, <1>3, <1>4, <1>6

\* At most one process runs that was not told to end.
LEMMA OneRuns ==
  ASSUME ManagerInv, NEW p \in Procs, NEW q \in Procs, Alive(p), ~proc[p].told, Alive(q), ~proc[q].told
  PROVE  p = q /\ attempt[p] \in {"open", "probing", "adopted"}
<1>1. ASSUME NEW r \in Procs, Alive(r), ~proc[r].told PROVE attempt[r] \in {"open", "probing", "adopted"}
  BY <1>1 DEF ManagerInv, ManagerTypeOK, AttemptOK, Alive
<1>2. ASSUME NEW r \in Procs, Alive(r), ~proc[r].told, stopping PROVE Pending(r)
  BY <1>1, <1>2 DEF ManagerInv, KnownOK, AttemptOK, Pending
<1>3. ASSUME ~stopping, attempt[p] = "adopted" PROVE p = q
  <2>1. child = p /\ child # NoProc BY <1>3, SlotFacts DEF ManagerInv, KnownOK
  <2>2. ~Pending(q) BY <2>1 DEF ManagerInv, PendingOK, NothingElse
  <2>3. attempt[q] = "adopted" BY <2>2, <1>1 DEF Pending
  <2> QED BY <2>1, <2>3, <1>3 DEF ManagerInv, KnownOK
<1>4. ASSUME ~stopping, attempt[q] = "adopted" PROVE p = q
  <2>1. child = q /\ child # NoProc BY <1>4, SlotFacts DEF ManagerInv, KnownOK
  <2>2. ~Pending(p) BY <2>1 DEF ManagerInv, PendingOK, NothingElse
  <2>3. attempt[p] = "adopted" BY <2>2, <1>1 DEF Pending
  <2> QED BY <2>1, <2>3, <1>4 DEF ManagerInv, KnownOK
<1>5. CASE Pending(p) /\ Pending(q) BY <1>5, <1>1 DEF ManagerInv, PendingOK
<1> QED BY <1>1, <1>2, <1>3, <1>4, <1>5 DEF Pending

\* A step of a utility process that was spawned: the supervisor learns of it later.
LEMMA ProcessStep ==
  ASSUME ManagerInv, NEW p \in Procs, NEW new \in Proc, proc' = [proc EXCEPT ![p] = new],
         UNCHANGED managerVars, crashes' \in 0..MaxCrashes,
         saved' \in SUBSET Config, \A c, d \in saved' : c = d, updates' \in 0..MaxUpdates,
         Alive(p), new.st # "unused", new.st = "forked" => proc[p].st = "forked",
         new.told = proc[p].told,
         new.out # <<>> => new.st \in {"serving", "ending", "gone"},
         new.told => new.st \in {"ending", "gone"} \/ new.st = proc[p].st
                       \/ stopping,
         saved' # saved => proc[p].st = "serving",
         new.st \in {"forked", "gone"} \/ proc[p].st # "forked" \/ ~stopping,
         new.st \in {"forked", "booting"} => new.update = "no",
         new.st = "serving" /\ ~new.told /\ ~new.astray => Stage(new, saved')
  PROVE  ManagerInv'
<1>1. /\ proc \in [Procs -> Proc] /\ proc' \in [Procs -> Proc] /\ proc'[p] = new
      /\ \A q \in Procs : q # p => proc'[q] = proc[q]
      /\ \A q \in Procs : proc[q] \in Proc
  BY DEF ManagerInv, ManagerTypeOK, UtilityTypeOK
<1>2. ManagerTypeOK' BY <1>1 DEF ManagerInv, ManagerTypeOK, UtilityTypeOK, managerVars
<1>3. NothingAfterStop' /\ TimerOK' /\ IdleOK'
  BY DEF ManagerInv, NothingAfterStop, TimerOK, IdleOK, stopping, managerVars
<1>4. ChildOK' BY <1>1 DEF ManagerInv, ManagerTypeOK, ChildOK, managerVars, Alive
<1>5. ASSUME NEW q \in Procs PROVE AttemptOK(q)'
  <2>1. CASE q = p BY <2>1, <1>1, <1>5 DEF ManagerInv, AttemptOK, Alive, managerVars
  <2>2. CASE q # p BY <2>2, <1>1, <1>5 DEF ManagerInv, AttemptOK, managerVars
  <2> QED BY <2>1, <2>2
<1>6. ASSUME NEW q \in Procs PROVE PendingOK(q)'
  BY <1>6 DEF ManagerInv, PendingOK, Pending, NothingElse, managerVars
<1>7. ASSUME NEW q \in Procs PROVE KnownOK(q)'
  <2>1. CASE q = p
    BY <2>1, <1>1, <1>7 DEF ManagerInv, KnownOK, Alive, Unfinished, stopping, managerVars
  <2>2. CASE q # p
    BY <2>2, <1>1, <1>7 DEF ManagerInv, KnownOK, Alive, Unfinished, stopping, managerVars
  <2> QED BY <2>1, <2>2
<1>8. ASSUME NEW q \in Procs PROVE StageOK(q)'
  <2>1. CASE q = p BY <2>1, <1>1, <1>8 DEF StageOK
  <2>2. CASE q # p /\ saved' = saved BY <2>2, <1>1, <1>8 DEF ManagerInv, StageOK, Stage, OnFile
  <2>3. CASE q # p /\ saved' # saved
    <3> SUFFICES ASSUME proc[q].st = "serving", ~proc[q].told PROVE FALSE
      BY <2>3, <1>1 DEF StageOK
    <3>1. ~stopping /\ proc[p].st = "serving" BY <2>3, <1>8 DEF ManagerInv, KnownOK, Alive
    <3>2. ~proc[p].told BY <3>1, <1>1 DEF ManagerInv, KnownOK, Proc
    <3> QED BY <3>1, <3>2, <2>3, <1>8, OneRuns DEF Alive
  <2> QED BY <2>1, <2>2, <2>3
<1> QED BY <1>2, <1>3, <1>4, <1>5, <1>6, <1>7, <1>8 DEF ManagerInv

\* start() of the utility.
LEMMA BootStep ==
  ASSUME ManagerInv, NEW p \in Procs, Boot(p), UNCHANGED <<managerVars, crashes>>
  PROVE  ManagerInv'
<1> DEFINE net == IF saved = {} THEN proc[p].config ELSE CHOOSE c \in saved : TRUE
           served == [proc[p] EXCEPT !.st = "serving", !.net = net, !.at = net.addr,
                                     !.out = Posted(p, [type |-> "ready", net |-> net])]
           failed(b) == [proc[p] EXCEPT !.st = "ending", !.out = Posted(p, [type |-> "error", inUse |-> b])]
<1>1. /\ proc[p] \in Proc /\ proc[p].out \in Seq(Message) /\ proc \in [Procs -> Proc]
      /\ proc[p].st = "booting" /\ Alive(p) /\ saved' = saved /\ updates' = updates
  BY DEF ManagerInv, ManagerTypeOK, UtilityTypeOK, Proc, Boot, Alive
<1>2. net \in Config BY <1>1 DEF ManagerInv, ManagerTypeOK, UtilityTypeOK, Proc
<1>3. net.addr \in Addrs BY <1>2 DEF Config
<1>4. saved = {} \/ saved = {net} BY DEF ManagerInv, ManagerTypeOK, UtilityTypeOK
<1>5. /\ saved' \in SUBSET Config /\ (\A c, d \in saved' : c = d) /\ updates' \in 0..MaxUpdates
      /\ crashes' \in 0..MaxCrashes /\ UNCHANGED managerVars
  BY <1>1 DEF ManagerInv, ManagerTypeOK, UtilityTypeOK
<1>6. proc[p].told => stopping BY <1>1 DEF ManagerInv, KnownOK
<1>7. /\ served.st = "serving" /\ served.net = net /\ served.at = net.addr /\ served.told = proc[p].told
      /\ served.update = "no"
  BY <1>1 DEF Proc, ManagerInv, AttemptOK
<1>8. CASE proc' = [proc EXCEPT ![p] = served]
  <2>1. [type |-> "ready", net |-> net] \in Message BY <1>2 DEF Message
  <2>2. Posted(p, [type |-> "ready", net |-> net]) \in Seq(Message) BY <2>1, <1>1 DEF Posted
  <2>4. served \in Proc BY <2>2, <1>1, <1>2, <1>3 DEF Proc
  <2>3. Stage(served, saved') BY <1>7, <1>4, <1>1, <1>3, SlotFacts DEF Stage, OnFile
  <2> QED BY <1>8, <2>4, <2>3, <1>1, <1>5, <1>6, <1>7, ProcessStep
<1>9. ASSUME NEW b \in BOOLEAN, proc' = [proc EXCEPT ![p] = failed(b)] PROVE ManagerInv'
  <2>1. [type |-> "error", inUse |-> b] \in Message BY DEF Message
  <2>4. Posted(p, [type |-> "error", inUse |-> b]) \in Seq(Message) BY <2>1, <1>1 DEF Posted
  <2>2. failed(b) \in Proc BY <2>4, <1>1 DEF Proc
  <2>3. failed(b).st = "ending" /\ failed(b).told = proc[p].told BY <1>1 DEF Proc
  <2> QED BY <1>9, <2>2, <2>3, <1>1, <1>5, <1>6, ProcessStep
<1> QED BY <1>8, <1>9 DEF Boot

\* An update of the listener, by the steps that it takes.
LEMMA UpdateSteps ==
  ASSUME ManagerInv, NEW p \in Procs, UNCHANGED <<managerVars, crashes>>,
         UpdateStep(p) \/ \E next \in Config : BeginUpdate(p, next)
  PROVE  ManagerInv'
<1> DEFINE now == proc[p]
           To(u) == [now EXCEPT !.update = u]
           At(a, u) == [now EXCEPT !.at = a, !.update = u]
           Strayed == [now EXCEPT !.update = "no", !.astray = TRUE]
           Posting(net, out) == [now EXCEPT !.update = "no", !.net = net, !.out = out]
           Begun(next, a, u) == [now EXCEPT !.update = u, !.next = next, !.at = a]
           Updates == {"no", "rebind", "save", "post", "rebindBack", "saveBack"}
<1>1. /\ now \in Proc /\ now.out \in Seq(Message) /\ proc \in [Procs -> Proc]
      /\ now.net \in Config /\ now.next \in Config /\ now.net.addr \in Addrs /\ now.next.addr \in Addrs
      /\ saved \in SUBSET Config /\ (\A c, d \in saved : c = d) /\ updates \in 0..MaxUpdates
      /\ crashes' \in 0..MaxCrashes /\ UNCHANGED managerVars
  BY DEF ManagerInv, ManagerTypeOK, UtilityTypeOK, Proc, Config
<1>2. ASSUME NEW new \in Proc, proc' = [proc EXCEPT ![p] = new], now.st = "serving",
             new.st = "serving", new.told = now.told,
             saved' = saved \/ \E c \in Config : saved' = {c}, updates' \in 0..MaxUpdates,
             ~now.told /\ ~new.astray => Stage(new, saved')
      PROVE  ManagerInv'
  <2>1. saved' \in SUBSET Config /\ \A c, d \in saved' : c = d BY <1>1, <1>2
  <2>2. Alive(p) /\ now.told = new.told /\ now.st # "forked" BY <1>2 DEF Alive
  <2> QED BY <1>1, <1>2, <2>1, <2>2, ProcessStep
<1>3. now.st = "serving"
  BY DEF UpdateStep, BeginUpdate, Rebind, Save, SaveFails, Post, RebindBack, SaveBack
<1>4. ~now.told /\ ~now.astray => Stage(now, saved) BY <1>3 DEF ManagerInv, StageOK
<1>5. ASSUME NEW u \in Updates
      PROVE  /\ To(u) \in Proc /\ To(u).st = now.st /\ To(u).told = now.told /\ To(u).astray = now.astray
             /\ To(u).update = u /\ To(u).net = now.net /\ To(u).next = now.next /\ To(u).at = now.at
  BY <1>1, <1>5 DEF Proc
<1>6. ASSUME NEW u \in Updates, NEW a \in Addrs \cup {Nowhere}
      PROVE  /\ At(a, u) \in Proc /\ At(a, u).st = now.st /\ At(a, u).told = now.told /\ At(a, u).astray = now.astray
             /\ At(a, u).update = u /\ At(a, u).net = now.net /\ At(a, u).next = now.next /\ At(a, u).at = a
  BY <1>1, <1>6 DEF Proc
<1>7. Strayed \in Proc /\ Strayed.st = now.st /\ Strayed.told = now.told /\ Strayed.astray
  BY <1>1 DEF Proc
<1>8. ASSUME NEW net \in Config, NEW out \in Seq(Message)
      PROVE  /\ Posting(net, out) \in Proc /\ Posting(net, out).st = now.st /\ Posting(net, out).told = now.told
             /\ Posting(net, out).astray = now.astray /\ Posting(net, out).update = "no"
             /\ Posting(net, out).net = net /\ Posting(net, out).at = now.at
  BY <1>1, <1>8 DEF Proc
<1>9. ASSUME NEW next \in Config, NEW u \in Updates, NEW a \in Addrs \cup {Nowhere}
      PROVE  /\ Begun(next, a, u) \in Proc /\ Begun(next, a, u).st = now.st /\ Begun(next, a, u).told = now.told
             /\ Begun(next, a, u).astray = now.astray /\ Begun(next, a, u).update = u
             /\ Begun(next, a, u).net = now.net /\ Begun(next, a, u).next = next /\ Begun(next, a, u).at = a
  BY <1>1, <1>9 DEF Proc
<1>10. ASSUME NEW net \in Config
       PROVE  Posted(p, [type |-> "changed", net |-> net]) \in Seq(Message)
  <2>1. [type |-> "changed", net |-> net] \in Message BY <1>10 DEF Message
  <2> QED BY <2>1, <1>1 DEF Posted
<1>11. Nowhere \in Addrs \cup {Nowhere} /\ now.at \in Addrs \cup {Nowhere} /\ "no" \in Updates /\ "rebind" \in Updates
       /\ "save" \in Updates /\ "post" \in Updates /\ "rebindBack" \in Updates /\ "saveBack" \in Updates
  BY <1>1 DEF Proc
<1> HIDE DEF To, At, Strayed, Posting, Begun, Updates
<1>12. CASE \E next \in Config : BeginUpdate(p, next)
  <2>1. PICK next \in Config : BeginUpdate(p, next) BY <1>12
  <2>2. updates' \in 0..MaxUpdates /\ saved' = saved /\ now.update = "no"
    <3>1. updates < MaxUpdates /\ updates' = updates + 1 /\ saved' = saved /\ now.update = "no"
      BY <2>1 DEF BeginUpdate
    <3> QED BY <3>1, <1>1, UtilityAssumption
  <2>3. CASE next.addr # now.net.addr
    <3>1. proc' = [proc EXCEPT ![p] = Begun(next, Nowhere, "rebind")]
      BY <2>1, <2>3 DEF BeginUpdate, Begun
    <3>2. ~now.told /\ ~Begun(next, Nowhere, "rebind").astray => Stage(Begun(next, Nowhere, "rebind"), saved')
      BY <1>4, <1>9, <1>11, <2>2 DEF Stage, OnFile
    <3>3. Begun(next, Nowhere, "rebind") \in Proc /\ Begun(next, Nowhere, "rebind").st = now.st /\ Begun(next, Nowhere, "rebind").told = now.told
      BY <1>9, <1>11
    <3> QED BY <3>1, <3>2, <3>3, <1>2, <1>3, <2>2
  <2>4. CASE next.addr = now.net.addr
    <3>1. proc' = [proc EXCEPT ![p] = Begun(next, now.at, "save")]
      BY <2>1, <2>4 DEF BeginUpdate, Begun
    <3>2. ~now.told /\ ~Begun(next, now.at, "save").astray => Stage(Begun(next, now.at, "save"), saved')
      BY <1>4, <1>9, <1>11, <2>2, <2>4 DEF Stage, OnFile
    <3>3. Begun(next, now.at, "save") \in Proc /\ Begun(next, now.at, "save").st = now.st /\ Begun(next, now.at, "save").told = now.told
      BY <1>9, <1>11
    <3> QED BY <3>1, <3>2, <3>3, <1>2, <1>3, <2>2
  <2> QED BY <2>3, <2>4
<1>13. CASE Rebind(p)
  <2>1. saved' = saved /\ updates' \in 0..MaxUpdates /\ now.update = "rebind"
    BY <1>13, <1>1 DEF Rebind
  <2>2. CASE proc' = [proc EXCEPT ![p] = At(now.next.addr, "save")]
    <3>1. ~now.told /\ ~At(now.next.addr, "save").astray => Stage(At(now.next.addr, "save"), saved')
      BY <1>1, <1>4, <1>6, <1>11, <2>1 DEF Stage, OnFile
    <3>2. At(now.next.addr, "save") \in Proc /\ At(now.next.addr, "save").st = now.st /\ At(now.next.addr, "save").told = now.told
      BY <1>1, <1>6, <1>11
    <3> QED BY <2>2, <3>1, <3>2, <1>2, <1>3, <2>1
  <2>3. CASE proc' = [proc EXCEPT ![p] = At(now.net.addr, "no")]
    <3>1. ~now.told /\ ~At(now.net.addr, "no").astray => Stage(At(now.net.addr, "no"), saved')
      BY <1>1, <1>4, <1>6, <1>11, <2>1 DEF Stage, OnFile
    <3>2. At(now.net.addr, "no") \in Proc /\ At(now.net.addr, "no").st = now.st /\ At(now.net.addr, "no").told = now.told
      BY <1>1, <1>6, <1>11
    <3> QED BY <2>3, <3>1, <3>2, <1>2, <1>3, <2>1
  <2>4. CASE proc' = [proc EXCEPT ![p] = To("no")]
    <3>1. ~now.told /\ ~To("no").astray => Stage(To("no"), saved')
      BY <1>1, <1>4, <1>5, <1>11, <2>1 DEF Stage, OnFile
    <3> QED BY <2>4, <3>1, <1>2, <1>3, <1>5, <1>11, <2>1
  <2> QED BY <1>13, <2>2, <2>3, <2>4 DEF Rebind, At, To
<1>14. CASE Save(p)
  <2>1. saved' = {now.next} /\ updates' \in 0..MaxUpdates /\ now.update = "save"
        /\ proc' = [proc EXCEPT ![p] = To("post")]
    BY <1>14, <1>1 DEF Save, To
  <2>2. ~now.told /\ ~To("post").astray => Stage(To("post"), saved')
    BY <1>4, <1>5, <1>11, <2>1 DEF Stage
  <2> QED BY <1>1, <1>2, <1>3, <1>5, <1>11, <2>1, <2>2
<1>15. CASE SaveFails(p)
  <2>1. saved' \in {saved, {now.next}} /\ updates' \in 0..MaxUpdates /\ now.update = "save"
    BY <1>15, <1>1 DEF SaveFails
  <2>2. CASE now.next.addr = now.net.addr
    <3>1. proc' = [proc EXCEPT ![p] = To("saveBack")] BY <1>15, <2>2 DEF SaveFails, To
    <3>2. ~now.told /\ ~To("saveBack").astray => Stage(To("saveBack"), saved')
      BY <1>4, <1>5, <1>11, <2>1, <2>2 DEF Stage
    <3> QED BY <3>1, <3>2, <1>1, <1>2, <1>3, <1>5, <1>11, <2>1
  <2>3. CASE now.next.addr # now.net.addr
    <3>1. proc' = [proc EXCEPT ![p] = At(Nowhere, "rebindBack")] BY <1>15, <2>3 DEF SaveFails, At
    <3>2. ~now.told /\ ~At(Nowhere, "rebindBack").astray => Stage(At(Nowhere, "rebindBack"), saved')
      BY <1>6, <1>11 DEF Stage
    <3> QED BY <3>1, <3>2, <1>1, <1>2, <1>3, <1>6, <1>11, <2>1
  <2> QED BY <2>2, <2>3
<1>16. CASE Post(p)
  <2> DEFINE out == Posted(p, [type |-> "changed", net |-> now.next])
  <2>1. saved' = saved /\ updates' \in 0..MaxUpdates /\ now.update = "post" /\ out \in Seq(Message)
    BY <1>16, <1>1, <1>10 DEF Post
  <2>2. proc' = [proc EXCEPT ![p] = Posting(now.next, out)] BY <1>16 DEF Post, Posting
  <2> HIDE DEF out
  <2>3. ~now.told /\ ~Posting(now.next, out).astray => Stage(Posting(now.next, out), saved')
    BY <1>1, <1>4, <1>8, <2>1 DEF Stage, OnFile
  <2> QED BY <2>1, <2>2, <2>3, <1>1, <1>2, <1>3, <1>8
<1>17. CASE RebindBack(p)
  <2>1. saved' = saved /\ updates' \in 0..MaxUpdates /\ now.update = "rebindBack"
    BY <1>17, <1>1 DEF RebindBack
  <2>2. CASE proc' = [proc EXCEPT ![p] = At(now.net.addr, "saveBack")]
    <3>1. ~now.told /\ ~At(now.net.addr, "saveBack").astray => Stage(At(now.net.addr, "saveBack"), saved')
      BY <1>1, <1>6, <1>11 DEF Stage
    <3>2. At(now.net.addr, "saveBack") \in Proc /\ At(now.net.addr, "saveBack").st = now.st /\ At(now.net.addr, "saveBack").told = now.told
      BY <1>1, <1>6, <1>11
    <3> QED BY <2>2, <3>1, <3>2, <1>2, <1>3, <2>1
  <2>3. CASE proc' = [proc EXCEPT ![p] = Strayed] BY <2>3, <1>2, <1>3, <1>7, <2>1
  <2> QED BY <1>17, <2>2, <2>3 DEF RebindBack, At, Strayed
<1>18. CASE SaveBack(p)
  <2> DEFINE out == Posted(p, [type |-> "changed", net |-> now.net])
  <2>1. updates' \in 0..MaxUpdates /\ now.update = "saveBack" /\ out \in Seq(Message)
    BY <1>18, <1>1, <1>10 DEF SaveBack
  <2>2. CASE saved' = {now.net} /\ proc' = [proc EXCEPT ![p] = [now EXCEPT !.update = "no", !.out = out]]
    <3>1. [now EXCEPT !.update = "no", !.out = out] = Posting(now.net, out)
      BY <1>1 DEF Posting, Proc
    <3> HIDE DEF out
    <3>2. ~now.told /\ ~Posting(now.net, out).astray => Stage(Posting(now.net, out), saved')
      BY <1>1, <1>4, <1>8, <2>1, <2>2 DEF Stage, OnFile
    <3>3. Posting(now.net, out) \in Proc /\ Posting(now.net, out).st = now.st /\ Posting(now.net, out).told = now.told
      BY <1>1, <1>8, <2>1
    <3> QED BY <2>1, <2>2, <3>1, <3>2, <3>3, <1>1, <1>2, <1>3
  <2>3. CASE saved' \in {saved, {now.net}} /\ proc' = [proc EXCEPT ![p] = Strayed]
    BY <2>1, <2>3, <1>1, <1>2, <1>3, <1>7
  <2> QED BY <1>18, <2>2, <2>3 DEF SaveBack, Strayed
<1> QED BY <1>12, <1>13, <1>14, <1>15, <1>16, <1>17, <1>18 DEF UpdateStep

\* A process ends, or crashes.
LEMMA GoneStep ==
  ASSUME ManagerInv, NEW p \in Procs, Exit(p) \/ Crash(p), UNCHANGED managerVars, crashes' \in 0..MaxCrashes
  PROVE  ManagerInv'
<1> DEFINE new == [proc[p] EXCEPT !.st = "gone", !.at = Nowhere]
<1>1. /\ proc[p] \in Proc /\ Alive(p) /\ saved' = saved /\ updates' = updates
      /\ proc' = [proc EXCEPT ![p] = new]
  BY DEF ManagerInv, ManagerTypeOK, UtilityTypeOK, Exit, Crash
<1>2. new \in Proc /\ new.st = "gone" /\ new.told = proc[p].told BY <1>1 DEF Proc
<1>3. /\ saved' \in SUBSET Config /\ (\A c, d \in saved' : c = d) /\ updates' \in 0..MaxUpdates
  BY <1>1 DEF ManagerInv, ManagerTypeOK, UtilityTypeOK
<1> HIDE DEF new
<1> QED BY <1>1, <1>2, <1>3, ProcessStep

\* A process is forked while nothing else is under way.
LEMMA ForkStep ==
  ASSUME ManagerInv, NEW a \in Addrs, NEW attempts \in [Procs -> AttemptSteps], Fork(a, proc, attempts),
         \A q \in Procs : attempts[q] = attempt[q] \/ (attempts[q] = "over" /\ attempt[q] \in {"failed", "inUse"}),
         \A q \in Procs : attempts[q] \notin {"open", "probing", "failed", "inUse"},
         UNCHANGED <<saved, updates, child, address, desired, failures, stop, gaveUp, crashes>>,
         child = NoProc, failures <= MaxDelays, timers' \subseteq timers, "restart" \notin timers',
         start' \in [pc : {"running", "ready", "failed"}, offset : 0..Len(Scan)]
  PROVE  ManagerInv'
<1> DEFINE new == [UnusedProc EXCEPT !.st = "forked", !.config = [addr |-> a, access |-> desired.access]]
<1>1. PICK p \in Procs : /\ proc[p].st = "unused" /\ attemptChild' = p
                         /\ proc' = [proc EXCEPT ![p] = new]
                         /\ attempt' = [attempts EXCEPT ![p] = "open"]
  BY DEF Fork
<1>2. desired \in Config /\ [addr |-> a, access |-> desired.access] \in Config
  BY DEF ManagerInv, ManagerTypeOK, Config
<1>3. /\ new \in Proc /\ new.st = "forked" /\ ~new.told /\ new.out = <<>> /\ new.update = "no"
  BY <1>2, SlotFacts DEF Proc, UnusedProc
<1> HIDE DEF new
<1>4. /\ proc \in [Procs -> Proc] /\ proc' \in [Procs -> Proc] /\ proc'[p] = new
      /\ attempt' \in [Procs -> AttemptSteps] /\ attempt'[p] = "open"
      /\ \A q \in Procs : q # p => proc'[q] = proc[q] /\ attempt'[q] = attempts[q]
  BY <1>1, <1>3 DEF ManagerInv, ManagerTypeOK, UtilityTypeOK, AttemptSteps
<1>5. ManagerTypeOK'
  <2>1. UtilityTypeOK' BY <1>4 DEF ManagerInv, ManagerTypeOK, UtilityTypeOK
  <2>2. timers' \in SUBSET {"restart", "stable"} /\ attemptChild' \in Procs \cup {NoProc}
    BY <1>1 DEF ManagerInv, ManagerTypeOK
  <2>3. start' \in [pc : {"idle", "running", "ready", "failed"}, offset : 0..Len(Scan)] OBVIOUS
  <2> QED BY <1>4, <2>1, <2>2, <2>3 DEF ManagerInv, ManagerTypeOK, AttemptSteps
<1>6. NothingAfterStop' /\ ChildOK' /\ TimerOK' /\ IdleOK'
  BY DEF ManagerInv, NothingAfterStop, ChildOK, TimerOK, IdleOK, stopping
<1>7. start'.pc # "idle" OBVIOUS
<1>8. NothingElse' BY <1>7 DEF NothingElse
<1>9. ASSUME NEW q \in Procs PROVE Pending(q)' <=> q = p BY <1>4, <1>9 DEF Pending
<1>10. ASSUME NEW q \in Procs, q # p
       PROVE  AttemptOK(q)' /\ KnownOK(q)' /\ StageOK(q)'
  <2>1. AttemptOK(q) /\ KnownOK(q) /\ StageOK(q) /\ proc'[q] = proc[q]
        /\ (attempt'[q] = attempt[q] \/ (attempt'[q] = "over" /\ attempt[q] \in {"failed", "inUse"}))
    BY <1>4, <1>10 DEF ManagerInv
  <2>2. AttemptOK(q)' BY <2>1 DEF AttemptOK
  <2>3. KnownOK(q)' BY <2>1, <1>4, <1>10 DEF KnownOK, Unfinished, Alive, stopping
  <2>4. StageOK(q)' BY <2>1 DEF StageOK, Stage, OnFile
  <2> QED BY <2>2, <2>3, <2>4
<1>11. AttemptOK(p)' /\ KnownOK(p)' /\ StageOK(p)'
  BY <1>1, <1>3, <1>4 DEF AttemptOK, KnownOK, StageOK, Unfinished, Alive, stopping
<1> QED BY <1>5, <1>6, <1>8, <1>9, <1>10, <1>11 DEF ManagerInv, PendingOK

\* The first start, and a restart.
LEMMA StartStep ==
  ASSUME ManagerInv, StartServer \/ RestartTimerFires
  PROVE  ManagerInv'
<1>1. attempt \in [Procs -> AttemptSteps] /\ start \in [pc : {"idle", "running", "ready", "failed"}, offset : 0..Len(Scan)]
      /\ desired.addr \in Addrs
  BY DEF ManagerInv, ManagerTypeOK, AttemptSteps, Config
<1>2. CASE StartServer
  <2>1. child = NoProc /\ "restart" \notin timers /\ \A q \in Procs : ~Pending(q)
    BY <1>2 DEF ManagerInv, ChildOK, TimerOK, PendingOK, NothingElse, StartServer
  <2>2. failures <= MaxDelays BY <1>2, ManagerAssumption DEF ManagerInv, IdleOK, StartServer
  <2>3. Len(Scan) \in Nat /\ Scan[1] \in Addrs /\ 1 \in 0..Len(Scan) BY ManagerAssumption, SlotFacts
  <2>4. start' \in [pc : {"running", "ready", "failed"}, offset : 0..Len(Scan)]
    BY <1>2, <2>3 DEF StartServer
  <2> QED BY <1>1, <1>2, <2>1, <2>2, <2>3, <2>4, ForkStep DEF StartServer, Pending
<1>3. CASE RestartTimerFires
  <2>1. child = NoProc /\ (\A q \in Procs : ~Pending(q)) /\ failures <= MaxDelays /\ start.pc \notin {"idle", "running"}
    BY <1>3 DEF ManagerInv, ChildOK, TimerOK, PendingOK, NothingElse, RestartTimerFires
  <2>2. start' \in [pc : {"running", "ready", "failed"}, offset : 0..Len(Scan)]
    BY <1>1, <1>3, <2>1 DEF RestartTimerFires
  <2>3. timers' \subseteq timers /\ "restart" \notin timers' BY <1>3 DEF RestartTimerFires
  <2> QED BY <1>1, <1>3, <2>1, <2>2, <2>3, ForkStep DEF RestartTimerFires, Pending
<1> QED BY <1>2, <1>3

\* fail(): the attempt ends, and its process makes no other step.
LEMMA FailStep ==
  ASSUME ManagerInv, NEW p \in Procs, Unfinished(p), NEW why \in {"failed", "inUse"}, NEW new \in Proc,
         new.told \/ new.st = "gone", new.st = IF proc[p].st = "gone" THEN "gone" ELSE "ending",
         attempt' = [attempt EXCEPT ![p] = why],
         attemptChild' = IF attemptChild = p THEN NoProc ELSE attemptChild,
         proc' = [proc EXCEPT ![p] = new],
         UNCHANGED <<saved, updates, child, address, desired, failures, timers, start, stop, gaveUp, crashes>>
  PROVE  ManagerInv'
<1>1. /\ proc \in [Procs -> Proc] /\ proc' \in [Procs -> Proc] /\ proc'[p] = new
      /\ attempt' \in [Procs -> AttemptSteps] /\ attempt'[p] = why /\ Pending(p)
      /\ \A q \in Procs : q # p => proc'[q] = proc[q] /\ attempt'[q] = attempt[q]
  BY DEF ManagerInv, ManagerTypeOK, UtilityTypeOK, AttemptSteps, Pending, Unfinished
<1>2. ManagerTypeOK' BY <1>1, SlotFacts DEF ManagerInv, ManagerTypeOK, UtilityTypeOK, AttemptSteps
<1>3. child = NoProc /\ (\A q \in Procs : Pending(q) => q = p) /\ NothingElse
  BY <1>1 DEF ManagerInv, PendingOK, NothingElse
<1>4. NothingAfterStop' /\ ChildOK' /\ TimerOK' /\ IdleOK'
  BY <1>3 DEF ManagerInv, NothingAfterStop, ChildOK, TimerOK, IdleOK, stopping
<1>5. ASSUME NEW q \in Procs PROVE PendingOK(q)'
  <2>1. NothingElse' BY <1>3 DEF NothingElse
  <2>2. \A r \in Procs : Pending(r)' => Pending(r) \/ r = p BY <1>1 DEF Pending
  <2> QED BY <2>1, <2>2, <1>3 DEF PendingOK
<1>6. ASSUME NEW q \in Procs, q # p
       PROVE  AttemptOK(q)' /\ KnownOK(q)' /\ StageOK(q)'
  <2>1. AttemptOK(q) /\ KnownOK(q) /\ StageOK(q) /\ proc'[q] = proc[q] /\ attempt'[q] = attempt[q] /\ ~Pending(q)
    BY <1>1, <1>3, <1>6 DEF ManagerInv
  <2>2. AttemptOK(q)' BY <2>1 DEF AttemptOK
  <2>3. KnownOK(q)' BY <2>1 DEF KnownOK, Unfinished, Alive, stopping, Pending
  <2>4. StageOK(q)' BY <2>1 DEF StageOK, Stage, OnFile
  <2> QED BY <2>2, <2>3, <2>4
<1>7. AttemptOK(p)' /\ KnownOK(p)' /\ StageOK(p)'
  BY <1>1 DEF AttemptOK, KnownOK, StageOK, Unfinished, Alive, stopping, ManagerInv
<1> QED BY <1>2, <1>4, <1>5, <1>6, <1>7 DEF ManagerInv

\* What kill() makes of a process whose attempt has a slot.
LEMMA KilledFacts ==
  ASSUME ManagerInv, NEW p \in Procs, Unfinished(p), NEW out \in Seq(Message)
  PROVE  LET new == Killed([proc[p] EXCEPT !.out = out]) IN
         /\ new \in Proc /\ new.told /\ new.st = IF proc[p].st = "gone" THEN "gone" ELSE "ending"
<1>1. proc[p] \in Proc /\ proc[p].st # "unused"
  BY DEF ManagerInv, ManagerTypeOK, UtilityTypeOK, AttemptOK, Unfinished
<1> QED BY <1>1 DEF Killed, Proc

LEMMA AttemptFailsStep ==
  ASSUME ManagerInv, NEW p \in Procs, Unfinished(p), Fail(p, "failed"), UNCHANGED crashes
  PROVE  ManagerInv'
<1>1. proc[p] \in Proc /\ proc[p].out \in Seq(Message)
  BY DEF ManagerInv, ManagerTypeOK, UtilityTypeOK, Proc
<1>2. [proc[p] EXCEPT !.out = proc[p].out] = proc[p] BY <1>1 DEF Proc
<1> DEFINE new == Killed(proc[p])
<1>3. new \in Proc /\ new.told /\ new.st = IF proc[p].st = "gone" THEN "gone" ELSE "ending"
  BY <1>1, <1>2, KilledFacts
<1>4. proc' = [proc EXCEPT ![p] = new] BY DEF Fail
<1> HIDE DEF new
<1> QED BY <1>3, <1>4, FailStep DEF Fail

LEMMA SpawnedStep ==
  ASSUME ManagerInv, NEW p \in Procs, Spawned(p)
  PROVE  ManagerInv'
<1>1. proc[p] \in Proc /\ proc[p].st = "forked" /\ ~proc[p].told /\ Alive(p)
  BY DEF ManagerInv, ManagerTypeOK, UtilityTypeOK, Spawned, Alive
<1>2. Unfinished(p) BY <1>1 DEF ManagerInv, ManagerTypeOK, AttemptOK, Unfinished
<1>3. CASE stopping BY <1>2, <1>3, AttemptFailsStep DEF Spawned
<1>4. CASE ~stopping
  <2> DEFINE new == [proc[p] EXCEPT !.st = "booting"]
  <2>1. new \in Proc /\ new.st = "booting" /\ ~new.told /\ new.told = proc[p].told /\ new.out = proc[p].out /\ new.update = proc[p].update
    BY <1>1 DEF Proc
  <2>2. proc[p].out = <<>> /\ proc[p].update = "no" BY <1>1 DEF ManagerInv, AttemptOK
  <2>3. proc' = [proc EXCEPT ![p] = new] /\ UNCHANGED <<saved, updates, managerVars, crashes>>
    BY <1>4 DEF Spawned
  <2>4. saved' \in SUBSET Config /\ (\A c, d \in saved' : c = d) /\ updates' \in 0..MaxUpdates /\ crashes' \in 0..MaxCrashes
    BY <2>3 DEF ManagerInv, ManagerTypeOK, UtilityTypeOK
  <2> HIDE DEF new
  <2> QED BY <1>1, <1>4, <2>1, <2>2, <2>3, <2>4, ProcessStep
<1> QED BY <1>3, <1>4

\* The next message of a utility process.
LEMMA MessageStep ==
  ASSUME ManagerInv, NEW p \in Procs, MessageArrives(p)
  PROVE  ManagerInv'
<1> DEFINE message == Head(proc[p].out)
           read == [proc[p] EXCEPT !.out = Tail(proc[p].out)]
<1>1. /\ proc[p] \in Proc /\ proc \in [Procs -> Proc] /\ proc[p].out # <<>> /\ proc[p].out \in Seq(Message)
      /\ UNCHANGED <<saved, updates, child, failures, timers, start, stop, gaveUp, crashes>>
  BY DEF ManagerInv, ManagerTypeOK, UtilityTypeOK, Proc, MessageArrives
<1>2. message \in Message /\ Tail(proc[p].out) \in Seq(Message) BY <1>1
<1>3. /\ read \in Proc /\ read.st = proc[p].st /\ read.told = proc[p].told /\ read.update = proc[p].update
      /\ read.net = proc[p].net /\ read.next = proc[p].next /\ read.at = proc[p].at /\ read.astray = proc[p].astray
  BY <1>1, <1>2 DEF Proc
<1>4. proc[p].st \in {"serving", "ending", "gone"} BY <1>1 DEF ManagerInv, AttemptOK
<1>5. ASSUME proc' = [proc EXCEPT ![p] = read], desired' \in Config, address' \in Addrs \cup {Nowhere},
             UNCHANGED attemptChild,
             attempt' = attempt \/ (attempt' = [attempt EXCEPT ![p] = "probing"] /\ attempt[p] = "open")
      PROVE  ManagerInv'
  <2> HIDE DEF read, message
  <2>1. /\ proc' \in [Procs -> Proc] /\ proc'[p] = read /\ attempt' \in [Procs -> AttemptSteps]
        /\ \A q \in Procs : q # p => proc'[q] = proc[q] /\ attempt'[q] = attempt[q]
        /\ attempt'[p] = attempt[p] \/ (attempt'[p] = "probing" /\ attempt[p] = "open")
    BY <1>1, <1>3, <1>5 DEF ManagerInv, ManagerTypeOK, AttemptSteps
  <2>2. ManagerTypeOK'
    BY <1>1, <1>5, <2>1 DEF ManagerInv, ManagerTypeOK, UtilityTypeOK, AttemptSteps
  <2>3. NothingAfterStop' /\ TimerOK' /\ IdleOK'
    BY <1>1 DEF ManagerInv, NothingAfterStop, TimerOK, IdleOK, stopping
  <2>4. ChildOK' BY <1>1, <1>3, <2>1 DEF ManagerInv, ManagerTypeOK, ChildOK
  <2>5. \A q \in Procs : Pending(q)' <=> Pending(q) BY <2>1 DEF Pending
  <2>6. \A q \in Procs : PendingOK(q)' BY <1>1, <2>5 DEF ManagerInv, PendingOK, NothingElse
  <2>7. ASSUME NEW q \in Procs PROVE AttemptOK(q)' /\ KnownOK(q)' /\ StageOK(q)'
    <3>1. CASE q # p
      <4>1. AttemptOK(q) /\ KnownOK(q) /\ StageOK(q) /\ proc'[q] = proc[q] /\ attempt'[q] = attempt[q]
        BY <2>1, <3>1, <2>7 DEF ManagerInv
      <4>2. AttemptOK(q)' BY <4>1 DEF AttemptOK
      <4>3. KnownOK(q)' BY <4>1, <1>1, <1>5 DEF KnownOK, Unfinished, Alive, stopping
      <4>4. StageOK(q)' BY <4>1, <1>1 DEF StageOK, Stage, OnFile
      <4> QED BY <4>2, <4>3, <4>4
    <3>2. CASE q = p
      <4>1. AttemptOK(p) /\ KnownOK(p) /\ StageOK(p) BY DEF ManagerInv
      <4>2. AttemptOK(p)' BY <4>1, <1>3, <1>4, <2>1 DEF AttemptOK
      <4>3. KnownOK(p)'
        BY <4>1, <1>1, <1>3, <1>4, <1>5, <2>1 DEF KnownOK, Unfinished, Alive, stopping
      <4>4. StageOK(p)' BY <4>1, <1>1, <1>3, <2>1 DEF StageOK, Stage, OnFile
      <4> QED BY <3>2, <4>2, <4>3, <4>4
    <3> QED BY <3>1, <3>2
  <2> QED BY <2>2, <2>3, <2>4, <2>6, <2>7 DEF ManagerInv
<1>6. desired \in Config /\ address \in Addrs \cup {Nowhere} BY DEF ManagerInv, ManagerTypeOK
<1>7. [proc EXCEPT ![p].out = Tail(@)] = [proc EXCEPT ![p] = read] BY <1>1
<1>8. CASE message.type = "changed"
  <2>1. message.net \in Config /\ message.net.addr \in Addrs BY <1>2, <1>8 DEF Message, Config
  <2> QED BY <1>5, <1>6, <1>7, <1>8, <2>1 DEF MessageArrives
<1>9. CASE message.type # "changed" /\ attempt[p] # "open"
  BY <1>5, <1>6, <1>7, <1>9 DEF MessageArrives
<1>10. CASE message.type # "changed" /\ attempt[p] = "open"
  <2> DEFINE expected == message.type = "ready" /\ message.net.addr = proc[p].config.addr
             why == IF message.type = "error" /\ message.inUse THEN "inUse" ELSE "failed"
  <2>1. CASE expected BY <1>5, <1>6, <1>7, <1>10, <2>1 DEF MessageArrives
  <2>2. CASE ~expected
    <3> DEFINE new == Killed(read)
    <3>1. proc' = [proc EXCEPT ![p] = new]
      <4>1. proc' = [[proc EXCEPT ![p] = read] EXCEPT ![p] = Killed(@)]
        BY <1>7, <1>10, <2>2 DEF MessageArrives
      <4> QED BY <4>1, <1>1
    <3>2. attempt' = [attempt EXCEPT ![p] = why] /\ why \in {"failed", "inUse"}
          /\ attemptChild' = (IF attemptChild = p THEN NoProc ELSE attemptChild) /\ UNCHANGED <<desired, address>>
      BY <1>10, <2>2 DEF MessageArrives
    <3>3. Unfinished(p) BY <1>10 DEF Unfinished
    <3>4. new \in Proc /\ new.told /\ new.st = IF proc[p].st = "gone" THEN "gone" ELSE "ending"
      BY <1>2, <3>3, KilledFacts
    <3> HIDE DEF new, why
    <3> QED BY <1>1, <3>1, <3>2, <3>3, <3>4, FailStep
  <2> QED BY <2>1, <2>2
<1> QED BY <1>8, <1>9, <1>10

\* The process that answered is the server.
LEMMA AdoptStep ==
  ASSUME ManagerInv, NEW p \in Procs, Adopt(p)
  PROVE  ManagerInv'
<1>1. /\ proc[p] \in Proc /\ proc[p].config.addr \in Addrs /\ desired \in Config
      /\ attempt \in [Procs -> AttemptSteps] /\ attempt[p] = "probing" /\ ~stopping
      /\ start \in [pc : {"idle", "running", "ready", "failed"}, offset : 0..Len(Scan)]
  BY DEF ManagerInv, ManagerTypeOK, UtilityTypeOK, Proc, Config, AttemptSteps, Adopt
<1>2. Pending(p) /\ NothingElse /\ \A q \in Procs : Pending(q) => q = p
  BY <1>1 DEF ManagerInv, PendingOK, Pending
<1>3. /\ attempt' \in [Procs -> AttemptSteps] /\ attempt'[p] = "adopted"
      /\ \A q \in Procs : q # p => attempt'[q] = attempt[q]
      /\ child' = p /\ UNCHANGED <<proc, saved, updates, stop, gaveUp, crashes>>
  <2>1. attempt' = [attempt EXCEPT ![p] = "adopted"] /\ "adopted" \in AttemptSteps
    BY DEF Adopt, AttemptSteps
  <2> QED BY <1>1, <2>1 DEF Adopt
<1>4. desired' \in Config BY <1>1 DEF Adopt, Config
<1>5. /\ start' \in [pc : {"idle", "running", "ready", "failed"}, offset : 0..Len(Scan)]
      /\ start'.pc \notin {"idle", "running"}
  BY <1>1, <1>2 DEF Adopt, NothingElse
<1>6. failures' \in 0..MaxDelays + 1 /\ failures' <= MaxDelays
  BY <1>2, ManagerAssumption DEF ManagerInv, ManagerTypeOK, NothingElse, Adopt
<1>7. timers' \in SUBSET {"restart", "stable"} /\ "restart" \notin timers'
  BY <1>2 DEF ManagerInv, ManagerTypeOK, NothingElse, Adopt
<1>8. attemptChild' \in Procs \cup {NoProc} /\ address' \in Addrs \cup {Nowhere}
  BY <1>1 DEF ManagerInv, ManagerTypeOK, Adopt
<1>9. ManagerTypeOK'
  BY <1>3, <1>4, <1>5, <1>6, <1>7, <1>8 DEF ManagerInv, ManagerTypeOK, UtilityTypeOK, AttemptSteps
<1>10. NothingAfterStop' /\ TimerOK' /\ IdleOK'
  BY <1>1, <1>3, <1>5, <1>7 DEF NothingAfterStop, TimerOK, IdleOK, stopping
<1>11. ~proc[p].told BY <1>1 DEF ManagerInv, KnownOK
<1>13. ChildOK' BY <1>3, <1>5, <1>6, <1>7, <1>11 DEF ChildOK
<1>14. ASSUME NEW q \in Procs PROVE AttemptOK(q)' /\ PendingOK(q)' /\ KnownOK(q)' /\ StageOK(q)'
  <2>1. ~Pending(q)' BY <1>2, <1>3, <1>14 DEF Pending
  <2>2. AttemptOK(q)' BY <1>1, <1>3, <1>14 DEF ManagerInv, AttemptOK
  <2>3. attempt[q] # "adopted" BY <1>1, <1>2, <1>14, SlotFacts DEF ManagerInv, KnownOK, NothingElse
  <2>4. KnownOK(q)'
    BY <1>1, <1>3, <1>14, <2>1, <2>3 DEF ManagerInv, KnownOK, Pending, Unfinished, Alive, stopping
  <2>5. StageOK(q)' BY <1>3, <1>14 DEF ManagerInv, StageOK, Stage, OnFile
  <2> QED BY <2>1, <2>2, <2>4, <2>5 DEF PendingOK
<1> QED BY <1>9, <1>10, <1>13, <1>14 DEF ManagerInv

\* The adopted process has exited, or an attempt failed: the next attempt is due later.
LEMMA BackoffFacts ==
  ASSUME ManagerInv, NEW kept \in SUBSET timers, "restart" \notin kept, failures <= MaxDelays, Backoff(kept)
  PROVE  /\ failures' \in 0..MaxDelays + 1 /\ gaveUp' \in BOOLEAN
         /\ timers' \subseteq kept \cup {"restart"}
         /\ stopping => timers' = kept
         /\ "restart" \in timers' => failures' <= MaxDelays
<1>1. failures' \in 0..MaxDelays + 1 /\ failures' = failures + 1 /\ MaxDelays \in Nat
  BY ManagerAssumption DEF ManagerInv, ManagerTypeOK, Backoff
<1>2. CASE stopping BY <1>1, <1>2 DEF Backoff, ManagerInv, ManagerTypeOK
<1>3. CASE ~stopping
  <2>1. /\ timers' = (IF failures' > MaxDelays THEN kept ELSE kept \cup {"restart"})
        /\ gaveUp' = (failures' > MaxDelays)
    BY <1>3 DEF Backoff
  <2>2. gaveUp' \in BOOLEAN BY <2>1
  <2> QED BY <1>1, <1>3, <2>1, <2>2
<1> QED BY <1>2, <1>3

\* An exit event frees a slot, or ends an attempt.
LEMMA ExitStep ==
  ASSUME ManagerInv, NEW p \in Procs, ExitHandled(p)
  PROVE  ManagerInv'
<1>1. /\ proc[p] \in Proc /\ proc \in [Procs -> Proc] /\ proc[p].st = "gone"
      /\ attempt \in [Procs -> AttemptSteps] /\ attempt[p] \in {"open", "probing", "adopted", "over"}
      /\ UNCHANGED <<saved, updates, desired, start, stop, crashes>>
  BY DEF ManagerInv, ManagerTypeOK, UtilityTypeOK, AttemptSteps, ExitHandled
<1>2. CASE Unfinished(p)
  <2>1. /\ attempt' = [attempt EXCEPT ![p] = "failed"] /\ UNCHANGED <<proc, child, address, failures, timers, gaveUp>>
        /\ attemptChild' = IF attemptChild = p THEN NoProc ELSE attemptChild
    BY <1>2 DEF ExitHandled
  <2>2. proc' = [proc EXCEPT ![p] = proc[p]] BY <1>1, <2>1
  <2> QED BY <1>1, <1>2, <2>1, <2>2, FailStep
<1>3. CASE ~Unfinished(p)
  <2>1. /\ proc' = [proc EXCEPT ![p] = UnusedProc] /\ attempt' = [attempt EXCEPT ![p] = "none"] /\ UNCHANGED attemptChild
    BY <1>3 DEF ExitHandled, Freed
  <2>2. /\ proc' \in [Procs -> Proc] /\ proc'[p] = UnusedProc /\ attempt' \in [Procs -> AttemptSteps] /\ attempt'[p] = "none"
        /\ \A q \in Procs : q # p => proc'[q] = proc[q] /\ attempt'[q] = attempt[q]
    BY <1>1, <2>1, SlotFacts DEF AttemptSteps
  <2>3. ~Pending(p) BY <1>1, <1>3 DEF Pending, Unfinished
  <2>4. \A q \in Procs : Pending(q)' <=> Pending(q) BY <2>2, <2>3 DEF Pending
  <2>5. ASSUME NEW q \in Procs, child' = child \/ (child = p /\ child' = NoProc)
        PROVE  AttemptOK(q)' /\ KnownOK(q)' /\ StageOK(q)'
    <3>1. CASE q = p BY <3>1, <2>2 DEF AttemptOK, KnownOK, StageOK, UnusedProc, Unfinished, Alive
    <3>2. CASE q # p
      <4>1. AttemptOK(q) /\ KnownOK(q) /\ StageOK(q) /\ proc'[q] = proc[q] /\ attempt'[q] = attempt[q]
        BY <2>2, <3>2, <2>5 DEF ManagerInv
      <4>2. AttemptOK(q)' BY <4>1 DEF AttemptOK
      <4>3. KnownOK(q)' BY <4>1, <2>5, <3>2, <1>1, <2>1 DEF KnownOK, Unfinished, Alive, stopping
      <4>4. StageOK(q)' BY <4>1, <1>1 DEF StageOK, Stage, OnFile
      <4> QED BY <4>2, <4>3, <4>4
    <3> QED BY <3>1, <3>2
  <2>6. CASE attempt[p] = "adopted" /\ child = p
    <3> DEFINE kept == timers \ {"stable"}
    <3>1. child # NoProc /\ ~stopping /\ "restart" \notin timers /\ start.pc \notin {"idle", "running"} /\ failures <= MaxDelays
      BY <2>6, SlotFacts DEF ManagerInv, ChildOK, NothingAfterStop
    <3>2. child' = NoProc /\ address' = Nowhere /\ Backoff(kept) BY <1>3, <2>6, <3>1 DEF ExitHandled
    <3>3. kept \in SUBSET timers /\ "restart" \notin kept BY <3>1
    <3> HIDE DEF kept
    <3>4. /\ failures' \in 0..MaxDelays + 1 /\ gaveUp' \in BOOLEAN /\ timers' \subseteq kept \cup {"restart"}
          /\ "restart" \in timers' => failures' <= MaxDelays
      BY <3>1, <3>2, <3>3, BackoffFacts
    <3>5. ManagerTypeOK'
      BY <1>1, <2>1, <2>2, <3>2, <3>3, <3>4 DEF ManagerInv, ManagerTypeOK, UtilityTypeOK, AttemptSteps
    <3>6. NothingAfterStop' /\ TimerOK' /\ IdleOK' /\ ChildOK'
      BY <1>1, <3>1, <3>2, <3>4 DEF NothingAfterStop, TimerOK, IdleOK, ChildOK, stopping
    <3>7. \A q \in Procs : ~Pending(q) BY <3>1 DEF ManagerInv, PendingOK, NothingElse
    <3> QED BY <2>4, <2>5, <2>6, <3>2, <3>5, <3>6, <3>7 DEF ManagerInv, PendingOK
  <2>7. CASE ~(attempt[p] = "adopted" /\ child = p)
    <3>1. UNCHANGED <<child, address, failures, timers, gaveUp>> BY <1>3, <2>7 DEF ExitHandled
    <3>2. ManagerTypeOK'
      BY <1>1, <2>1, <2>2, <3>1 DEF ManagerInv, ManagerTypeOK, UtilityTypeOK, AttemptSteps
    <3>3. NothingAfterStop' /\ TimerOK' /\ IdleOK'
      BY <1>1, <3>1 DEF ManagerInv, NothingAfterStop, TimerOK, IdleOK, stopping
    <3>4. ChildOK' BY <1>1, <2>2, <2>7, <3>1 DEF ManagerInv, ManagerTypeOK, ChildOK
    <3>5. \A q \in Procs : PendingOK(q)' BY <1>1, <2>4, <3>1 DEF ManagerInv, PendingOK, NothingElse
    <3> QED BY <2>5, <3>1, <3>2, <3>3, <3>4, <3>5 DEF ManagerInv
  <2> QED BY <2>6, <2>7
<1> QED BY <1>2, <1>3

\* A failure is logged, and the next attempt begins, or is due later, or the start has failed.
LEMMA AttemptEndsStep ==
  ASSUME ManagerInv, NEW p \in Procs, AttemptEnds(p)
  PROVE  ManagerInv'
<1> DEFINE ended == [attempt EXCEPT ![p] = "over"]
           more == attempt[p] = "inUse" /\ start.offset < Len(Scan)
<1>1. /\ proc \in [Procs -> Proc] /\ attempt \in [Procs -> AttemptSteps] /\ attempt[p] \in {"failed", "inUse"}
      /\ start \in [pc : {"idle", "running", "ready", "failed"}, offset : 0..Len(Scan)]
      /\ UNCHANGED <<saved, updates, child, address, desired, stop, crashes>>
  BY DEF ManagerInv, ManagerTypeOK, UtilityTypeOK, AttemptSteps, AttemptEnds
<1>2. Pending(p) /\ NothingElse /\ \A q \in Procs : Pending(q) => q = p
  BY <1>1 DEF ManagerInv, PendingOK, Pending
<1>3. /\ ended \in [Procs -> AttemptSteps] /\ ended[p] = "over"
      /\ \A q \in Procs : q # p => ended[q] = attempt[q] /\ ended[q] \notin {"open", "probing", "failed", "inUse"}
  BY <1>1, <1>2 DEF AttemptSteps, Pending
<1> HIDE DEF ended
<1>4. CASE start.pc = "running" /\ more
  <2>1. /\ Fork(Scan[start.offset + 1], proc, ended) /\ start' = [start EXCEPT !.offset = @ + 1]
        /\ UNCHANGED <<failures, timers, gaveUp>>
    BY <1>4 DEF AttemptEnds, ended
  <2>2. start.offset \in Nat /\ Len(Scan) \in Nat /\ start.offset + 1 \in 1..Len(Scan)
    BY <1>1, <1>4, ManagerAssumption
  <2>3. Scan[start.offset + 1] \in Addrs BY <2>2, SlotFacts
  <2>4. start' \in [pc : {"running", "ready", "failed"}, offset : 0..Len(Scan)]
    BY <1>1, <1>4, <2>1, <2>2
  <2> HIDE DEF more
  <2> QED BY <1>1, <1>2, <1>3, <2>1, <2>3, <2>4, ForkStep DEF NothingElse
<1>5. ASSUME attempt' = ended, UNCHANGED <<proc, attemptChild>>,
             start' \in [pc : {"idle", "running", "ready", "failed"}, offset : 0..Len(Scan)],
             start'.pc \notin {"idle", "running"},
             failures' \in 0..MaxDelays + 1, gaveUp' \in BOOLEAN, timers' \in SUBSET {"restart", "stable"},
             stopping => timers' = timers, "restart" \in timers' => failures' <= MaxDelays
      PROVE  ManagerInv'
  <2>1. ManagerTypeOK'
    BY <1>1, <1>3, <1>5 DEF ManagerInv, ManagerTypeOK, UtilityTypeOK, AttemptSteps
  <2>2. NothingAfterStop' /\ TimerOK' /\ IdleOK' /\ ChildOK'
    BY <1>1, <1>2, <1>5 DEF ManagerInv, NothingAfterStop, TimerOK, IdleOK, ChildOK, NothingElse, stopping
  <2>3. ASSUME NEW q \in Procs PROVE AttemptOK(q)' /\ PendingOK(q)' /\ KnownOK(q)' /\ StageOK(q)'
    <3>1. ~Pending(q)' BY <1>3, <1>5, <2>3 DEF Pending
    <3>2. AttemptOK(q)' BY <1>1, <1>3, <1>5, <2>3 DEF ManagerInv, AttemptOK
    <3>3. KnownOK(q)'
      BY <1>1, <1>3, <1>5, <2>3, <3>1 DEF ManagerInv, KnownOK, Pending, Unfinished, Alive, stopping
    <3>4. StageOK(q)' BY <1>1, <1>5, <2>3 DEF ManagerInv, StageOK, Stage, OnFile
    <3> QED BY <3>1, <3>2, <3>3, <3>4 DEF PendingOK
  <2> QED BY <2>1, <2>2, <2>3 DEF ManagerInv
<1>6. CASE start.pc = "running" /\ ~more
  <2>1. attempt' = ended /\ start' = [start EXCEPT !.pc = "failed"] /\ UNCHANGED <<proc, attemptChild, failures, timers, gaveUp>>
    BY <1>6 DEF AttemptEnds, ended
  <2>2. start' \in [pc : {"idle", "running", "ready", "failed"}, offset : 0..Len(Scan)] /\ start'.pc = "failed"
    BY <1>1, <2>1
  <2> QED BY <1>2, <1>5, <2>1, <2>2 DEF ManagerInv, ManagerTypeOK, NothingElse
<1>7. CASE start.pc # "running"
  <2>1. attempt' = ended /\ Backoff(timers) /\ UNCHANGED <<proc, attemptChild, start>>
    BY <1>7 DEF AttemptEnds, ended
  <2>2. /\ failures' \in 0..MaxDelays + 1 /\ gaveUp' \in BOOLEAN /\ timers' \subseteq timers \cup {"restart"}
        /\ stopping => timers' = timers
        /\ "restart" \in timers' => failures' <= MaxDelays
    BY <1>2, <2>1, BackoffFacts DEF NothingElse
  <2> QED BY <1>1, <1>2, <1>5, <1>7, <2>1, <2>2 DEF ManagerInv, ManagerTypeOK, NothingElse
<1> QED BY <1>4, <1>6, <1>7

\* stop(): what runs is told to end.
LEMMA StopStep ==
  ASSUME ManagerInv, Stop
  PROVE  ManagerInv'
<1> DEFINE victim == IF child # NoProc THEN child ELSE attemptChild
           running == victim # NoProc /\ proc[victim].st \notin {"unused", "forked", "gone"}
           told == [proc[victim] EXCEPT !.told = TRUE]
<1>1. /\ ~stopping /\ timers' = {} /\ child' = NoProc /\ attemptChild' = NoProc /\ address' = Nowhere
      /\ proc' = (IF running THEN [proc EXCEPT ![victim] = told] ELSE proc)
      /\ stop' = [pc |-> IF running THEN "waiting" ELSE "done", victim |-> IF running THEN victim ELSE NoProc]
      /\ UNCHANGED <<saved, updates, desired, failures, attempt, start, gaveUp, crashes>>
  BY DEF Stop
<1>2. proc \in [Procs -> Proc] /\ victim \in Procs \cup {NoProc} /\ attempt \in [Procs -> AttemptSteps]
  BY DEF ManagerInv, ManagerTypeOK, UtilityTypeOK, AttemptSteps
<1> HIDE DEF victim
<1>3. ASSUME NEW q \in Procs
      PROVE  /\ proc'[q] \in Proc
             /\ proc'[q].st = proc[q].st /\ proc'[q].out = proc[q].out /\ proc'[q].update = proc[q].update
             /\ proc[q].told => proc'[q].told
             /\ proc'[q] = proc[q] \/ (running /\ q = victim /\ proc'[q].told)
             /\ running /\ q = victim => proc'[q].told
  <2>1. CASE running /\ q = victim
    <3>1. proc'[q] = [proc[q] EXCEPT !.told = TRUE] BY <1>1, <1>2, <2>1
    <3> QED BY <1>2, <1>3, <2>1, <3>1 DEF Proc
  <2>2. CASE ~(running /\ q = victim) BY <1>1, <1>2, <1>3, <2>2
  <2> QED BY <2>1, <2>2
<1>4. proc' \in [Procs -> Proc] /\ stop' \in [pc : {"no", "waiting", "done"}, victim : Procs \cup {NoProc}]
  <2>1. CASE running
    <3>1. victim \in Procs BY <1>2, <2>1
    <3> QED BY <1>1, <1>2, <1>3, <2>1, <3>1
  <2>2. CASE ~running BY <1>1, <1>2, <2>2
  <2> QED BY <2>1, <2>2
<1>5. stopping' BY <1>1 DEF stopping
<1>6. ManagerTypeOK' BY <1>1, <1>4 DEF ManagerInv, ManagerTypeOK, UtilityTypeOK
<1>7. NothingAfterStop' /\ TimerOK' /\ IdleOK' /\ ChildOK'
  BY <1>1 DEF ManagerInv, NothingAfterStop, TimerOK, IdleOK, ChildOK
<1>8. ASSUME NEW q \in Procs PROVE AttemptOK(q)' /\ PendingOK(q)' /\ KnownOK(q)' /\ StageOK(q)'
  <2>1. AttemptOK(q)' BY <1>1, <1>3, <1>8 DEF ManagerInv, AttemptOK
  <2>2. PendingOK(q)' BY <1>1, <1>8 DEF ManagerInv, PendingOK, Pending, NothingElse
  <2>3. KnownOK(q)'
    <3> SUFFICES ASSUME Alive(q)', ~proc'[q].told PROVE proc'[q].st = "forked"
      BY <1>5 DEF KnownOK
    <3>1. Alive(q) /\ ~proc[q].told /\ proc'[q] = proc[q] /\ ~(running /\ q = victim)
      BY <1>3, <1>8 DEF Alive
    <3>2. attempt[q] \in {"open", "probing", "adopted"} BY <3>1, <1>8, OneRuns
    <3>3. q = victim
      <4>1. CASE attempt[q] = "adopted"
        BY <4>1, <1>1, <1>8, SlotFacts DEF ManagerInv, KnownOK, victim
      <4>2. CASE Unfinished(q)
        BY <4>2, <1>1, <1>8 DEF ManagerInv, KnownOK, PendingOK, Pending, Unfinished, NothingElse, victim
      <4> QED BY <3>2, <4>1, <4>2 DEF Unfinished
    <3> QED BY <3>1, <3>3, <1>8, SlotFacts DEF Alive
  <2>4. StageOK(q)' BY <1>1, <1>3, <1>8 DEF ManagerInv, StageOK, Stage, OnFile
  <2> QED BY <2>1, <2>2, <2>3, <2>4
<1> QED BY <1>6, <1>7, <1>8 DEF ManagerInv

LEMMA ManagerStarts ==
  ASSUME ManagerInit PROVE ManagerInv
<1>1. UtilityTypeOK BY SlotFacts, UtilityAssumption DEF ManagerInit, UtilityInit, UtilityTypeOK
<1>2. desired \in Config BY ManagerAssumption, SlotFacts DEF ManagerInit, Config
<1>3. MaxDelays \in Nat /\ MaxCrashes \in Nat /\ Len(Scan) \in Nat BY ManagerAssumption
<1>4. ManagerTypeOK
  <2>1. attempt \in [Procs -> {"none", "open", "probing", "adopted", "failed", "inUse", "over"}]
    BY DEF ManagerInit
  <2>2. 0 \in 0..MaxDelays + 1 /\ 0 \in 0..Len(Scan) /\ 0 \in 0..MaxCrashes BY <1>3
  <2>3. /\ start \in [pc : {"idle", "running", "ready", "failed"}, offset : 0..Len(Scan)]
        /\ stop \in [pc : {"no", "waiting", "done"}, victim : Procs \cup {NoProc}]
    BY <2>2 DEF ManagerInit
  <2> QED BY <1>1, <1>2, <2>1, <2>2, <2>3 DEF ManagerInit, ManagerTypeOK
<1>5. NothingAfterStop /\ ChildOK /\ TimerOK /\ IdleOK
  BY DEF ManagerInit, NothingAfterStop, ChildOK, TimerOK, IdleOK, stopping
<1>6. ASSUME NEW p \in Procs PROVE AttemptOK(p) /\ PendingOK(p) /\ KnownOK(p) /\ StageOK(p)
  BY <1>6 DEF ManagerInit, UtilityInit, UnusedProc, AttemptOK, PendingOK, Pending, KnownOK, StageOK,
              Unfinished, Alive, stopping
<1> QED BY <1>4, <1>5, <1>6 DEF ManagerInv

LEMMA ManagerStep ==
  ASSUME ManagerInv, [ManagerNext]_superviseVars
  PROVE  ManagerInv'
<1>1. CASE UNCHANGED superviseVars
  <2>1. ManagerTypeOK' /\ NothingAfterStop' /\ ChildOK' /\ TimerOK' /\ IdleOK'
    BY <1>1 DEF ManagerInv, ManagerTypeOK, UtilityTypeOK, NothingAfterStop, ChildOK, TimerOK, IdleOK,
                stopping, superviseVars
  <2>2. ASSUME NEW p \in Procs PROVE AttemptOK(p)' /\ PendingOK(p)' /\ KnownOK(p)' /\ StageOK(p)'
    BY <1>1, <2>2 DEF ManagerInv, AttemptOK, PendingOK, Pending, NothingElse, KnownOK, StageOK, Stage, OnFile,
                      Unfinished, Alive, stopping, superviseVars
  <2> QED BY <2>1, <2>2 DEF ManagerInv
<1>2. CASE Utility
  <2>1. PICK p \in Procs : Boot(p) \/ UpdateStep(p) \/ Exit(p) \/ \E next \in Config : BeginUpdate(p, next)
    BY <1>2 DEF Utility
  <2>2. UNCHANGED <<managerVars, crashes>> /\ crashes' \in 0..MaxCrashes
    BY <1>2 DEF Utility, ManagerInv, ManagerTypeOK
  <2> QED BY <2>1, <2>2, BootStep, UpdateSteps, GoneStep
<1>3. CASE Crashes
  <2>1. PICK p \in Procs : Crash(p) BY <1>3 DEF Crashes
  <2>2. UNCHANGED managerVars /\ crashes' \in 0..MaxCrashes
    BY <1>3, ManagerAssumption DEF Crashes, ManagerInv, ManagerTypeOK
  <2> QED BY <2>1, <2>2, GoneStep
<1>4. CASE StableTimerFires
  <2>1. failures' = 0 /\ timers' \subseteq timers /\ 0 \in 0..MaxDelays + 1 /\ 0 <= MaxDelays
        /\ UNCHANGED <<proc, saved, updates, child, attemptChild, address, desired, attempt, start, stop, gaveUp, crashes>>
    BY <1>4, ManagerAssumption DEF StableTimerFires
  <2>2. ManagerTypeOK' /\ NothingAfterStop' /\ ChildOK' /\ TimerOK' /\ IdleOK'
    BY <2>1 DEF ManagerInv, ManagerTypeOK, UtilityTypeOK, NothingAfterStop, ChildOK, TimerOK, IdleOK, stopping
  <2>3. ASSUME NEW p \in Procs PROVE AttemptOK(p)' /\ PendingOK(p)' /\ KnownOK(p)' /\ StageOK(p)'
    BY <2>1, <2>3 DEF ManagerInv, AttemptOK, PendingOK, Pending, NothingElse, KnownOK, StageOK, Stage, OnFile,
                      Unfinished, Alive, stopping
  <2> QED BY <2>2, <2>3 DEF ManagerInv
<1>5. CASE StopEnds
  <2>1. stop' \in [pc : {"no", "waiting", "done"}, victim : Procs \cup {NoProc}] /\ stopping /\ stopping'
        /\ UNCHANGED <<proc, saved, updates, child, attemptChild, address, desired, failures, timers, attempt, start, gaveUp, crashes>>
    BY <1>5 DEF StopEnds, stopping
  <2>2. ManagerTypeOK' /\ NothingAfterStop' /\ ChildOK' /\ TimerOK' /\ IdleOK'
    BY <2>1 DEF ManagerInv, ManagerTypeOK, UtilityTypeOK, NothingAfterStop, ChildOK, TimerOK, IdleOK
  <2>3. ASSUME NEW p \in Procs PROVE AttemptOK(p)' /\ PendingOK(p)' /\ KnownOK(p)' /\ StageOK(p)'
    BY <2>1, <2>3 DEF ManagerInv, AttemptOK, PendingOK, Pending, NothingElse, KnownOK, StageOK, Stage, OnFile,
                      Unfinished, Alive
  <2> QED BY <2>2, <2>3 DEF ManagerInv
<1>6. CASE StartServer \/ RestartTimerFires BY <1>6, StartStep
<1>7. CASE Stop BY <1>7, StopStep
<1>8. ASSUME NEW p \in Procs, Manager(p) \/ AttemptFails(p) PROVE ManagerInv'
  BY <1>8, SpawnedStep, MessageStep, AdoptStep, ExitStep, AttemptEndsStep, AttemptFailsStep DEF Manager, AttemptFails
<1> QED BY <1>1, <1>2, <1>3, <1>4, <1>5, <1>6, <1>7, <1>8 DEF ManagerNext

LEMMA ServerFacts ==
  ASSUME ManagerInv PROVE OneServerIsWatched /\ ServesWhatIsSaved
<1>1. \A p, q \in Running : p = q BY OneRuns DEF Running
<1>2. Cardinality(Running) <= 1
  <2>1. CASE Running = {} BY <2>1, FS_EmptySet
  <2>2. CASE Running # {}
    <3>1. PICK p \in Running : TRUE BY <2>2
    <3>2. Running = {p} BY <1>1, <3>1
    <3>3. Cardinality({p}) = 1 BY FS_Singleton, Zenon
    <3> QED BY <3>2, <3>3
  <2> QED BY <2>1, <2>2
<1>3. ASSUME ~stopping, NEW p \in Running PROVE p \in {child, attemptChild}
  <2>1. p \in Procs /\ attempt[p] \in {"open", "probing", "adopted"} BY <1>3, OneRuns DEF Running
  <2> QED BY <2>1, <1>3 DEF ManagerInv, KnownOK, Unfinished
<1>4. AdoptedIsWatched
  BY SlotFacts DEF ManagerInv, ManagerTypeOK, ChildOK, AdoptedIsWatched, Running, Alive, AttemptOK
<1>5. ASSUME NEW p \in Running, proc[p].st = "serving", proc[p].update = "no", ~proc[p].astray, saved # {}
      PROVE  saved = {proc[p].net} /\ proc[p].at \in {proc[p].net.addr, Nowhere}
  BY <1>5 DEF ManagerInv, StageOK, Stage, OnFile, Running
<1> QED BY <1>2, <1>3, <1>4, <1>5 DEF OneServerIsWatched, OneUtility, ManagerInv, ServesWhatIsSaved
------------------------------
(* The desktop shell. *)

Behind(a) == <<a, "loads">> \in reconnects

\* What is pending is wanted; only who quits from the menu quits with an open window; the
\* server has stopped when the second quit begins; and a window that loads an address has no
\* text to lose and goes where the server is, unless something came between.
ShellInv ==
  /\ ShellTypeOK
  /\ update.pending => wanted
  /\ quitting # "no" /\ ~fromMenu => window = "closed"
  /\ quitting \in {"ready", "gone"} <=> backend.state = "stopped"
  /\ installed # "unwanted" /\ (installed # "no" => backend.state = "stopped")
  /\ ~raced => \A a \in Addresses : Behind(a) => a = trusted /\ ~page.unsaved
  /\ WindowFollows

LEMMA ShellStarts ==
  ASSUME ShellInit PROVE ShellInv
<1>1. ShellTypeOK
  <2>1. FirstAddress \in Addresses /\ 0 \in 0..MaxListeners /\ 0 \in 0..MaxShellFaults
    BY ShellAssumption
  <2>2. /\ page \in [address : Addresses, unsaved : BOOLEAN]
        /\ backend \in [address : Addresses, state : {"runs", "stops", "stopped"}] /\ backend.state = "runs"
    BY <2>1 DEF ShellInit
  <2>3. /\ update \in [phase : {"idle", "checking", "available", "downloading", "ready", "installing", "error"},
                       pending : BOOLEAN, stopped : BOOLEAN]
        /\ ~update.pending
    BY DEF ShellInit
  <2> QED BY <2>1, <2>2, <2>3 DEF ShellInit, ShellTypeOK
<1> QED BY <1>1 DEF ShellInit, ShellInv, WindowFollows, Behind

UpdatePhase == {"idle", "checking", "available", "downloading", "ready", "installing", "error"}

\* The page.
LEMMA PageStep ==
  ASSUME ShellInv, Types \/ SavesOrDiscards PROVE ShellInv'
<1>1. /\ page' \in [address : Addresses, unsaved : BOOLEAN] /\ page'.address = page.address
      /\ page'.unsaved => page.unsaved \/ raced' \/ ~Loading
      /\ raced' \in BOOLEAN /\ (~raced' => ~raced)
      /\ UNCHANGED <<window, backend, trusted, reconnects, update, quitting, installed, listeners, shellFaults, wanted, fromMenu>>
  <2>1. page \in [address : Addresses, unsaved : BOOLEAN] /\ raced \in BOOLEAN
    BY DEF ShellInv, ShellTypeOK
  <2>2. CASE Types
    <3>1. page' = [page EXCEPT !.unsaved = TRUE] /\ raced' = (raced \/ Loading) BY <2>2 DEF Types
    <3> HIDE DEF Loading
    <3>2. raced' \in BOOLEAN /\ (~raced' => ~raced) /\ (raced' \/ ~Loading) BY <2>1, <3>1
    <3> QED BY <2>1, <2>2, <3>1, <3>2 DEF Types
  <2>3. CASE SavesOrDiscards BY <2>1, <2>3 DEF SavesOrDiscards, shellHistory
  <2> QED BY <2>2, <2>3
<1> QED BY <1>1 DEF ShellInv, ShellTypeOK, WindowFollows, Behind, Loading

\* The updater's own steps.
LEMMA UpdaterStep ==
  ASSUME ShellInv, BeginCheck \/ EndCheck \/ BeginDownload \/ EndDownload PROVE ShellInv'
<1>1. PICK from \in SUBSET (UpdatePhase \ {"installing"}), to \in UpdatePhase : UpdaterGoes(from, to)
  BY DEF BeginCheck, EndCheck, BeginDownload, EndDownload, UpdatePhase
<1>2. shellFaults' \in 0..MaxShellFaults /\ (shellFaults' = 0 => shellFaults = 0)
  <2>1. CASE ShellFault BY <2>1, ShellAssumption DEF ShellFault, ShellInv, ShellTypeOK
  <2>2. CASE UNCHANGED shellFaults BY <2>2 DEF ShellInv, ShellTypeOK
  <2> QED BY <2>1, <2>2 DEF BeginCheck, EndCheck, BeginDownload, EndDownload
<1>3. /\ update.phase # "installing" /\ update' = [update EXCEPT !.phase = to]
      /\ UNCHANGED <<window, page, backend, trusted, reconnects, quitting, installed, listeners, wanted, fromMenu, raced>>
  BY <1>1 DEF UpdaterGoes, shellHistory
<1>4. ~update'.pending /\ update' \in [phase : UpdatePhase, pending : BOOLEAN, stopped : BOOLEAN]
  BY <1>3 DEF ShellInv, ShellTypeOK, UpdatePhase
<1> QED BY <1>2, <1>3, <1>4 DEF ShellInv, ShellTypeOK, WindowFollows, Behind, UpdatePhase

\* The user installs, or closes the window.
LEMMA ClosingStep ==
  ASSUME ShellInv, Install \/ CloseWindow PROVE ShellInv'
<1>1. /\ window' = "closing" /\ window = "open"
      /\ update' \in [phase : UpdatePhase, pending : BOOLEAN, stopped : BOOLEAN]
      /\ update'.pending => update'.phase = "installing" /\ wanted'
      /\ wanted' \in BOOLEAN
      /\ UNCHANGED <<page, backend, trusted, reconnects, quitting, installed, listeners, shellFaults, fromMenu, raced>>
  BY DEF ShellInv, ShellTypeOK, UpdatePhase, Install, CloseWindow, InPage, shellHistory
<1> QED BY <1>1 DEF ShellInv, ShellTypeOK, WindowFollows, Behind, UpdatePhase

LEMMA RefusalFacts ==
  ASSUME ShellInv, RefusalCancels
  PROVE  ~update'.pending /\ update' \in [phase : UpdatePhase, pending : BOOLEAN, stopped : BOOLEAN]
BY DEF ShellInv, ShellTypeOK, UpdatePhase, RefusalCancels

\* The page lets the window close, or refuses.
LEMMA WindowClosesStep ==
  ASSUME ShellInv, WindowCloses PROVE ShellInv'
<1>1. window = "closing" /\ UNCHANGED <<page, trusted, reconnects, installed, listeners, shellFaults, fromMenu, raced>>
  BY DEF WindowCloses
<1>2. CASE Refuses
  <2>1. window' = "open" /\ RefusalCancels /\ wanted' = FALSE /\ UNCHANGED <<quitting, backend>>
    BY <1>2 DEF WindowCloses
  <2>2. ~update'.pending /\ update' \in [phase : UpdatePhase, pending : BOOLEAN, stopped : BOOLEAN]
    BY <2>1, RefusalFacts
  <2> QED BY <1>1, <2>1, <2>2 DEF ShellInv, ShellTypeOK, WindowFollows, Behind, UpdatePhase
<1>3. CASE ~Refuses /\ quitting = "no"
  <2>1. /\ window' = "closed" /\ quitting' = "started" /\ UNCHANGED wanted
        /\ backend' = [backend EXCEPT !.state = "stops"] /\ update' = [update EXCEPT !.stopped = TRUE]
    BY <1>3 DEF WindowCloses, BeginsToQuit
  <2>2. /\ backend' \in [address : Addresses, state : {"runs", "stops", "stopped"}] /\ backend'.state = "stops"
        /\ update' \in [phase : UpdatePhase, pending : BOOLEAN, stopped : BOOLEAN]
        /\ update'.pending = update.pending /\ update'.phase = update.phase
    BY <2>1 DEF ShellInv, ShellTypeOK, UpdatePhase
  <2> QED BY <1>1, <1>3, <2>1, <2>2 DEF ShellInv, ShellTypeOK, WindowFollows, Behind, UpdatePhase
<1>4. CASE ~Refuses /\ quitting # "no"
  <2>1. /\ window' = "closed" /\ quitting' = (IF quitting = "ready" THEN "gone" ELSE quitting)
        /\ UNCHANGED <<wanted, backend, update>>
    BY <1>4 DEF WindowCloses
  <2> QED BY <1>1, <1>4, <2>1 DEF ShellInv, ShellTypeOK, WindowFollows, Behind
<1> QED BY <1>2, <1>3, <1>4

\* The user quits from the menu.
LEMMA QuitStep ==
  ASSUME ShellInv, QuitFromMenu PROVE ShellInv'
<1>1. /\ fromMenu' = TRUE /\ window # "closed"
      /\ UNCHANGED <<page, trusted, reconnects, installed, listeners, shellFaults, wanted, raced>>
  BY DEF QuitFromMenu
<1>2. CASE quitting = "no"
  <2>1. /\ quitting' = "started" /\ UNCHANGED window
        /\ backend' = [backend EXCEPT !.state = "stops"] /\ update' = [update EXCEPT !.stopped = TRUE]
    BY <1>2 DEF QuitFromMenu, BeginsToQuit
  <2>2. /\ backend' \in [address : Addresses, state : {"runs", "stops", "stopped"}] /\ backend'.state = "stops"
        /\ update' \in [phase : UpdatePhase, pending : BOOLEAN, stopped : BOOLEAN]
        /\ update'.pending = update.pending /\ update'.phase = update.phase
    BY <2>1 DEF ShellInv, ShellTypeOK, UpdatePhase
  <2> QED BY <1>1, <1>2, <2>1, <2>2 DEF ShellInv, ShellTypeOK, WindowFollows, Behind, UpdatePhase
<1>3. CASE quitting = "started"
  <2>1. UNCHANGED <<quitting, backend, update, window>> BY <1>3 DEF QuitFromMenu
  <2> QED BY <1>1, <2>1 DEF ShellInv, ShellTypeOK, WindowFollows, Behind
<1>4. CASE quitting \notin {"no", "started"}
  <2>1. quitting' = "ready" /\ window' = "closing" /\ UNCHANGED <<backend, update>> /\ quitting = "ready"
    BY <1>1, <1>4 DEF QuitFromMenu, QuitsAtLast, ShellInv, ShellTypeOK
  <2> QED BY <1>1, <2>1 DEF ShellInv, ShellTypeOK, WindowFollows, Behind
<1> QED BY <1>2, <1>3, <1>4

\* All has stopped: what is pending is installed, and the application quits again.
LEMMA SettleStep ==
  ASSUME ShellInv, TasksSettle PROVE ShellInv'
<1>1. /\ quitting = "started" /\ backend' = [backend EXCEPT !.state = "stopped"]
      /\ UNCHANGED <<page, trusted, reconnects, listeners, wanted, fromMenu, raced>>
      /\ FinishInstall /\ QuitsAtLast
  BY DEF TasksSettle, shellHistory
<1>2. backend' \in [address : Addresses, state : {"runs", "stops", "stopped"}] /\ backend'.state = "stopped"
  BY <1>1 DEF ShellInv, ShellTypeOK
<1>3. /\ update' \in [phase : UpdatePhase, pending : BOOLEAN, stopped : BOOLEAN] /\ ~update'.pending
      /\ installed' \in {"no", "wanted"} /\ shellFaults' \in 0..MaxShellFaults /\ (shellFaults' = 0 => shellFaults = 0)
  <2>1. CASE update.pending /\ installed' = (IF wanted THEN "wanted" ELSE "unwanted")
             /\ update' = [update EXCEPT !.pending = FALSE] /\ UNCHANGED shellFaults
    BY <2>1 DEF ShellInv, ShellTypeOK, UpdatePhase
  <2>2. CASE ShellFault /\ update' = [update EXCEPT !.pending = FALSE, !.phase = "error"] /\ UNCHANGED installed
    <3>1. update' \in [phase : UpdatePhase, pending : BOOLEAN, stopped : BOOLEAN] /\ ~update'.pending
      BY <2>2 DEF ShellInv, ShellTypeOK, UpdatePhase
    <3>2. shellFaults' \in 0..MaxShellFaults /\ shellFaults' # 0
      BY <2>2, ShellAssumption DEF ShellFault, ShellInv, ShellTypeOK
    <3>3. installed' \in {"no", "wanted"} BY <2>2 DEF ShellInv, ShellTypeOK
    <3> QED BY <3>1, <3>2, <3>3
  <2>3. CASE ~update.pending /\ UNCHANGED <<update, installed, shellFaults>>
    BY <2>3 DEF ShellInv, ShellTypeOK, UpdatePhase
  <2> QED BY <1>1, <2>1, <2>2, <2>3 DEF FinishInstall
<1>4. CASE window = "closed"
  <2>1. quitting' = "gone" /\ window' = "closed" BY <1>1, <1>4 DEF QuitsAtLast
  <2> QED BY <1>1, <1>2, <1>3, <2>1 DEF ShellInv, ShellTypeOK, WindowFollows, Behind, UpdatePhase
<1>5. CASE window # "closed"
  <2>1. quitting' = "ready" /\ window' = "closing" /\ fromMenu
    BY <1>1, <1>5 DEF QuitsAtLast, ShellInv, ShellTypeOK
  <2> QED BY <1>1, <1>2, <1>3, <2>1 DEF ShellInv, ShellTypeOK, WindowFollows, Behind, UpdatePhase
<1> QED BY <1>4, <1>5

\* The server moves to another address.
LEMMA MovesStep ==
  ASSUME ShellInv, NEW a \in Addresses, ListenerMoves(a) PROVE ShellInv'
<1>1. /\ quitting = "no" /\ trusted' = a /\ reconnects' = reconnects \cup {<<a, "asks">>}
      /\ raced' = (raced \/ Loading) /\ backend' = [backend EXCEPT !.address = a]
      /\ listeners < MaxListeners /\ listeners' = listeners + 1
      /\ UNCHANGED <<window, page, update, quitting, installed, shellFaults, wanted, fromMenu>>
  BY DEF ListenerMoves
<1>2. listeners' \in 0..MaxListeners BY <1>1, ShellAssumption DEF ShellInv, ShellTypeOK
<1>3. backend' \in [address : Addresses, state : {"runs", "stops", "stopped"}] /\ backend'.state = backend.state
  BY <1>1 DEF ShellInv, ShellTypeOK
<1>4. ~raced' => \A b \in Addresses : ~Behind(b)' BY <1>1 DEF Behind, Loading
<1>5. reconnects' \subseteq Addresses \X {"asks", "loads"} /\ raced' \in BOOLEAN
  BY <1>1 DEF ShellInv, ShellTypeOK
<1> QED BY <1>1, <1>2, <1>3, <1>4, <1>5 DEF ShellInv, ShellTypeOK, WindowFollows

\* A reconnect asks the page.
LEMMA AsksStep ==
  ASSUME ShellInv, NEW a \in Addresses, ReconnectAsks(a) PROVE ShellInv'
<1>1. UNCHANGED <<window, page, backend, trusted, update, quitting, installed, listeners, shellFaults, wanted, fromMenu, raced>>
  BY DEF ReconnectAsks, shellHistory
<1>2. CASE (window = "closed" \/ trusted # a \/ quitting # "no") /\ reconnects' = reconnects \ {<<a, "asks">>}
  BY <1>1, <1>2 DEF ShellInv, ShellTypeOK, WindowFollows, Behind
<1>3. CASE trusted = a /\ ~Refuses /\ reconnects' = (reconnects \ {<<a, "asks">>}) \cup {<<a, "loads">>}
  <2>1. \A b \in Addresses : Behind(b)' => Behind(b) \/ b = trusted BY <1>3 DEF Behind
  <2>2. reconnects' \subseteq Addresses \X {"asks", "loads"} /\ <<trusted, "loads">> \in reconnects'
    BY <1>3 DEF ShellInv, ShellTypeOK
  <2> QED BY <1>1, <1>3, <2>1, <2>2 DEF ShellInv, ShellTypeOK, WindowFollows, Refuses
<1> QED BY <1>2, <1>3 DEF ReconnectAsks

\* A reconnect loads its address.
LEMMA LoadsStep ==
  ASSUME ShellInv, NEW a \in Addresses, ReconnectLoads(a) PROVE ShellInv'
<1>1. /\ Behind(a) /\ reconnects' = reconnects \ {<<a, "loads">>}
      /\ UNCHANGED <<window, backend, trusted, quitting, installed, listeners, fromMenu, raced>>
  BY DEF ReconnectLoads, Behind
<1>2. reconnects' \subseteq Addresses \X {"asks", "loads"} /\ \A b \in Addresses : Behind(b)' => Behind(b)
  BY <1>1 DEF ShellInv, ShellTypeOK, Behind
<1>3. ~raced => a = trusted /\ ~page.unsaved BY <1>1 DEF ShellInv
<1>4. CASE window = "closed" /\ UNCHANGED <<page, update, wanted, shellFaults>>
  BY <1>1, <1>2, <1>4 DEF ShellInv, ShellTypeOK, WindowFollows
<1>5. CASE window # "closed" /\ Refuses /\ RefusalCancels /\ wanted' = FALSE /\ UNCHANGED <<page, shellFaults>>
  <2>1. ~update'.pending /\ update' \in [phase : UpdatePhase, pending : BOOLEAN, stopped : BOOLEAN]
    BY <1>5, RefusalFacts
  <2>2. raced BY <1>3, <1>5 DEF Refuses, ShellInv, ShellTypeOK
  <2> QED BY <1>1, <1>2, <1>5, <2>1, <2>2 DEF ShellInv, ShellTypeOK, WindowFollows, UpdatePhase
<1>6. CASE window # "closed" /\ ~Refuses /\ page' = [page EXCEPT !.address = a] /\ UNCHANGED <<update, wanted, shellFaults>>
  <2>1. page' \in [address : Addresses, unsaved : BOOLEAN] /\ page'.address = a /\ page'.unsaved = page.unsaved
    BY <1>6 DEF ShellInv, ShellTypeOK
  <2> QED BY <1>1, <1>2, <1>3, <1>6, <2>1 DEF ShellInv, ShellTypeOK, WindowFollows
<1>7. CASE ShellFault /\ UNCHANGED <<page, update, wanted>>
  <2>1. shellFaults' \in 0..MaxShellFaults /\ shellFaults' # 0
    BY <1>7, ShellAssumption DEF ShellFault, ShellInv, ShellTypeOK
  <2> QED BY <1>1, <1>2, <1>7, <2>1 DEF ShellInv, ShellTypeOK, WindowFollows
<1> QED BY <1>4, <1>5, <1>6, <1>7 DEF ReconnectLoads

LEMMA ShellStep ==
  ASSUME ShellInv, [ShellNext]_shellVars PROVE ShellInv'
<1>1. CASE UNCHANGED shellVars BY <1>1 DEF ShellInv, ShellTypeOK, WindowFollows, Behind, shellVars
<1>2. CASE ShellNext
  BY <1>2, PageStep, UpdaterStep, ClosingStep, WindowClosesStep, QuitStep, SettleStep, MovesStep, AsksStep,
     LoadsStep DEF ShellNext
<1> QED BY <1>1, <1>2

LEMMA ShellFacts ==
  ASSUME ShellInv PROVE ShellTypeOK /\ InstallsAsAsked /\ TextHasItsServer /\ WindowFollows
<1>1. InstallsAsAsked BY DEF ShellInv, ShellTypeOK, InstallsAsAsked
<1>2. TextHasItsServer BY DEF ShellInv, ShellTypeOK, TextHasItsServer
<1> QED BY <1>1, <1>2 DEF ShellInv
------------------------------
(* Side by side. *)

ProgressInv == IInv /\ WatcherInv /\ ManagerInv /\ ShellInv

LEMMA ProgressStarts ==
  ASSUME ProgressInit PROVE ProgressInv
BY InitInv, WatcherStarts, ManagerStarts, ShellStarts DEF ProgressInit, ProgressInv

\* A part that rests keeps what is known of it.
LEMMA ProgressStep ==
  ASSUME ProgressInv, [ProgressNext]_allVars PROVE ProgressInv'
<1>1. [TransportNext]_transportVars /\ [WatcherNext]_watcherVars BY DEF ProgressNext, allVars
<1>2. [ManagerNext]_superviseVars /\ [ShellNext]_shellVars BY DEF ProgressNext, allVars
<1>3. IInv' BY <1>1, StepInv DEF ProgressInv
<1>4. WatcherInv' BY <1>1, WatcherStep DEF ProgressInv
<1>5. ManagerInv' BY <1>2, ManagerStep DEF ProgressInv
<1>6. ShellInv' BY <1>2, ShellStep DEF ProgressInv
<1> QED BY <1>3, <1>4, <1>5, <1>6 DEF ProgressInv

LEMMA ProgressInvariant == ProgressSpec => []ProgressInv
<1> QED BY ProgressStarts, ProgressStep, PTL DEF ProgressSpec

(* ServerProcessManager.ts, utility.ts, OpenTigServer.ts: however starts, *)
(* crashes, timers, changes of the listener and the stop follow each other, *)
(* for any number of processes, ports and restarts, at most one utility runs *)
(* that was not told to end, the manager watches it, it serves what is *)
(* saved, and after the stop nothing is adopted and no timer armed.  The *)
(* types of the connections and of the watcher hold with it. *)
THEOREM ServerStaysSound == ProgressSpec => []ServerIsSound
<1>1. ProgressInv => ServerIsSound
  BY ServerFacts DEF ProgressInv, IInv, WatcherInv, ManagerInv, ServerIsSound
<1> QED BY <1>1, ProgressInvariant, PTL

(* main.ts, DesktopUpdater.ts: for any addresses and however closing, *)
(* quitting, installing and moving the server follow each other, nothing is *)
(* installed that was not asked for or was refused since, text that is not *)
(* saved has its server unless the user quits from the menu, and the window *)
(* is on its way to where the server is. *)
THEOREM ShellStaysSound == ProgressSpec => []ShellHolds
<1>1. ProgressInv => ShellHolds BY ShellFacts DEF ProgressInv, ShellHolds
<1> QED BY <1>1, ProgressInvariant, PTL

==============================
