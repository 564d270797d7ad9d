------- MODULE FileTransfers -------
(****************************************)
(* Moving, cutting, copying and deleting files: the work on the disk of *)
(* src/main/files/FileService.ts, as the commands of *)
(* src/main/runtime/registerServerCommands.ts and the undo and redo of *)
(* FileOperationHistory.ts call it. *)
(* *)
(* A command checks first and then works item by item; it is serialized with *)
(* the commands of its repository, and with nothing else: another *)
(* repository's command (a cut reaches across) and other programs act *)
(* between any two of its steps.  A failure is rolled back item by item. *)
(* *)
(* A place is a name in a directory of a repository, or one of the copies of *)
(* that name.  What lies there is a set of tokens: a file is one, a folder *)
(* may be there in part. *)
(****************************************)
EXTENDS Integers, Sequences, FiniteSets, SequencesExt

CONSTANTS
  Roots,          \* the repositories
  Bases,          \* the names; each is a file or a folder in the first directory of every root of Filled
  FolderBases, Filled, Directories,
  Picks,          \* bound: the names that are selected together, in the order of the selection
  NoTransfer,     \* no command, nothing copied or cut
  MaxCopies,      \* bound: copies of one name that uniqueDestination tries (10,000)
  MaxTransfers,   \* bound: commands
  MaxErrors,      \* bound: failures of the disk
  MaxStrangers    \* bound: items other programs create or remove where a command works

ASSUME TransfersAssumption ==
  /\ FolderBases \subseteq Bases /\ Filled \subseteq Roots /\ 1 \in Directories /\ NoTransfer \notin Roots
  /\ \A names \in Picks : names \in Seq(Bases) /\ names # <<>>
  /\ {MaxCopies, MaxTransfers, MaxErrors, MaxStrangers} \subseteq Nat

VARIABLES
  disk,         \* what lies where: pairs of a place and a token
  trash,        \* the system's trash
  apart,        \* the repositories are on different devices
  jobs,         \* per root the command that works there, or NoTransfer
  clipboard,    \* what the client has copied or cut last, or NoTransfer
  pendingCut,   \* the cut the server remembers of the client, or NoTransfer
  steps,        \* FileOperationHistory: per root the steps to undo and to redo
  used,         \* counters
  excused,      \* history: what may be lost
  faults        \* history: what went wrong, by the properties

transferVars == <<disk, trash, apart, jobs, clipboard, pendingCut, steps, used, excused, faults>>

Place(r, d, b, k) == [root |-> r, directory |-> d, base |-> b, copy |-> k]
Places == [root : Roots, directory : Directories, base : Bases, copy : 0..MaxCopies]
\* Where an item goes whose path was cut out of another repository's path.
Mangled(p, r) == Place(r, 0, p.base, 0)
AllPlaces == Places \cup {Mangled(p, r) : p \in Places, r \in Roots}

Parts(r, b) == IF b \in FolderBases THEN {<<r, b, 1>>, <<r, b, 2>>} ELSE {<<r, b, 1>>}
Stranger(n) == <<NoTransfer, NoTransfer, n>>
Strangers == {Stranger(n) : n \in 1..MaxStrangers}
Tokens == (UNION {Parts(r, b) : r \in Filled, b \in Bases}) \cup Strangers

IsFolder(item) == \E t \in item : t[2] \in FolderBases
\* What lies at p, on a disk; and the disk when something else lies there.
LiesAt(d, p) == {x[2] : x \in {y \in d : y[1] = p}}
Put(d, p, item) == {x \in d : x[1] # p} \cup ({p} \X item)
Exists(p) == \E x \in disk : x[1] = p

Kinds == {"rename", "move", "copy", "trash", "restore"}

TransfersTypeOK ==
  /\ disk \subseteq AllPlaces \X Tokens /\ trash \subseteq Tokens /\ excused \subseteq Tokens
  /\ \A x, y \in disk : x[1] = y[1] /\ x # y => x[2][2] \in FolderBases
  /\ \A r \in Roots : jobs[r] # NoTransfer =>
       /\ jobs[r].kind \in Kinds /\ jobs[r].stage \in {"run", "copied", "back", "copiedBack"}
       /\ jobs[r].done < Len(jobs[r].plan) \/ jobs[r].stage \in {"run", "back"}
       /\ jobs[r].stage \in {"copied", "copiedBack"} => jobs[r].kind = "move" /\ apart
       /\ jobs[r].stage \in {"back", "copiedBack"} => jobs[r].kind # "trash"

TransfersInit ==
  /\ disk = UNION {{Place(r, 1, b, 0)} \X Parts(r, b) : r \in Filled, b \in Bases}
  /\ trash = {} /\ apart \in BOOLEAN
  /\ jobs = [r \in Roots |-> NoTransfer] /\ clipboard = NoTransfer /\ pendingCut = NoTransfer
  /\ steps = [r \in Roots |-> [undo |-> <<>>, redo |-> <<>>]]
  /\ used = [commands |-> 0, errors |-> 0, strangers |-> 0]
  /\ excused = Strangers /\ faults = {}

Use(what, max) == used[what] < max /\ used' = [used EXCEPT ![what] = @ + 1]

\* The jobs of the others, that may be surprised by a change of these places.
Surprised(places, by) == [r \in Roots |-> IF r = by \/ jobs[r] = NoTransfer THEN jobs[r]
                                          ELSE [jobs[r] EXCEPT !.surprised = @ \cup places]]

clientVars == <<clipboard, pendingCut>>
------------------------------
(* Other programs. *)

\* What a command at work reads or writes.
AtWork(p) == \E r \in Roots : jobs[r] # NoTransfer /\ \E i \in DOMAIN jobs[r].plan : p \in {jobs[r].plan[i].from, jobs[r].plan[i].to}

StrangerCreates(p) ==
  /\ ~Exists(p) /\ AtWork(p) /\ Use("strangers", MaxStrangers)
  /\ disk' = Put(disk, p, {Stranger(used.strangers + 1)})
  /\ excused' = excused \ {Stranger(used.strangers + 1)}
  /\ jobs' = Surprised({p}, NoTransfer)
  /\ UNCHANGED <<trash, apart, clientVars, steps, faults>>

StrangerRemoves(p) ==
  /\ Exists(p) /\ AtWork(p) /\ Use("strangers", MaxStrangers)
  /\ disk' = Put(disk, p, {}) /\ excused' = excused \cup LiesAt(disk, p)
  /\ jobs' = Surprised({p}, NoTransfer)
  /\ UNCHANGED <<trash, apart, clientVars, steps, faults>>
------------------------------
(* The commands, up to their first change of the disk. *)

Job(kind, way, plan, entry) ==
  [kind |-> kind, way |-> way, plan |-> plan, done |-> 0, stage |-> "run", entry |-> entry,
   before |-> disk, surprised |-> {}, failed |-> FALSE, partial |-> FALSE]

Starts(r, job) ==
  /\ jobs[r] = NoTransfer /\ Use("commands", MaxTransfers)
  /\ jobs' = [jobs EXCEPT ![r] = job]
  /\ UNCHANGED <<disk, trash, apart, clipboard, steps, excused, faults>>

\* What is selected: items of one directory, with their own names.
Selections == {[i \in DOMAIN names |-> Place(r, d, names[i], 0)] : r \in Roots, d \in Directories, names \in Picks}

Pairs(from, To(_)) == [i \in DOMAIN from |-> [from |-> from[i], to |-> To(from[i])]]
Backwards(plan) == [i \in DOMAIN plan |-> [from |-> plan[i].to, to |-> plan[i].from]]
AllExist(plan) == \A i \in DOMAIN plan : Exists(plan[i].from)

\* No destination exists, and no two are the same.
Free(plan) == \A i \in DOMAIN plan : plan[i].from # plan[i].to =>
                ~Exists(plan[i].to) /\ \A j \in 1..(i - 1) : plan[j].to # plan[i].to

\* moveEntries: what is there already stays, and a selection is of one directory; one conflict
\* stops all of it.
StartMoveEntries(r, selection, d) ==
  LET plan == Pairs(selection, LAMBDA p : [p EXCEPT !.directory = d]) IN
  /\ selection[1].root = r /\ selection[1].directory # d /\ AllExist(plan) /\ Free(plan)
  /\ Starts(r, Job("rename", "do", plan, NoTransfer)) /\ UNCHANGED pendingCut

\* delete-entries.
StartDelete(r, selection) ==
  LET plan == Pairs(selection, LAMBDA p : p) IN
  /\ selection[1].root = r /\ AllExist(plan)
  /\ Starts(r, Job("trash", "do", plan, NoTransfer)) /\ UNCHANGED pendingCut

\* copy-entries and cut-entries: the client keeps the paths, and of a cut its number.
Clip(selection, cut) ==
  LET transfer == IF cut THEN used.commands + 1 ELSE 0 IN
  /\ \A i \in DOMAIN selection : Exists(selection[i])
  /\ Use("commands", MaxTransfers)
  /\ clipboard' = [paths |-> selection, transfer |-> transfer]
  /\ pendingCut' = IF cut THEN clipboard' ELSE NoTransfer
  /\ UNCHANGED <<disk, trash, apart, jobs, steps, excused, faults>>

\* movePaths: the paste of what the server remembers as cut.
StartCut(r, d) ==
  LET plan == Pairs(clipboard.paths, LAMBDA p : [p EXCEPT !.root = r, !.directory = d]) IN
  /\ clipboard # NoTransfer /\ pendingCut = clipboard
  /\ AllExist(plan) /\ Free(plan)
  /\ Starts(r, Job("move", "do", plan, NoTransfer)) /\ UNCHANGED pendingCut

\* uniqueDestination, in turn for each source: the first copy of its name that neither exists nor
\* is taken by a source before it.  There is one such plan, or none.
UniqueDestinations(r, d, sources) ==
  LET To(i, k) == Place(r, d, sources[i].base, k)
      Taken(copies, i, k) == Exists(To(i, k)) \/ \E j \in 1..(i - 1) : To(j, copies[j]) = To(i, k) IN
  {[i \in DOMAIN sources |-> [from |-> sources[i], to |-> To(i, copies[i])]] :
     copies \in {c \in [DOMAIN sources -> 0..MaxCopies] :
                   \A i \in DOMAIN sources : ~Taken(c, i, c[i]) /\ \A k \in 0..(c[i] - 1) : Taken(c, i, k)}}

\* pastePaths: the paste of anything else; what was cut is forgotten.
StartCopy(r, d) ==
  /\ clipboard # NoTransfer /\ pendingCut # clipboard /\ pendingCut' = NoTransfer
  /\ \E plan \in UniqueDestinations(r, d, clipboard.paths) :
       AllExist(plan) /\ Starts(r, Job("copy", "do", plan, NoTransfer))

\* apply: the last step, if what it needs is there and what it makes is not.
StartUndo(r) ==
  LET entry == Last(steps[r].undo)
      back == Backwards(entry.plan) IN
  /\ steps[r].undo # <<>> /\ UNCHANGED pendingCut
  /\ CASE entry.kind \in {"rename", "move"} -> AllExist(back) /\ Free(back) /\ Starts(r, Job("rename", "undo", back, entry))
       [] entry.kind = "copy" -> AllExist(back) /\ Starts(r, Job("trash", "undo", Pairs([i \in DOMAIN back |-> back[i].from], LAMBDA p : p), entry))
       [] entry.kind = "trash" -> (\A i \in DOMAIN back : ~Exists(back[i].to)) /\ Starts(r, Job("restore", "undo", back, entry))
       [] entry.kind = "system-trash-only" -> FALSE

\* What is only in the system's trash is forgotten when it is undone.
UndoSystemTrash(r) ==
  /\ jobs[r] = NoTransfer /\ steps[r].undo # <<>> /\ Last(steps[r].undo).kind = "system-trash-only"
  /\ steps' = [steps EXCEPT ![r].undo = Front(@)]
  /\ UNCHANGED <<disk, trash, apart, jobs, clientVars, used, excused, faults>>

StartRedo(r) ==
  LET entry == Last(steps[r].redo) IN
  /\ steps[r].redo # <<>> /\ UNCHANGED pendingCut
  /\ CASE entry.kind \in {"rename", "move"} -> AllExist(entry.plan) /\ Free(entry.plan) /\ Starts(r, Job("rename", "redo", entry.plan, entry))
       [] entry.kind = "copy" -> Free(entry.plan) /\ Starts(r, Job("copy", "redo", entry.plan, entry))
       [] entry.kind = "trash" -> (\A i \in DOMAIN entry.plan : LiesAt(disk, entry.plan[i].from) = LiesAt(entry.before, entry.plan[i].from))
                                  /\ Starts(r, Job("trash", "redo", entry.plan, entry))
------------------------------
(* The work on the disk, an item a step. *)

Rollback(job) == job.stage \in {"back", "copiedBack"}
Item(job) == IF Rollback(job) THEN Backwards(job.plan)[job.done] ELSE job.plan[job.done + 1]
Works(r, stages) ==
  /\ jobs[r] # NoTransfer /\ jobs[r].stage \in stages
  /\ IF Rollback(jobs[r]) THEN jobs[r].done > 0 ELSE jobs[r].done < Len(jobs[r].plan)

\* The item of r is done, or done back.
Advanced(r, places) ==
  jobs' = [Surprised(places, r) EXCEPT ![r].done = IF Rollback(jobs[r]) THEN @ - 1 ELSE @ + 1,
                                       ![r].stage = IF Rollback(jobs[r]) THEN "back" ELSE "run"]

\* What is lost for others at place p counts as lost unless it came after the job's checks.
Lost(r, p) == IF p \in jobs[r].surprised THEN LiesAt(disk, p) ELSE {}

\* rename(2) of an item: a file replaces a file.
RenameItem(r) ==
  LET p == Item(jobs[r]).from
      q == Item(jobs[r]).to IN
  /\ Works(r, {"run", "back"}) /\ jobs[r].kind \in {"rename", "move"}
  /\ p # q => /\ Exists(p) /\ (Exists(q) => ~IsFolder(LiesAt(disk, p)) /\ ~IsFolder(LiesAt(disk, q)))
              /\ ~(jobs[r].kind = "move" /\ apart /\ p.root # q.root)
  /\ disk' = IF p = q THEN disk ELSE Put(Put(disk, p, {}), q, LiesAt(disk, p))
  /\ excused' = IF p = q THEN excused ELSE excused \cup Lost(r, q)
  /\ Advanced(r, {p, q})
  /\ UNCHANGED <<trash, apart, clientVars, steps, used, faults>>

\* movePhysical from one device to another copies first.
CopyAcross(r) ==
  LET p == Item(jobs[r]).from
      q == Item(jobs[r]).to IN
  /\ Works(r, {"run", "back"}) /\ jobs[r].kind = "move" /\ apart /\ p.root # q.root
  /\ Exists(p) /\ ~Exists(q)
  /\ disk' = Put(disk, q, LiesAt(disk, p))
  /\ jobs' = [Surprised({q}, r) EXCEPT ![r].stage = IF Rollback(jobs[r]) THEN "copiedBack" ELSE "copied"]
  /\ UNCHANGED <<trash, apart, clientVars, steps, used, excused, faults>>

\* Then it removes the source.
RemoveSource(r) ==
  LET p == Item(jobs[r]).from IN
  /\ Works(r, {"copied", "copiedBack"}) /\ Exists(p)
  /\ disk' = Put(disk, p, {}) /\ excused' = excused \cup Lost(r, p)
  /\ Advanced(r, {p})
  /\ UNCHANGED <<trash, apart, clientVars, steps, used, faults>>

CopyItem(r) ==
  LET p == Item(jobs[r]).from
      q == Item(jobs[r]).to IN
  /\ Works(r, {"run"}) /\ jobs[r].kind = "copy" /\ Exists(p) /\ ~Exists(q)
  /\ disk' = Put(disk, q, LiesAt(disk, p))
  /\ Advanced(r, {q})
  /\ UNCHANGED <<trash, apart, clientVars, steps, used, excused, faults>>

TrashItem(r) ==
  LET p == Item(jobs[r]).from IN
  /\ Works(r, {"run"}) /\ jobs[r].kind = "trash"
  /\ Exists(p)
  /\ disk' = Put(disk, p, {}) /\ trash' = trash \cup LiesAt(disk, p)
  /\ Advanced(r, {p})
  /\ UNCHANGED <<apart, clientVars, steps, used, excused, faults>>

\* restoreSnapshots: a new file with what the step has kept.
RestoreItem(r) ==
  LET p == Item(jobs[r]).to IN
  /\ Works(r, {"run"}) /\ jobs[r].kind = "restore" /\ ~Exists(p)
  /\ disk' = Put(disk, p, LiesAt(jobs[r].entry.before, p))
  /\ Advanced(r, {p})
  /\ UNCHANGED <<trash, apart, clientVars, steps, used, excused, faults>>
\* A command that deletes skips what is gone.
SkipGone(r) ==
  /\ Works(r, {"run"}) /\ jobs[r].kind = "trash" /\ jobs[r].way = "do" /\ ~Exists(Item(jobs[r]).from)
  /\ jobs' = [jobs EXCEPT ![r].plan = RemoveAt(@, jobs[r].done + 1)]
  /\ UNCHANGED <<disk, trash, apart, clientVars, steps, used, excused, faults>>

\* What was made is removed again, with what somebody else put there since.
RemoveMade(r) ==
  LET p == Item(jobs[r]).from IN
  /\ Works(r, {"back"}) /\ jobs[r].kind \in {"copy", "restore"}
  /\ disk' = Put(disk, p, {}) /\ excused' = excused \cup Lost(r, p)
  /\ Advanced(r, {p})
  /\ UNCHANGED <<trash, apart, clientVars, steps, used, faults>>
------------------------------
(* Failures. *)

Across(job, p, q) == job.kind = "move" /\ apart /\ p.root # q.root

\* The item cannot be done as the disk is, whether or not the disk works. (A folder that is copied
\* onto a folder is merged with it by Node; no command of the model comes to that.)
Hopeless(job) ==
  LET p == Item(job).from
      q == Item(job).to IN
  IF job.stage \in {"copied", "copiedBack"} THEN ~Exists(p)
  ELSE CASE job.kind \in {"rename", "move"} ->
              p # q /\ (~Exists(p) \/ (Exists(q) /\ (Across(job, p, q) \/ IsFolder(LiesAt(disk, p)) \/ IsFolder(LiesAt(disk, q)))))
         [] job.kind = "copy" -> ~Rollback(job) /\ (~Exists(p) \/ Exists(q))
         [] job.kind = "trash" -> ~Exists(p) /\ job.way # "do"
         [] job.kind = "restore" -> ~Rollback(job) /\ Exists(q)

\* A directory that a cut-out path names may not exist.
Doubtful(job) == Item(job).to.directory = 0

Fails(r) ==
  /\ Works(r, {"run", "copied", "back", "copiedBack"})
  /\ IF Hopeless(jobs[r]) \/ Doubtful(jobs[r]) THEN UNCHANGED used ELSE Use("errors", MaxErrors)

\* Bug: the items done so far are not done back.
NextAfterFailureNone(job) == [job EXCEPT !.stage = "back", !.done = 0]

\* The items done so far are done back, the last one first; what fails then is reported and
\* skipped, except that a copy that is redone stops.
NextAfterFailure(job) ==
  IF ~Rollback(job) THEN [job EXCEPT !.stage = "back"]
  ELSE [job EXCEPT !.stage = "back", !.failed = TRUE, !.done = IF job.kind = "copy" /\ job.way = "redo" THEN 0 ELSE @ - 1]

\* An item fails and nothing of it is done.
FailItem(r) ==
  /\ Fails(r) /\ jobs[r].stage \in {"run", "back"} /\ jobs[r].kind # "trash"
  /\ jobs' = [jobs EXCEPT ![r] = NextAfterFailure(jobs[r])]
  /\ UNCHANGED <<disk, trash, apart, clientVars, steps, excused, faults>>

\* A folder's copy fails when a part of it is there, and that stays.
FailCopy(r) ==
  LET p == Item(jobs[r]).from
      q == Item(jobs[r]).to IN
  /\ Fails(r) /\ jobs[r].stage \in {"run", "back"} /\ (jobs[r].kind = "copy" \/ Across(jobs[r], p, q))
  /\ jobs[r].kind = "copy" => jobs[r].stage = "run"
  /\ Exists(p) /\ ~Exists(q)
  /\ \E part \in (SUBSET LiesAt(disk, p)) \ {{}, LiesAt(disk, p)} : disk' = Put(disk, q, part)
  /\ jobs' = [Surprised({q}, r) EXCEPT ![r] = [NextAfterFailure(jobs[r]) EXCEPT !.partial = TRUE]]
  /\ UNCHANGED <<trash, apart, clientVars, steps, excused, faults>>

\* The source of what was copied across cannot be removed, or only in part: then the copy is
\* removed, and the part is lost.
FailRemove(r) ==
  LET p == Item(jobs[r]).from
      q == Item(jobs[r]).to IN
  /\ Fails(r) /\ jobs[r].stage \in {"copied", "copiedBack"}
  /\ \E left \in ((SUBSET LiesAt(disk, p)) \ {{}}) \cup {LiesAt(disk, p)} :
       /\ disk' = Put(Put(disk, p, left), q, {})
       /\ excused' = excused \cup (LiesAt(disk, p) \ left) \cup Lost(r, q) \cup Lost(r, p)
       /\ jobs' = [Surprised({p, q}, r) EXCEPT ![r] = [NextAfterFailure(jobs[r]) EXCEPT !.partial = @ \/ left # LiesAt(disk, p)]]
  /\ UNCHANGED <<trash, apart, clientVars, steps, faults>>

\* Nothing is taken out of the trash again: what was deleted so far is a step of its own.
FailTrash(r) ==
  /\ Fails(r) /\ jobs[r].stage = "run" /\ jobs[r].kind = "trash"
  /\ jobs' = [jobs EXCEPT ![r].plan = SubSeq(@, 1, jobs[r].done), ![r].failed = TRUE]
  /\ UNCHANGED <<disk, trash, apart, clientVars, steps, excused, faults>>
------------------------------
(* The end of a command. *)

\* Files have been kept to be restored, folders not (prepareDelete).
Recoverable(job) == \A i \in DOMAIN job.plan : ~IsFolder(LiesAt(job.before, job.plan[i].from))

\* The pairs a step keeps; of a cut from another repository where it came from is cut out of a
\* path of that one (registerServerCommands.ts).
Recorded(r, plan) == [i \in DOMAIN plan |-> [to |-> plan[i].to,
                        from |-> IF jobs[r].kind = "move" /\ plan[i].from.root # r THEN Mangled(plan[i].from, r) ELSE plan[i].from]]

Finished(r) == jobs[r] # NoTransfer /\ jobs[r].stage = "run" /\ jobs[r].done = Len(jobs[r].plan)

\* A command is recorded: what was undone cannot be redone any more.
EndCommand(r) ==
  LET job == jobs[r]
      kind == IF job.kind = "trash" /\ ~Recoverable(job) THEN "system-trash-only" ELSE job.kind
      entry == [kind |-> kind, plan |-> Recorded(r, job.plan), before |-> job.before, after |-> disk,
                alone |-> job.surprised = {}, foreign |-> Recorded(r, job.plan) # job.plan] IN
  /\ Finished(r) /\ job.way = "do"
  /\ steps' = IF job.plan = <<>> THEN steps ELSE [steps EXCEPT ![r] = [undo |-> Append(@.undo, entry), redo |-> <<>>]]
  /\ pendingCut' = IF job.kind = "move" THEN NoTransfer ELSE pendingCut
  /\ jobs' = [jobs EXCEPT ![r] = NoTransfer]
  /\ UNCHANGED <<disk, trash, apart, clipboard, used, excused, faults>>

\* A step was undone or redone: it moves to the other stack.
EndApplied(r) ==
  LET job == jobs[r]
      alone == job.surprised = {} /\ job.entry.alone IN
  /\ Finished(r) /\ job.way # "do" /\ ~job.failed
  /\ steps' = [steps EXCEPT ![r] = IF job.way = "undo" THEN [undo |-> Front(@.undo), redo |-> Append(@.redo, job.entry)]
                                                      ELSE [undo |-> Append(@.undo, job.entry), redo |-> Front(@.redo)]]
  /\ faults' = IF alone /\ job.before = (IF job.way = "undo" THEN job.entry.after ELSE job.entry.before)
                       /\ disk # (IF job.way = "undo" THEN job.entry.before ELSE job.entry.after)
               THEN faults \cup {IF job.entry.foreign THEN "cut" ELSE job.way} ELSE faults
  /\ jobs' = [jobs EXCEPT ![r] = NoTransfer]
  /\ UNCHANGED <<disk, trash, apart, clientVars, used, excused>>

\* A failed command; a step that failed stays where it is.
EndFailed(r) ==
  LET job == jobs[r] IN
  /\ job # NoTransfer /\ ((job.stage = "back" /\ job.done = 0) \/ (Finished(r) /\ job.way # "do" /\ job.failed))
  /\ faults' = IF job.kind # "trash" /\ job.surprised = {} /\ ~job.failed /\ ~job.partial /\ disk # job.before
               THEN faults \cup {"failure"} ELSE faults
  /\ jobs' = [jobs EXCEPT ![r] = NoTransfer]
  /\ UNCHANGED <<disk, trash, apart, clientVars, steps, used, excused>>

Command(r) ==
  \/ \E selection \in Selections : StartDelete(r, selection) \/ \E d \in Directories : StartMoveEntries(r, selection, d)
  \/ \E d \in Directories : StartCut(r, d) \/ StartCopy(r, d)
  \/ StartUndo(r) \/ StartRedo(r) \/ UndoSystemTrash(r)

Work(r) ==
  \/ RenameItem(r) \/ CopyAcross(r) \/ RemoveSource(r) \/ CopyItem(r) \/ TrashItem(r) \/ RestoreItem(r)
  \/ SkipGone(r) \/ RemoveMade(r)
  \/ FailItem(r) \/ FailCopy(r) \/ FailRemove(r) \/ FailTrash(r)
  \/ EndCommand(r) \/ EndApplied(r) \/ EndFailed(r)

TransfersNext ==
  \/ \E p \in Places : StrangerCreates(p) \/ StrangerRemoves(p)
  \/ \E selection \in Selections, cut \in BOOLEAN : Clip(selection, cut)
  \/ \E r \in Roots : Command(r) \/ Work(r)

TransfersSpec == TransfersInit /\ [][TransfersNext]_transferVars
------------------------------
(* Properties. *)

\* Whatever was on the disk is there or in the trash, unless another program removed it, it came
\* after a command had looked, or its source could only be removed in part.
NothingIsLost == \A t \in Tokens \ excused : t \in trash \/ \E x \in disk : x[2] = t

\* Nothing is lost, whatever fails and whoever comes between the steps. A command that fails,
\* and whose rollback does not, leaves the disk as it was, except for a part of a folder. To undo a
\* step and to redo it, from the disk it left, gives the disk of before and after it, except for
\* what was cut from another repository.
TransfersHold == NothingIsLost /\ faults \subseteq {"cut"}

\* docs/features.md: "Supported file operations can be undone and redone", so what was cut in one
\* repository and pasted in another goes back when that is undone.
UndoRestoresCut == "cut" \notin faults
==============================
