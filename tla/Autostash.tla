------- MODULE Autostash -------
(****************************************)
(* The safety stash of src/main/git/GitRepositoryOperations.ts: a pull *)
(* (pullInContext, restoreAutostash) and a branch switch that moves the *)
(* changes along (switchBranch, dropStash) put the uncommitted changes of a *)
(* worktree aside, move its branch, and bring them back. *)
(* *)
(* The stash is one list for all worktrees of a repository.  A switch is one *)
(* write task on the common directory; a pull is none, each of its commands *)
(* locks its worktree.  So pulls mix with each other and with a switch, also *)
(* two of one worktree.  Git is modelled by its effects: each command can *)
(* fail, with what it may have done.  A set of changes is a set of numbers. *)
(****************************************)
EXTENDS Integers, Sequences, SequencesExt, FiniteSets

CONSTANTS
  Worktrees,
  Requests,       \* what clients ask for at once, in any worktrees
  MaxEdits,       \* bound: changes that the user makes
  MaxStashes   \* bound: pulls and switches that are started

ASSUME AutostashAssumption == MaxEdits \in Nat /\ MaxStashes \in Nat

VARIABLES
  tree,       \* per worktree its uncommitted changes
  committed,  \* the changes that were committed
  unmerged,   \* worktrees with conflicts or a rebase under way
  objects,    \* the stash commits ever made, by their oid
  stash,      \* refs/stash: the oids of its entries, the newest first
  operation,  \* per request its pull or switch, also when it has ended
  edits, started,   \* counters
  met,        \* history: two operations were under way at once
  mistaken,   \* history: an operation took an entry for its own that it had not pushed
  slipped     \* history: a drop removed another entry than the one it was to

stashVars == <<tree, committed, unmerged, objects, stash, operation, edits, started, met, mistaken, slipped>>

StashChange == 1..MaxEdits
Oid == Nat     \* 0: there is no stash

\* had is what the status of the worktree `in` listed first, previous the stash before,
\* oid the entry the operation takes for its own, place its selector.
\* History: the entry that it pushed; another operation of its worktree ran beside or after it.
Operation == [kind : {"pull", "move"}, in : Worktrees \cup {"none"},
              at : {"previous", "push", "oid", "update", "abort", "apply", "retry", "unstage", "find", "drop", "ended"},
              had : SUBSET StashChange, previous : Oid, oid : Oid, place : Nat, failed : BOOLEAN,
              result : {"none", "success", "kept", "error"}, pushed : Oid, crowded : BOOLEAN]

StashTypeOK ==
  /\ tree \in [Worktrees -> SUBSET StashChange] /\ committed \subseteq StashChange /\ unmerged \subseteq Worktrees
  /\ objects \in Seq(SUBSET StashChange) /\ stash \in Seq(DOMAIN objects)
  /\ operation \in [Requests -> Operation]
  /\ edits \in 0..MaxEdits /\ started \in 0..MaxStashes
  /\ met \in BOOLEAN /\ mistaken \in BOOLEAN /\ slipped \in BOOLEAN

Unused ==
  [kind |-> "pull", in |-> "none", at |-> "ended", had |-> {}, previous |-> 0, oid |-> 0, place |-> 0,
   failed |-> FALSE, result |-> "none", pushed |-> 0, crowded |-> FALSE]

StashInit ==
  /\ tree = [w \in Worktrees |-> {}] /\ committed = {} /\ unmerged = {} /\ objects = <<>> /\ stash = <<>>
  /\ operation = [r \in Requests |-> Unused]
  /\ edits = 0 /\ started = 0 /\ met = FALSE /\ mistaken = FALSE /\ slipped = FALSE
------------------------------
(* Git, by its effects. *)

Newest == IF stash = <<>> THEN 0 ELSE Head(stash)

At(r, kind, at) == operation[r].kind \in kind /\ operation[r].at = at
Goto(r, at) == operation' = [operation EXCEPT ![r].at = at]
End(r, result) == operation' = [operation EXCEPT ![r].at = "ended", ![r].result = result]

\* stash push --include-untracked: the entry is stored, then the worktree cleaned.  With
\* conflicts it fails, with nothing to save it makes no entry.
StashPush(w) ==
  /\ tree[w] # {} /\ w \notin unmerged
  /\ objects' = Append(objects, tree[w]) /\ stash' = <<Len(objects')>> \o stash

\* stash apply by oid, which also finds an entry that left the list.
StashApply(w, oid) ==
  /\ w \notin unmerged /\ UNCHANGED unmerged
  /\ tree' = [tree EXCEPT ![w] = @ \cup objects[oid]]

\* A failed apply has brought back all of the changes or none, perhaps with conflicts.
StashApplyFails(w, oid) ==
  /\ tree' \in {tree, [tree EXCEPT ![w] = @ \cup objects[oid]]}
  /\ unmerged' \in {unmerged, unmerged \cup {w}}

Frame == UNCHANGED <<committed, edits, started, met>>
------------------------------
(* The operations, one action per command. *)

\* The user, or a program, changes a file.
Edit(w) ==
  /\ edits < MaxEdits /\ edits' = edits + 1
  /\ tree' = [tree EXCEPT ![w] = @ \cup {edits'}]
  /\ UNCHANGED <<committed, unmerged, objects, stash, operation, started, met, mistaken, slipped>>

\* The user commits, also between two commands of an operation.
CommitEdits(w) ==
  /\ tree[w] # {} /\ w \notin unmerged
  /\ committed' = committed \cup tree[w] /\ tree' = [tree EXCEPT ![w] = {}]
  /\ UNCHANGED <<unmerged, objects, stash, operation, edits, started, met, mistaken, slipped>>

\* The user resolves the conflicts, or ends the rebase.
Resolve(w) ==
  /\ w \in unmerged /\ unmerged' = unmerged \ {w}
  /\ UNCHANGED <<tree, committed, objects, stash, operation, edits, started, met, mistaken, slipped>>

StashBusy(r) == operation[r].at # "ended"
Occupied(w) == \E r \in Requests : StashBusy(r) /\ operation[r].in = w

Start(r, w, kind) ==
  /\ ~StashBusy(r) /\ started < MaxStashes /\ started' = started + 1
  /\ operation' = [p \in Requests |->
        IF p # r THEN [operation[p] EXCEPT !.crowded = @ \/ operation[p].in = w]
        ELSE [Unused EXCEPT !.kind = kind, !.in = w, !.at = IF tree[w] = {} THEN "update" ELSE "previous",
                            !.had = tree[w], !.crowded = Occupied(w)]]
  /\ met' = (met \/ \E p \in Requests : StashBusy(p))
  /\ UNCHANGED <<tree, committed, unmerged, objects, stash, edits, mistaken, slipped>>

\* pullInContext up to the fetched status: conflicts or an operation stop it.
StartPull(r, w) == w \notin unmerged /\ Start(r, w, "pull")

\* switchBranch with moveChanges: it has the write lock of the common directory.
StartMove(r, w) ==
  /\ \A p \in Requests : StashBusy(p) => operation[p].kind # "move"
  /\ Start(r, w, "move")

ReadPrevious(r) ==
  /\ At(r, {"pull", "move"}, "previous")
  /\ operation' = [operation EXCEPT ![r].previous = Newest, ![r].at = "push"]
  /\ UNCHANGED <<tree, unmerged, objects, stash, mistaken, slipped>> /\ Frame

PushStash(r) ==
  /\ At(r, {"pull", "move"}, "push")
  /\ LET w == operation[r].in IN
     \/ /\ StashPush(w) /\ tree' = [tree EXCEPT ![w] = {}]
        /\ operation' = [operation EXCEPT ![r].pushed = Len(objects'), ![r].at = "oid"]
     \/ StashPush(w) /\ End(r, "error") /\ UNCHANGED tree
     \/ tree[w] = {} /\ Goto(r, "oid") /\ UNCHANGED <<tree, objects, stash>>
     \/ End(r, "error") /\ UNCHANGED <<tree, objects, stash>>
  /\ UNCHANGED <<unmerged, mistaken, slipped>> /\ Frame

\* The newest entry is taken for the one just pushed.
Saved(r) == Newest # 0 /\ Newest # operation[r].previous

ReadOid(r) ==
  /\ At(r, {"pull", "move"}, "oid")
  /\ \/ /\ Saved(r) /\ operation' = [operation EXCEPT ![r].oid = Newest, ![r].at = "update"]
        /\ mistaken' = (mistaken \/ Newest # operation[r].pushed)
     \/ End(r, "error") /\ UNCHANGED mistaken
  /\ UNCHANGED <<tree, unmerged, objects, stash, slipped>> /\ Frame

\* What follows on a move of the branch that failed.
AfterFailure(r) ==
  IF operation[r].kind = "pull" /\ operation[r].in \in unmerged' THEN "abort"
  ELSE IF operation[r].oid # 0 THEN "apply" ELSE "none"

\* The rebase, the fast-forward or the switch.  A rebase can stop half-way.
Update(r) ==
  /\ At(r, {"pull", "move"}, "update")
  /\ \/ /\ operation[r].in \notin unmerged /\ UNCHANGED unmerged
        /\ IF operation[r].oid = 0 THEN End(r, "success") ELSE Goto(r, "apply")
     \/ /\ unmerged' \in {unmerged} \cup (IF operation[r].kind = "pull" THEN {unmerged \cup {operation[r].in}} ELSE {})
        /\ IF AfterFailure(r) = "none" THEN End(r, "error")
           ELSE operation' = [operation EXCEPT ![r].at = AfterFailure(r), ![r].failed = TRUE]
  /\ UNCHANGED <<tree, objects, stash, mistaken, slipped>> /\ Frame

\* abortRebase: whether it worked is not looked at.
AbortRebase(r) ==
  /\ At(r, {"pull"}, "abort")
  /\ unmerged' \in {unmerged, unmerged \ {operation[r].in}}
  /\ IF operation[r].oid # 0 THEN Goto(r, "apply") ELSE End(r, "error")
  /\ UNCHANGED <<tree, objects, stash, mistaken, slipped>> /\ Frame

\* Bug: after a failed apply the stash is dropped like after one that worked.
AfterApplyAny(r, ok) == IF operation[r].kind = "move" /\ ~operation[r].failed THEN "unstage" ELSE "find"

\* What follows on an apply: a pull whose worktree is still clean tries once more without
\* the index.
AfterApply(r, ok) ==
  IF ok THEN IF operation[r].kind = "move" /\ ~operation[r].failed THEN "unstage" ELSE "find"
  ELSE IF At(r, {"pull"}, "apply") /\ operation[r].in \notin unmerged' /\ tree'[operation[r].in] = {} THEN "retry"
  ELSE "none"

\* A switch that is rolled back reports its own failure, anything else the stash.
ApplyStash(r) ==
  /\ At(r, {"pull", "move"}, "apply") \/ At(r, {"pull"}, "retry")
  /\ \E ok \in BOOLEAN :
       /\ IF ok THEN StashApply(operation[r].in, operation[r].oid) ELSE StashApplyFails(operation[r].in, operation[r].oid)
       /\ IF AfterApply(r, ok) # "none" THEN Goto(r, AfterApply(r, ok))
          ELSE IF operation[r].kind = "move" /\ operation[r].failed THEN End(r, "error")
          ELSE End(r, "kept")
  /\ UNCHANGED <<objects, stash, mistaken, slipped>> /\ Frame

UnstageEdits(r) ==
  /\ At(r, {"move"}, "unstage")
  /\ Goto(r, "find") \/ End(r, "kept")
  /\ UNCHANGED <<tree, unmerged, objects, stash, mistaken, slipped>> /\ Frame

Finish(r) == End(r, IF operation[r].failed THEN "error" ELSE "success")

\* stash list, for the selector of the entry; a failure ends the tidying up.
FindStash(r) ==
  /\ At(r, {"pull", "move"}, "find")
  /\ \/ /\ operation[r].oid \in Range(stash)
        /\ operation' = [operation EXCEPT ![r].at = "drop",
              ![r].place = CHOOSE i \in DOMAIN stash : stash[i] = operation[r].oid]
     \/ Finish(r)
  /\ UNCHANGED <<tree, unmerged, objects, stash, mistaken, slipped>> /\ Frame

\* stash drop, by the selector that was found.
DropStash(r) ==
  /\ At(r, {"pull", "move"}, "drop") /\ Finish(r)
  /\ \/ /\ operation[r].place \in DOMAIN stash /\ stash' = RemoveAt(stash, operation[r].place)
        /\ slipped' = (slipped \/ stash[operation[r].place] # operation[r].oid)
     \/ UNCHANGED <<stash, slipped>>
  /\ UNCHANGED <<tree, unmerged, objects, mistaken>> /\ Frame

\* The server ends in the middle of everything.
StashCrash ==
  /\ \E r \in Requests : StashBusy(r)
  /\ operation' = [r \in Requests |-> [operation[r] EXCEPT !.at = "ended", !.result = "none"]]
  /\ UNCHANGED <<tree, committed, unmerged, objects, stash, edits, started, met, mistaken, slipped>>

StashNext ==
  \/ \E w \in Worktrees :
       Edit(w) \/ CommitEdits(w) \/ Resolve(w) \/ \E r \in Requests : StartPull(r, w) \/ StartMove(r, w)
  \/ \E r \in Requests :
       \/ ReadPrevious(r) \/ PushStash(r) \/ ReadOid(r) \/ Update(r) \/ AbortRebase(r) \/ ApplyStash(r)
       \/ UnstageEdits(r) \/ FindStash(r) \/ DropStash(r)
  \/ StashCrash

StashSpec == StashInit /\ [][StashNext]_stashVars
------------------------------
InTree(c) == \E w \in Worktrees : c \in tree[w]
InStash(c) == \E oid \in Range(stash) : c \in objects[oid]

\* docs/features.md:168 says that a recovery stash is kept when local changes cannot be
\* restored: a change the user made is committed, in a worktree or in the stash list.
StashKept == \A c \in (1..edits) \ committed : InTree(c) \/ InStash(c)

\* Whatever operations run beside each other, in one worktree or in several, and whatever
\* fails or crashes: no change is lost but by a drop that hit another entry, the finding
\* about GitRepositoryOperations.ts:1301.
ChangesKept == slipped \/ StashKept

\* What an operation reports is so.  After a success with the entry it pushed, the changes it
\* put aside are back in its worktree, if no other operation ran there.  A stash it reports
\* for recovery is in the list and holds what the status had listed, as long as nobody took
\* another's entry (GitRepositoryOperations.ts:582).
OutcomeIsTrue ==
  \A r \in Requests : LET o == operation[r] IN
    /\ o.result = "success" /\ o.oid = o.pushed /\ ~o.crowded => o.had \subseteq tree[o.in] \cup committed
    /\ o.result = "kept" /\ ~mistaken /\ ~slipped =>
         o.oid \in Range(stash) /\ (~o.crowded => o.had \subseteq objects[o.oid] \cup committed)

\* One operation at a time neither takes nor drops an entry that is not its own.
EntriesAreOwn == mistaken \/ slipped => met

\* Local changes that were put aside for another command survive it, and what is reported
\* about them is so.
ChangesAreSafe == ChangesKept /\ OutcomeIsTrue /\ EntriesAreOwn
==============================
