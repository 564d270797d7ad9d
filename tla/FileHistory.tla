------- MODULE FileHistory -------
(****************************************)
(* src/main/files/FileOperationHistory.ts with the commands that record in *)
(* it (src/main/runtime/registerServerCommands.ts): what each repository *)
(* can undo and redo, and the bytes all repositories together keep for it. *)
(* *)
(* Operations of one repository are serialized, so one task per repository *)
(* stands for its queue.  The limit on snapshot bytes is global: recording *)
(* in one repository evicts steps of another, also while that one undoes. *)
(* *)
(* Steps whose file work differs only in what is moved, copied, trashed or *)
(* rewritten are one kind, "plain".  What their work did to the files is *)
(* kept per step: done, undone, or mixed, when a partial failure or another *)
(* program left at its paths what no attempt to apply the step will accept. *)
(****************************************)
EXTENDS Integers, Sequences, SequencesExt, FiniteSets

CONSTANTS
  Repositories,
  MaxSteps,           \* MAX_STEPS
  MaxSnapshotBytes,   \* MAX_SNAPSHOT_BYTES
  MaxOperations       \* bound: how many operations are recorded

ASSUME HistoryAssumption ==
  /\ Repositories # {}
  /\ MaxSteps \in Nat \ {0} /\ MaxSnapshotBytes \in Nat /\ MaxOperations \in Nat

VARIABLES
  undo, redo,       \* per repository, its stacks, the top last
  snapshotBytes,    \* FileOperationHistory.snapshotBytes
  sequence,         \* FileOperationHistory.sequence
  task,             \* per repository, the operation its queue is running
  files,            \* per recorded step, what its file work left behind
  overtaken         \* history: a step was evicted while it was being applied

historyVars == <<undo, redo, snapshotBytes, sequence, task, files, overtaken>>

Step == [id : 1..MaxOperations, kind : {"plain", "image", "marker"}, bytes : 0..MaxSnapshotBytes]

NoStep == [id |-> 0, kind |-> "marker", bytes |-> 0]

Task == [pc : {"idle", "deleting", "undoing", "redoing"}, step : Step \cup {NoStep},
         prepared : -1..MaxSnapshotBytes]

IdleTask == [pc |-> "idle", step |-> NoStep, prepared |-> -1]

HistoryTypeOK ==
  /\ undo \in [Repositories -> Seq(Step)] /\ redo \in [Repositories -> Seq(Step)]
  /\ \A r \in Repositories : Len(undo[r]) + Len(redo[r]) <= MaxSteps
  /\ snapshotBytes \in Int /\ sequence \in 0..MaxOperations
  /\ task \in [Repositories -> Task]
  /\ files \in [1..MaxOperations -> {"done", "undone", "mixed"}]
  /\ overtaken \in BOOLEAN

HistoryInit ==
  /\ undo = [r \in Repositories |-> <<>>] /\ redo = [r \in Repositories |-> <<>>]
  /\ snapshotBytes = 0 /\ sequence = 0
  /\ task = [r \in Repositories |-> IdleTask]
  /\ files = [n \in 1..MaxOperations |-> "undone"]
  /\ overtaken = FALSE
------------------------------
\* What the snapshots of these steps hold: every byte once.
Bytes(steps) == Cardinality({b \in steps \X (1..MaxSnapshotBytes) : b[2] <= b[1].bytes})

Kept(u, d) == UNION {ToSet(u[r]) \cup ToSet(d[r]) : r \in Repositories}

\* Bug: the room that is made leaves out what comes in.
EvictedBefore(steps, total, incoming) ==
  LET sized == {s \in steps : s.bytes > 0}
  IN  {s \in sized : total - Bytes({t \in sized : t.id < s.id}) > MaxSnapshotBytes}

\* evictFor: oldest first, a step goes when those before it did not make enough room.
Evicted(steps, total, incoming) ==
  LET sized == {s \in steps : s.bytes > 0}
  IN  {s \in sized : total - Bytes({t \in sized : t.id < s.id}) + incoming > MaxSnapshotBytes}

\* A stack without the steps that are gone, the others in their order.
Rest(stack, gone) ==
  LET left == {i \in DOMAIN stack : stack[i] \notin gone}
      Nth(n) == CHOOSE i \in left : Cardinality({j \in left : j <= i}) = n
  IN  [n \in 1..Cardinality(left) |-> stack[Nth(n)]]

Without(stacks, gone) == [r \in Repositories |-> Rest(stacks[r], gone)]

Overtakes(gone) == \E r \in Repositories : task[r].pc \in {"undoing", "redoing"} /\ task[r].step \in gone

\* Bug: one step too many.
TrimmedLate(stack) ==
  IF Len(stack) > MaxSteps + 1 THEN SubSeq(stack, Len(stack) - MaxSteps + 1, Len(stack)) ELSE stack

\* The steps that fall off at the bottom.
Trimmed(stack) ==
  IF Len(stack) > MaxSteps THEN SubSeq(stack, Len(stack) - MaxSteps + 1, Len(stack)) ELSE stack

NoRedo(r) == [redo EXCEPT ![r] = <<>>]

\* record: what was undone is forgotten, room is made, and the oldest steps fall off.
Record(r, kind, bytes) ==
  LET step == [id |-> sequence + 1, kind |-> kind, bytes |-> bytes]
      total == snapshotBytes - Bytes(ToSet(redo[r]))
      gone == Evicted(Kept(undo, NoRedo(r)), total, bytes)
      pushed == Append(Without(undo, gone)[r], step)
  IN
  /\ undo' = [Without(undo, gone) EXCEPT ![r] = Trimmed(pushed)]
  /\ redo' = Without(NoRedo(r), gone)
  /\ snapshotBytes' = total - Bytes(gone) + bytes - Bytes(ToSet(pushed) \ ToSet(Trimmed(pushed)))
  /\ sequence' = sequence + 1
  /\ files' = [files EXCEPT ![step.id] = "done"]
  /\ overtaken' = (overtaken \/ Overtakes(gone))
------------------------------
\* Moving, renaming, creating, pasting or replacing: the file work, then its record.
\* A pasted image whose snapshot could not be taken cannot be redone.
Perform(r) ==
  /\ task[r].pc = "idle" /\ sequence < MaxOperations
  /\ \/ \E bytes \in 0..MaxSnapshotBytes : Record(r, "plain", bytes)
     \/ Record(r, "image", 0)
  /\ UNCHANGED task

\* prepareDelete: the snapshots fit, after making room, or the system Trash must do.
BeginDelete(r, bytes) ==
  LET gone == Evicted(Kept(undo, redo), snapshotBytes, bytes)
      left == snapshotBytes - Bytes(gone)
  IN
  /\ task[r].pc = "idle" /\ sequence < MaxOperations
  /\ \/ \* A folder, a link or too many bytes.
        /\ task' = [task EXCEPT ![r] = [IdleTask EXCEPT !.pc = "deleting"]]
        /\ UNCHANGED <<undo, redo, snapshotBytes, overtaken>>
     \/ /\ undo' = Without(undo, gone) /\ redo' = Without(redo, gone)
        /\ snapshotBytes' = left
        /\ overtaken' = (overtaken \/ Overtakes(gone))
        /\ task' = [task EXCEPT ![r] = [IdleTask EXCEPT !.pc = "deleting",
                      !.prepared = IF left + bytes > MaxSnapshotBytes THEN -1 ELSE bytes]]
  /\ UNCHANGED <<sequence, files>>

\* The items are in the Trash, or some are, or none.
EndDelete(r) ==
  /\ task[r].pc = "deleting"
  /\ task' = [task EXCEPT ![r] = IdleTask]
  /\ \/ /\ sequence < MaxOperations
        /\ IF task[r].prepared = -1 THEN Record(r, "marker", 0)
           ELSE \E bytes \in 0..task[r].prepared : Record(r, "plain", bytes)
     \/ UNCHANGED <<undo, redo, snapshotBytes, sequence, files, overtaken>>

\* apply of a step that only the system Trash can undo.
PopMarker(r) ==
  /\ task[r].pc = "idle"
  /\ undo[r] # <<>> /\ Last(undo[r]).kind = "marker"
  /\ undo' = [undo EXCEPT ![r] = Front(@)]
  /\ UNCHANGED <<redo, snapshotBytes, sequence, task, files, overtaken>>

\* apply up to its file work: the step on top, which stays there meanwhile.
BeginApply(r, pc) ==
  LET source == IF pc = "undoing" THEN undo[r] ELSE redo[r] IN
  /\ task[r].pc = "idle"
  /\ source # <<>> /\ Last(source).kind # "marker"
  /\ task' = [task EXCEPT ![r] = [IdleTask EXCEPT !.pc = pc, !.step = Last(source)]]
  /\ UNCHANGED <<undo, redo, snapshotBytes, sequence, files, overtaken>>

Popped(stack) == IF stack = <<>> THEN stack ELSE Front(stack)

\* The file work succeeded: whatever is on top of the stack now goes, and the applied step
\* changes sides.
Applied(r) ==
  LET step == task[r].step
      undoing == task[r].pc = "undoing"
      lost == undoing /\ step.kind = "image"
  IN
  /\ task[r].pc \in {"undoing", "redoing"}
  /\ files[step.id] = IF undoing THEN "done" ELSE "undone"
  /\ files' = [files EXCEPT ![step.id] = IF undoing THEN "undone" ELSE "done"]
  /\ undo' = [undo EXCEPT ![r] = IF undoing THEN Popped(@) ELSE Append(@, step)]
  /\ redo' = [redo EXCEPT ![r] = IF ~ undoing THEN Popped(@) ELSE IF lost THEN @ ELSE Append(@, step)]
  /\ snapshotBytes' = snapshotBytes - (IF lost THEN step.bytes ELSE 0)
  /\ task' = [task EXCEPT ![r] = IdleTask]
  /\ UNCHANGED <<sequence, overtaken>>

\* It was refused, or failed: rolled back, or half done when a rollback or the Trash failed.
Conflict(r) ==
  /\ task[r].pc \in {"undoing", "redoing"}
  /\ files' \in {files, [files EXCEPT ![task[r].step.id] = "mixed"]}
  /\ task' = [task EXCEPT ![r] = IdleTask]
  /\ UNCHANGED <<undo, redo, snapshotBytes, sequence, overtaken>>

\* Somebody else changes the files of a step that is kept.
ChangedOutside(n) ==
  /\ \E s \in Kept(undo, redo) : s.id = n
  /\ files[n] # "mixed"
  /\ files' = [files EXCEPT ![n] = "mixed"]
  /\ UNCHANGED <<undo, redo, snapshotBytes, sequence, task, overtaken>>

HistoryNext ==
  \/ \E r \in Repositories :
       \/ Perform(r) \/ EndDelete(r) \/ PopMarker(r) \/ Applied(r) \/ Conflict(r)
       \/ \E bytes \in 0..MaxSnapshotBytes : BeginDelete(r, bytes)
       \/ \E pc \in {"undoing", "redoing"} : BeginApply(r, pc)
  \/ \E n \in 1..MaxOperations : ChangedOutside(n)

HistorySpec == HistoryInit /\ [][HistoryNext]_historyVars
------------------------------
(* Undo and redo go through a repository's operations in their order: the *)
(* steps that can be undone, then those that can be redone from the top *)
(* down, are in the order they were performed. *)
InOrder ==
  \A r \in Repositories :
    LET all == undo[r] \o Reverse(redo[r])
    IN  \A i, j \in DOMAIN all : i < j => all[i].id < all[j].id

(* The stacks tell the truth about the files: no step is offered for undo *)
(* whose work is undone already, and none for redo whose work is in place. *)
StacksMatchFiles ==
  \A r \in Repositories :
    /\ \A i \in DOMAIN undo[r] : files[undo[r][i].id] # "undone"
    /\ \A i \in DOMAIN redo[r] : files[redo[r][i].id] # "done"

(* The bytes counted are the bytes kept, and at most the limit, as long as *)
(* no step was evicted while it was being applied. *)
BytesCounted ==
  ~ overtaken => /\ snapshotBytes = Bytes(Kept(undo, redo))
                 /\ snapshotBytes <= MaxSnapshotBytes

(* The history of every repository is sound while the operations of all of *)
(* them interleave. *)
HistoryIsSound == InOrder /\ StacksMatchFiles /\ BytesCounted

(* Undoing or redoing a step takes no other step out of the history. *)
OthersStay ==
  [][\A r \in Repositories :
       task[r].pc \in {"undoing", "redoing"} /\ task'[r].pc = "idle"
       => (ToSet(undo[r]) \cup ToSet(redo[r])) \ {task[r].step}
          \subseteq ToSet(undo'[r]) \cup ToSet(redo'[r])]_historyVars
==============================
