------- MODULE WriteLock -------
(****************************************)
(* GitProcess.withWriteLock: a chain of promises per lock key.  The map *)
(* holds, per key, the promise of the task asked for last; a new task waits *)
(* for that promise and replaces it; a finished task removes the entry only *)
(* when it is still its own. *)
(* *)
(* line is a history variable: the tasks of a key in the order they asked. *)
(* Nothing reads it; it is the witness that the chain is a queue. *)
(****************************************)
EXTENDS Naturals, Sequences

CONSTANTS
  Writers,    \* write tasks
  LockKeys,   \* worktree paths and common directories, normalised
  NoWriter

ASSUME WriteAssumption == NoWriter \notin Writers /\ LockKeys # {}

VARIABLES
  tail,       \* writeQueues: per key the last task, NoWriter when no entry
  pc,         \* where a task is: idle, queued, inside, running (its git child runs)
  lockKey,    \* the key a queued or running task locks
  previous,   \* the unfinished task a queued task awaits, NoWriter when none
  line        \* history: per key the unfinished tasks, oldest first

lockVars == <<tail, pc, lockKey, previous, line>>

Active(w) == pc[w] # "idle"
Inside == {w \in Writers : pc[w] \in {"inside", "running"}}

LockTypeOK ==
  /\ tail \in [LockKeys -> Writers \cup {NoWriter}]
  /\ pc \in [Writers -> {"idle", "queued", "inside", "running"}]
  /\ lockKey \in [Writers -> LockKeys]
  /\ previous \in [Writers -> Writers \cup {NoWriter}]
  /\ line \in [LockKeys -> Seq(Writers)]

AnyLockKey == CHOOSE k \in LockKeys : TRUE

LockInit ==
  /\ tail = [k \in LockKeys |-> NoWriter]
  /\ pc = [w \in Writers |-> "idle"]
  /\ lockKey = [w \in Writers |-> AnyLockKey]
  /\ previous = [w \in Writers |-> NoWriter]
  /\ line = [k \in LockKeys |-> <<>>]

\* Bug: the map keeps the first task of a burst instead of the last.
EnqueueKeepsFirst(w, k) ==
  /\ pc[w] = "idle"
  /\ pc' = [pc EXCEPT ![w] = "queued"]
  /\ lockKey' = [lockKey EXCEPT ![w] = k]
  /\ previous' = [previous EXCEPT ![w] = tail[k]]
  /\ tail' = [tail EXCEPT ![k] = IF @ = NoWriter THEN w ELSE @]
  /\ line' = [line EXCEPT ![k] = Append(@, w)]

\* withWriteLock up to `await previous`.
Enqueue(w, k) ==
  /\ pc[w] = "idle"
  /\ pc' = [pc EXCEPT ![w] = "queued"]
  /\ lockKey' = [lockKey EXCEPT ![w] = k]
  /\ previous' = [previous EXCEPT ![w] = tail[k]]
  /\ tail' = [tail EXCEPT ![k] = w]
  /\ line' = [line EXCEPT ![k] = Append(@, w)]

\* After `await previous`.
Enter(w) ==
  /\ pc[w] = "queued"
  /\ previous[w] = NoWriter
  /\ pc' = [pc EXCEPT ![w] = "inside"]
  /\ UNCHANGED <<tail, lockKey, previous, line>>

\* Bug: the entry is deleted although a later task has replaced it.
ReleaseDropsLater(w) ==
  LET k == lockKey[w] IN
  /\ pc[w] = "inside"
  /\ pc' = [pc EXCEPT ![w] = "idle"]
  /\ previous' = [v \in Writers |-> IF previous[v] = w THEN NoWriter ELSE previous[v]]
  /\ tail' = [tail EXCEPT ![k] = NoWriter]
  /\ lockKey' = [lockKey EXCEPT ![w] = AnyLockKey]
  /\ line' = [line EXCEPT ![k] = Tail(@)]

\* Bug: release() is not called, as after an error outside the finally block.
ReleaseWakesNobody(w) ==
  LET k == lockKey[w] IN
  /\ pc[w] = "inside"
  /\ pc' = [pc EXCEPT ![w] = "idle"]
  /\ tail' = [tail EXCEPT ![k] = IF @ = w THEN NoWriter ELSE @]
  /\ lockKey' = [lockKey EXCEPT ![w] = AnyLockKey]
  /\ line' = [line EXCEPT ![k] = Tail(@)]
  /\ UNCHANGED previous

\* The finally block: release() resolves the promise the next task awaits, and the
\* map entry goes when no later task replaced it.
Release(w) ==
  LET k == lockKey[w] IN
  /\ pc[w] = "inside"
  /\ pc' = [pc EXCEPT ![w] = "idle"]
  /\ previous' = [v \in Writers |-> IF previous[v] = w THEN NoWriter ELSE previous[v]]
  /\ tail' = [tail EXCEPT ![k] = IF @ = w THEN NoWriter ELSE @]
  /\ lockKey' = [lockKey EXCEPT ![w] = AnyLockKey]
  /\ line' = [line EXCEPT ![k] = Tail(@)]
------------------------------
(* Two tasks under the same lock key are never inside at once: Git's index *)
(* and refs are not written by two OpenTig children of one key. *)
WriteExclusion ==
  \A v, w \in Inside : lockKey[v] = lockKey[w] => v = w

(* The chain is a first-in first-out queue per key (WriteQueue). *)
Queue == INSTANCE WriteQueue WITH inside <- Inside
ChainIsQueue == Queue!Spec

(* A task that was asked for gets its turn, however many others are asked. *)
EveryWriteRuns == \A w \in Writers : pc[w] = "queued" ~> pc[w] = "inside"
==============================
