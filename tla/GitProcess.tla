------- MODULE GitProcess -------
(****************************************)
(* src/main/git/GitProcess.ts: every Git child of the runtime.  Writes *)
(* queue per lock key (WriteLock) and invalidate the repository's shared *)
(* reads (ReadSingleFlight) when their task starts and ends and around *)
(* every command; reads of a directory share a child while nothing was *)
(* written. *)
(* *)
(* A repository's content is a version; a running write, or another *)
(* program, may advance it at any moment. *)
(****************************************)
EXTENDS WriteLock, ReadSingleFlight

CONSTANTS
  Dirs,         \* worktree directories
  CommonDirs,   \* the Git common directory of every repository
  CommonDir,    \* the common directory of a worktree
  MaxVersion    \* bound: how often the repositories change in a run

ASSUME GitAssumption ==
  /\ CommonDir \in [Dirs -> CommonDirs]
  /\ Dirs \cap CommonDirs = {}
  /\ Scopes = Dirs \cup CommonDirs
  /\ Keys = Dirs
  /\ LockKeys = Dirs \cup CommonDirs
  /\ MaxVersion \in Nat

VARIABLES
  registered,   \* directories in repositoryScopes
  cwd,          \* the directory a task's commands run in
  version,      \* per repository, its content
  committed     \* history: per scope, the content when a write there last ended

gitVars == <<registered, cwd, version, committed>>
vars == <<lockVars, readVars, gitVars>>

\* readScope(cwd): a directory is its own scope until it is registered.
Scope(d) == IF d \in registered THEN CommonDir[d] ELSE d

\* readScope of a lock key: a common directory is never registered under another.
KeyScope(k) == IF k \in Dirs THEN Scope(k) ELSE k

TypeOK ==
  /\ LockTypeOK
  /\ ReadTypeOK
  /\ registered \in SUBSET Dirs
  /\ cwd \in [Writers -> Dirs]
  /\ version \in [CommonDirs -> Nat]
  /\ committed \in [Scopes -> Nat]

AnyDir == CHOOSE d \in Dirs : TRUE

Init ==
  /\ LockInit
  /\ ReadInit
  /\ registered = {}
  /\ cwd = [w \in Writers |-> AnyDir]
  /\ version = [c \in CommonDirs |-> 0]
  /\ committed = [s \in Scopes |-> 0]

\* invalidate(cwd), as a step on the flights.
InvalidateScope(s) == flight' = Invalidated(flight, s) /\ UNCHANGED reader
------------------------------
\* registerRepository: the old scope is invalidated before the mapping changes.
Register(d) ==
  /\ d \notin registered
  /\ InvalidateScope(Scope(d))
  /\ registered' = registered \cup {d}
  /\ UNCHANGED <<lockVars, cwd, version, committed>>

\* unregisterRepository
Unregister(d) ==
  /\ d \in registered
  /\ InvalidateScope(Scope(d))
  /\ registered' = registered \ {d}
  /\ UNCHANGED <<lockVars, cwd, version, committed>>

\* runWrite and runWriteTask: ask for the lock of the directory, or of the common
\* directory for branch and worktree management.
AskWrite(w, d) ==
  /\ \E k \in {d, CommonDir[d]} : Enqueue(w, k)
  /\ cwd' = [cwd EXCEPT ![w] = d]
  /\ UNCHANGED <<readVars, registered, version, committed>>

BeginTask(w) ==
  /\ Enter(w)
  /\ InvalidateScope(KeyScope(lockKey[w]))
  /\ UNCHANGED gitVars

\* runDirect of a command that may write: invalidate, then spawn.
StartCommand(w) ==
  /\ pc[w] = "inside"
  /\ pc' = [pc EXCEPT ![w] = "running"]
  /\ InvalidateScope(Scope(cwd[w]))
  /\ UNCHANGED <<tail, lockKey, previous, line, gitVars>>

\* Content changes at any moment: a running command writes, or another program does.
ContentChanges(c) ==
  /\ version[c] < MaxVersion
  /\ version' = [version EXCEPT ![c] = @ + 1]
  /\ UNCHANGED <<lockVars, readVars, registered, cwd, committed>>

\* Bug: the end of a command does not invalidate.
EndCommandQuietly(w) ==
  /\ pc[w] = "running"
  /\ pc' = [pc EXCEPT ![w] = "inside"]
  /\ committed' = [committed EXCEPT ![Scope(cwd[w])] = version[CommonDir[cwd[w]]]]
  /\ UNCHANGED <<tail, lockKey, previous, line, readVars, registered, cwd, version>>

\* The child ended, with success, an error or its timeout: the finally of runDirect.
EndCommand(w) ==
  /\ pc[w] = "running"
  /\ pc' = [pc EXCEPT ![w] = "inside"]
  /\ InvalidateScope(Scope(cwd[w]))
  /\ committed' = [committed EXCEPT ![Scope(cwd[w])] = version[CommonDir[cwd[w]]]]
  /\ UNCHANGED <<tail, lockKey, previous, line, registered, cwd, version>>

EndTask(w) ==
  /\ Release(w)
  /\ InvalidateScope(KeyScope(lockKey[w]))
  /\ cwd' = [cwd EXCEPT ![w] = AnyDir]
  /\ UNCHANGED <<registered, version, committed>>

\* shareRead: the scope is looked up once, before the attempts.
AskRead(r, d) ==
  /\ \E retry \in BOOLEAN : RunRead(r, Scope(d), d, retry, committed[Scope(d)])
  /\ UNCHANGED <<lockVars, gitVars>>

ReadLooks(f) ==
  /\ Look(f, version[CommonDir[flight[f].key]])
  /\ UNCHANGED <<lockVars, gitVars>>

ReadLands(f) ==
  /\ \E failed \in BOOLEAN : Land(f, failed)
  /\ UNCHANGED <<lockVars, gitVars>>

ReadReturns(r) ==
  /\ ReturnRead(r) \/ RetryRead(r, committed[reader[r].scope])
  /\ UNCHANGED <<lockVars, gitVars>>

ReadAgain(r) == CallerDone(r) /\ UNCHANGED <<lockVars, gitVars>>

Next ==
  \/ \E d \in Dirs : Register(d) \/ Unregister(d)
  \/ \E w \in Writers, d \in Dirs : AskWrite(w, d)
  \/ \E w \in Writers : BeginTask(w) \/ StartCommand(w)
                        \/ EndCommand(w) \/ EndTask(w)
  \/ \E c \in CommonDirs : ContentChanges(c)
  \/ \E r \in Readers, d \in Dirs : AskRead(r, d)
  \/ \E f \in Flights : ReadLooks(f) \/ ReadLands(f)
  \/ \E r \in Readers : ReadReturns(r) \/ ReadAgain(r)

(* A Git child ends (its timeout kills it), a task issues finitely many *)
(* commands, and promise continuations run.  Nobody has to ask for anything. *)
Fairness ==
  /\ \A w \in Writers : /\ WF_vars(BeginTask(w)) /\ WF_vars(EndCommand(w))
                        /\ SF_vars(EndTask(w))
  /\ \A f \in Flights : WF_vars(ReadLands(f))
  /\ \A r \in Readers : WF_vars(ReadReturns(r))

Spec == Init /\ [][Next]_vars
FairSpec == Spec /\ Fairness
------------------------------
(* A read that is still shareable reflects every write that ended in its *)
(* scope: a caller that joins it now cannot be given older content. *)
SharedReadsFresh ==
  \A f \in Flights :
    flight[f].gen = "current" /\ flight[f].seen # None
    => flight[f].seen >= committed[flight[f].scope]

(* Read your writes: an answer is never older than the last write that had *)
(* ended in the scope when the answering attempt began, even the answer of *)
(* the last attempt, which is given although it was invalidated. *)
ReadYourWrites ==
  \A r \in Readers :
    reader[r].pc = "returned" /\ reader[r].result # None
    => reader[r].result >= reader[r].floor
==============================
