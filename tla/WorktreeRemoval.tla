------- MODULE WorktreeRemoval -------
(****************************************)
(* Removing a linked worktree: removeWorktree, dropWorktreeRecord and *)
(* linkedWorktreeAdmin of src/main/git/GitRepositoryOperations.ts, the *)
(* deletion of its folder in src/main/git/worktreeDeletion.ts (Windows) or *)
(* by Git, and WorktreeRemovalTracker.ts, which lets a second request join. *)
(* *)
(* A worktree is a folder with entries and a .git file, and a record in the *)
(* common directory.  The lock is held to decide and to record, not while *)
(* the folder is deleted; meanwhile other programs hold entries open, make *)
(* new ones, and take the folder away (a removable drive) or bring it back. *)
(****************************************)
EXTENDS Integers, FiniteSets

CONSTANTS
  Entries,    \* what a checked-out folder can hold, besides .git
  MaxEvents   \* bound: what other programs do

ASSUME RemovalAssumption == MaxEvents \in Nat

VARIABLES
  platform,   \* worktreeDeletion: who deletes the folder
  folder,     \* the worktree's folder
  held,       \* entries that another program has open
  record,     \* whether Git has a record of the worktree
  removal,    \* the removal that is tracked as running
  result,     \* how the last removal ended, until something else happens
  events,     \* counter
  broken,     \* history: the .git file may be gone for a reason the code states
  returned    \* history: the folder came back after a clean-up was decided

removalVars == <<platform, folder, held, record, removal, result, events, broken, returned>>

Gone == [exists |-> FALSE, git |-> FALSE, files |-> {}]
Folder == [exists : BOOLEAN, git : BOOLEAN, files : SUBSET Entries]

\* entries is what is still to be deleted, failed how Git's own removal ended.
Removal == [at : {"list", "entries", "git", "rmdir", "restore", "command", "record"}, cleanupOnly : BOOLEAN,
            entries : SUBSET Entries, deleted : BOOLEAN, failed : BOOLEAN]
Idle == [at |-> "idle", cleanupOnly |-> FALSE, entries |-> {}, deleted |-> FALSE, failed |-> FALSE]

RemovalTypeOK ==
  /\ platform \in {"node", "git"} /\ folder \in Folder /\ held \subseteq Entries /\ record \in BOOLEAN
  /\ removal \in Removal \cup {Idle} /\ events \in 0..MaxEvents /\ broken \in BOOLEAN /\ returned \in BOOLEAN
  /\ result \in {"none", "blocked", "unusable", "removed", "partial", "error"}

RemovalInit ==
  /\ platform \in {"node", "git"} /\ held = {} /\ record = TRUE
  /\ folder = [exists |-> TRUE, git |-> TRUE, files |-> Entries]
  /\ removal = Idle /\ result = "none" /\ events = 0 /\ broken = FALSE /\ returned = FALSE

Usable == folder.exists /\ folder.git
Stage(at) == removal' = [removal EXCEPT !.at = at]
EndRemoval(r) == removal' = Idle /\ result' = r
------------------------------
(* The removal. *)

\* What the decision lets through: a record of an unusable folder to clean up, or a
\* usable worktree, one with changes only when forced.
Eligible(cleanupOnly, force) ==
  /\ record
  /\ IF cleanupOnly THEN ~Usable ELSE Usable /\ (folder.files = Entries \/ force)

Decide ==
  /\ removal = Idle
  /\ \E cleanupOnly, force \in BOOLEAN :
       /\ Eligible(cleanupOnly, force)
       /\ removal' = [Idle EXCEPT !.cleanupOnly = cleanupOnly,
                        !.at = IF cleanupOnly THEN "record" ELSE IF platform = "node" THEN "list" ELSE "command"]
  /\ result' = "none" /\ returned' = FALSE
  /\ UNCHANGED <<platform, folder, held, record, events, broken>>

\* deleteWorktreeFolder reads the folder; one without a .git file is left to Git.
ListFolder ==
  /\ removal.at = "list"
  /\ removal' = IF Usable THEN [removal EXCEPT !.at = "entries", !.entries = folder.files]
                ELSE [removal EXCEPT !.at = "command"]
  /\ UNCHANGED <<platform, folder, held, record, result, events, broken, returned>>

\* The .git file outlives the other entries.
LeftWithout(deleted) == [folder EXCEPT !.files = @ \ deleted]

\* The entries go one by one; one that is held ends the removal.
DeleteEntry ==
  /\ removal.at = "entries"
  /\ IF removal.entries = {} THEN Stage("git") /\ UNCHANGED <<folder, result>>
     ELSE \E e \in removal.entries :
            IF e \in held /\ e \in folder.files THEN EndRemoval("blocked") /\ UNCHANGED folder
            ELSE /\ folder' = LeftWithout({e})
                 /\ removal' = [removal EXCEPT !.entries = @ \ {e}] /\ UNCHANGED result
  /\ UNCHANGED <<platform, held, record, events, broken, returned>>

\* The .git file goes, or can't be deleted and stays.
DeleteGitFile ==
  /\ removal.at = "git"
  /\ \/ folder' = [folder EXCEPT !.git = FALSE] /\ Stage("rmdir") /\ UNCHANGED result
     \/ UNCHANGED folder /\ folder.git /\ EndRemoval("blocked")
  /\ UNCHANGED <<platform, held, record, events, broken, returned>>

\* Something appeared meanwhile, or the folder is held open: .git has to be put back.
RemoveFolder ==
  /\ removal.at = "rmdir"
  /\ \/ /\ folder.exists /\ folder.files = {} /\ folder' = Gone
        /\ removal' = [removal EXCEPT !.at = "record", !.deleted = TRUE]
     \/ UNCHANGED folder /\ Stage("restore")
  /\ UNCHANGED <<platform, held, record, result, events, broken, returned>>

\* Bug: the failure is reported as it is.
RestoredNever(ok) == folder

\* restoreGitFile, which can fail in turn.
Restored(ok) == [folder EXCEPT !.git = @ \/ (ok /\ folder.exists)]

RestoreGitFile ==
  /\ removal.at = "restore"
  /\ \E ok \in BOOLEAN :
       /\ folder' = Restored(ok)
       /\ EndRemoval(IF ok /\ folder.exists THEN "blocked" ELSE "unusable")
       /\ broken' = (broken \/ ~(ok /\ folder.exists))
  /\ UNCHANGED <<platform, held, record, events, returned>>

\* git worktree remove deletes .git early, and its record even when files stay behind.
\* It can also refuse.
GitRemoves ==
  /\ removal.at = "command"
  /\ \E failed \in BOOLEAN :
       /\ removal' = [removal EXCEPT !.at = "record", !.failed = failed]
       /\ \/ /\ folder' = Gone /\ record' = FALSE
          \/ \E left \in SUBSET folder.files :
               /\ folder' = [folder EXCEPT !.files = left, !.git = FALSE] /\ record' = FALSE
          \/ failed /\ UNCHANGED <<folder, record>>
  /\ broken' = TRUE
  /\ UNCHANGED <<platform, held, result, events, returned>>

\* What remains decides, not Git's exit code.
Reports == removal.cleanupOnly \/ removal.deleted \/ ~removal.failed \/ ~record

\* The second write task: the record goes, the recent entry is forgotten.
RecordRemoval ==
  /\ removal.at = "record"
  /\ IF removal.cleanupOnly /\ ~record THEN EndRemoval("error") /\ UNCHANGED record
     ELSE IF ~Reports THEN EndRemoval("error") /\ UNCHANGED record
     ELSE /\ record' = (record /\ ~removal.cleanupOnly /\ ~removal.deleted)
          /\ EndRemoval(IF folder.exists THEN "partial" ELSE "removed")
  /\ UNCHANGED <<platform, folder, held, events, broken, returned>>

\* The server ends in the middle.
RemovalCrash ==
  /\ removal # Idle /\ EndRemoval("none")
  /\ broken' = (broken \/ removal.at \in {"rmdir", "restore"})
  /\ UNCHANGED <<platform, folder, held, record, events, returned>>
------------------------------
(* Other programs. *)

Event == events < MaxEvents /\ events' = events + 1 /\ result' = "none"

HoldOrRelease ==
  /\ Event /\ \E e \in Entries : held' = IF e \in held THEN held \ {e} ELSE held \cup {e}
  /\ UNCHANGED <<platform, folder, record, removal, broken, returned>>

MakeEntry ==
  /\ Event /\ folder.exists /\ \E e \in Entries \ folder.files : folder' = [folder EXCEPT !.files = @ \cup {e}]
  /\ UNCHANGED <<platform, held, record, removal, broken, returned>>

\* The folder's drive goes, or comes back with the whole folder.
TakeAway ==
  /\ Event /\ folder.exists /\ folder' = Gone
  /\ UNCHANGED <<platform, held, record, removal, broken, returned>>

BringBack ==
  /\ Event /\ ~folder.exists /\ record /\ removal.at \in {"idle", "record"} /\ ~removal.deleted
  /\ folder' = [exists |-> TRUE, git |-> TRUE, files |-> Entries]
  /\ returned' = (removal # Idle) /\ broken' = FALSE
  /\ UNCHANGED <<platform, held, record, removal>>

RemovalNext ==
  \/ Decide \/ ListFolder \/ DeleteEntry \/ DeleteGitFile \/ RemoveFolder \/ RestoreGitFile
  \/ GitRemoves \/ RecordRemoval \/ RemovalCrash
  \/ HoldOrRelease \/ MakeEntry \/ TakeAway \/ BringBack

RemovalSpec == RemovalInit /\ [][RemovalNext]_removalVars
------------------------------
\* A folder that still has files keeps its .git file, so that Git still lists it and it
\* can be removed again, whatever is held, appears or fails meanwhile; only where .git
\* could not be put back, or the server ended just then, is it lost (worktreeDeletion.ts:36).
LinkIntact ==
  record /\ folder.exists /\ folder.files # {} /\ ~broken
    => folder.git \/ removal.at \in {"rmdir", "restore"}

\* What a removal reports is so: a worktree that was kept is usable and listed; one that
\* was removed is not listed, and gone unless the report says what is left; and a clean-up
\* costs no usable folder its record, unless it came back after the decision
\* (GitRepositoryOperations.ts:1013).
RemovalIsTrue ==
  /\ result = "blocked" => record /\ Usable
  /\ result = "removed" => ~record /\ ~folder.exists
  /\ result = "partial" => ~record /\ (Usable => returned)

\* A removal that fails in part leaves a worktree that can be removed again, and says what
\* it left.
RemovalIsSafe == LinkIntact /\ RemovalIsTrue
==============================
