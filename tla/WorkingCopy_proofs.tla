------- MODULE WorkingCopy_proofs -------
(****************************************)
(* Proofs about what changes a working copy or the list of them, for any *)
(* files, repositories, clients and bounds: the removal of a worktree, the *)
(* registry of repositories, the stash that keeps local changes, what a *)
(* plan of commits leaves in the index and can be carried out, and that *)
(* moving, copying and deleting files loses none. *)
(****************************************)
EXTENDS FileTransfers, WorktreeRemoval, RepositoryRegistry, Autostash, CommitPlan, SequenceTheorems, TLAPS

------------------------------
(* Removing a worktree. *)

\* A folder that is away has nothing in it.
FolderInv == ~ folder.exists => folder = Gone

\* The .git file is missing only while it is put back, whether or not there are files.
LinkInv == record /\ folder.exists /\ ~ broken => folder.git \/ removal.at \in {"rmdir", "restore"}

\* What each stage of a removal has made sure of.
StageInv ==
  /\ removal # Idle => result = "none"
  /\ removal.at \notin {"idle", "record"} =>
       record /\ ~ removal.cleanupOnly /\ ~ removal.deleted /\ ~ removal.failed
  /\ removal.at \in {"entries", "git"} /\ folder.exists => folder.git
  /\ removal.at = "record" =>
       /\ ~ removal.cleanupOnly /\ ~ removal.deleted /\ ~ removal.failed => ~ record
       /\ Usable => returned \/ (record /\ removal.failed /\ ~ removal.cleanupOnly)
       /\ removal.deleted => ~ folder.exists

RemovalInv == RemovalTypeOK /\ FolderInv /\ LinkInv /\ StageInv /\ RemovalIsTrue

LEMMA RemovalFields ==
  ASSUME NEW m \in Removal,
         NEW at \in {"list", "entries", "git", "rmdir", "restore", "command", "record"}
  PROVE  LET n == [m EXCEPT !.at = at] IN
           /\ n \in Removal /\ n.at = at /\ n.cleanupOnly = m.cleanupOnly
           /\ n.deleted = m.deleted /\ n.failed = m.failed /\ n.entries = m.entries
BY DEF Removal

\* A removal that is tracked is one; the fields of none are known.
LEMMA RemovalKinds ==
  ASSUME RemovalTypeOK
  PROVE  /\ removal # Idle => removal \in Removal
         /\ removal.at # "idle" => removal # Idle
         /\ removal = Idle <=> removal.at = "idle"
         /\ Idle.at = "idle" /\ ~ Idle.cleanupOnly /\ ~ Idle.deleted /\ ~ Idle.failed /\ Idle.entries = {}
BY DEF RemovalTypeOK, Removal, Idle

LEMMA RemovalInitInv == RemovalInit => RemovalInv
<1> SUFFICES ASSUME RemovalInit
             PROVE  RemovalInv
  OBVIOUS
<1>1. RemovalTypeOK
  <2>1. events \in 0..MaxEvents BY RemovalAssumption DEF RemovalInit
  <2>2. [exists |-> TRUE, git |-> TRUE, files |-> Entries] \in Folder BY DEF Folder
  <2> QED BY <2>1, <2>2 DEF RemovalInit, RemovalTypeOK
<1> QED BY <1>1 DEF RemovalInit, RemovalInv, FolderInv, LinkInv, StageInv, RemovalIsTrue, Idle

\* Other programs change the folder, what is held and nothing of the removal.
LEMMA OutsideKeeps ==
  ASSUME RemovalInv, HoldOrRelease \/ MakeEntry \/ TakeAway \/ BringBack
  PROVE  RemovalInv'
<1> USE DEF RemovalInv
<1>1. RemovalTypeOK'
  <2>1. folder' \in Folder
    <3>1. CASE MakeEntry BY <3>1 DEF RemovalTypeOK, Folder, MakeEntry
    <3>2. Gone \in Folder /\ [exists |-> TRUE, git |-> TRUE, files |-> Entries] \in Folder
      BY DEF Folder, Gone
    <3>3. CASE HoldOrRelease \/ TakeAway \/ BringBack
      BY <3>2, <3>3 DEF RemovalTypeOK, HoldOrRelease, TakeAway, BringBack
    <3> QED BY <3>1, <3>3
  <2>2. events' \in 0..MaxEvents
    BY RemovalAssumption DEF RemovalTypeOK, Event, HoldOrRelease, MakeEntry, TakeAway, BringBack
  <2>3. held' \subseteq Entries /\ result' = "none"
    BY DEF RemovalTypeOK, Event, HoldOrRelease, MakeEntry, TakeAway, BringBack
  <2>4. /\ removal' = removal /\ platform' = platform /\ record' = record
        /\ broken' \in BOOLEAN /\ returned' \in BOOLEAN
    BY DEF RemovalTypeOK, HoldOrRelease, MakeEntry, TakeAway, BringBack
  <2> QED BY <2>1, <2>2, <2>3, <2>4 DEF RemovalTypeOK
<1>2. result' = "none" /\ removal' = removal /\ record' = record
  BY DEF Event, HoldOrRelease, MakeEntry, TakeAway, BringBack
<1>3. CASE folder' = folder /\ broken' = broken /\ returned' = returned
  BY <1>1, <1>2, <1>3 DEF FolderInv, LinkInv, StageInv, RemovalIsTrue, Usable
<1>4. CASE MakeEntry
  <2>1. folder'.exists = folder.exists /\ folder'.git = folder.git /\ folder.exists
    BY <1>4 DEF MakeEntry, RemovalTypeOK, Folder
  <2>2. broken' = broken /\ returned' = returned BY <1>4 DEF MakeEntry
  <2> QED BY <1>1, <1>2, <2>1, <2>2 DEF FolderInv, LinkInv, StageInv, RemovalIsTrue, Usable
<1>5. CASE TakeAway
  <2>1. folder' = Gone /\ ~ folder'.exists /\ ~ folder'.git BY <1>5 DEF TakeAway, Gone
  <2> QED BY <1>1, <1>2, <2>1 DEF FolderInv, LinkInv, StageInv, RemovalIsTrue, Usable
<1>6. CASE BringBack
  <2>1. /\ folder'.exists /\ folder'.git /\ record /\ removal.at \in {"idle", "record"}
        /\ ~ removal.deleted /\ returned' = (removal # Idle)
    BY <1>6 DEF BringBack
  <2>2. removal.at = "record" => returned' BY <2>1, RemovalKinds
  <2>3. StageInv' BY <1>2, <2>1, <2>2 DEF StageInv
  <2> QED BY <1>1, <1>2, <2>1, <2>3 DEF FolderInv, LinkInv, RemovalIsTrue
<1> QED BY <1>3, <1>4, <1>5, <1>6 DEF HoldOrRelease

\* The stages that delete the folder with Node, and the decision before them.
LEMMA DeletionKeeps ==
  ASSUME RemovalInv,
         Decide \/ ListFolder \/ DeleteEntry \/ DeleteGitFile \/ RemoveFolder \/ RestoreGitFile
  PROVE  RemovalInv'
<1> USE DEF RemovalInv
<1>1. /\ folder \in Folder /\ held \subseteq Entries /\ record \in BOOLEAN /\ platform \in {"node", "git"}
      /\ broken \in BOOLEAN /\ returned \in BOOLEAN /\ events \in 0..MaxEvents
      /\ folder.exists \in BOOLEAN /\ folder.git \in BOOLEAN /\ folder.files \subseteq Entries
  BY DEF RemovalTypeOK, Folder
<1>2. UNCHANGED <<platform, held, record, events>>
  BY DEF Decide, ListFolder, DeleteEntry, DeleteGitFile, RemoveFolder, RestoreGitFile
<1>3. CASE Decide
  <2>1. PICK cleanupOnly \in BOOLEAN, force \in BOOLEAN :
          /\ Eligible(cleanupOnly, force)
          /\ removal' = [Idle EXCEPT !.cleanupOnly = cleanupOnly,
                           !.at = IF cleanupOnly THEN "record" ELSE IF platform = "node" THEN "list" ELSE "command"]
    BY <1>3 DEF Decide
  <2>2. /\ removal' \in Removal /\ removal'.cleanupOnly = cleanupOnly
        /\ removal'.at = IF cleanupOnly THEN "record" ELSE IF platform = "node" THEN "list" ELSE "command"
        /\ ~ removal'.deleted /\ ~ removal'.failed
    BY <2>1 DEF Idle, Removal
  <2>3. record /\ (cleanupOnly => ~ Usable) /\ (~ cleanupOnly => Usable) BY <2>1 DEF Eligible
  <2>4. folder' = folder /\ result' = "none" /\ returned' = FALSE /\ broken' = broken /\ removal = Idle
    BY <1>3 DEF Decide
  <2>5. RemovalTypeOK' BY <1>1, <1>2, <2>2, <2>4 DEF RemovalTypeOK
  <2>6. StageInv' BY <1>2, <2>2, <2>3, <2>4 DEF StageInv, Usable
  <2>7. FolderInv' /\ LinkInv' /\ RemovalIsTrue'
    BY <1>2, <2>4, RemovalKinds DEF FolderInv, LinkInv, RemovalIsTrue
  <2> QED BY <2>5, <2>6, <2>7
<1>4. CASE ListFolder
  <2>1. removal \in Removal /\ removal.at = "list" /\ removal # Idle
    BY <1>4, RemovalKinds DEF ListFolder
  <2>2. /\ removal' \in Removal /\ removal'.at = (IF Usable THEN "entries" ELSE "command")
        /\ removal'.cleanupOnly = removal.cleanupOnly /\ removal'.deleted = removal.deleted
        /\ removal'.failed = removal.failed
    <3>1. CASE ~ Usable
      <4>1. removal' = [removal EXCEPT !.at = "command"] BY <1>4, <3>1 DEF ListFolder
      <4> QED BY <2>1, <3>1, <4>1 DEF Removal
    <3>2. CASE Usable
      <4>1. [removal EXCEPT !.at = "entries"] \in Removal BY <2>1, RemovalFields
      <4>2. removal' = [[removal EXCEPT !.at = "entries"] EXCEPT !.entries = folder.files]
        BY <1>4, <3>2 DEF ListFolder
      <4>3. \A m \in Removal : [m EXCEPT !.entries = folder.files] \in Removal BY <1>1 DEF Removal
      <4>4. removal' \in Removal BY <4>1, <4>2, <4>3
      <4> QED BY <2>1, <3>2, <4>2, <4>4 DEF Removal
    <3> QED BY <3>1, <3>2
  <2>3. folder' = folder /\ result' = result /\ returned' = returned /\ broken' = broken
    BY <1>4 DEF ListFolder
  <2>4. RemovalTypeOK' BY <1>1, <1>2, <2>2, <2>3 DEF RemovalTypeOK
  <2> QED BY <1>2, <2>1, <2>2, <2>3, <2>4 DEF FolderInv, LinkInv, StageInv, RemovalIsTrue, Usable
<1>5. CASE DeleteEntry
  <2>1. removal \in Removal /\ removal.at = "entries" /\ removal # Idle /\ result = "none"
    BY <1>5, RemovalKinds DEF DeleteEntry, StageInv
  <2>2. broken' = broken /\ returned' = returned /\ record /\ (folder.exists => folder.git)
    BY <1>5, <2>1 DEF DeleteEntry, StageInv
  <2>3. CASE Stage("git") /\ UNCHANGED <<folder, result>>
    <3>1. /\ removal' \in Removal /\ removal'.at = "git" /\ removal'.cleanupOnly = removal.cleanupOnly
          /\ removal'.deleted = removal.deleted /\ removal'.failed = removal.failed
      BY <2>1, <2>3, RemovalFields DEF Stage
    <3>2. RemovalTypeOK' BY <1>1, <1>2, <2>1, <2>2, <2>3, <3>1 DEF RemovalTypeOK
    <3> QED BY <1>2, <2>1, <2>2, <2>3, <3>1, <3>2 DEF FolderInv, LinkInv, StageInv, RemovalIsTrue, Usable
  <2>4. ASSUME NEW e \in removal.entries, e \in folder.files, EndRemoval("blocked"), folder' = folder
        PROVE  RemovalInv'
    <3>1. folder.exists /\ folder.git BY <2>2, <2>4 DEF FolderInv, Gone
    <3>2. RemovalTypeOK' BY <1>1, <1>2, <2>2, <2>4 DEF RemovalTypeOK, EndRemoval
    <3> QED BY <1>2, <2>2, <2>4, <3>1, <3>2, RemovalKinds
         DEF EndRemoval, FolderInv, LinkInv, StageInv, RemovalIsTrue, Usable
  <2>5. ASSUME NEW e \in removal.entries, folder' = LeftWithout({e}), result' = result,
               removal' = [removal EXCEPT !.entries = @ \ {e}]
        PROVE  RemovalInv'
    <3>1. /\ folder' \in Folder /\ folder'.exists = folder.exists /\ folder'.git = folder.git
          /\ folder'.files \subseteq folder.files
      BY <1>1, <2>5 DEF LeftWithout, Folder
    <3>2. removal.entries \ {e} \in SUBSET Entries BY <2>1 DEF Removal
    <3>3. /\ removal' \in Removal /\ removal'.at = "entries" /\ removal'.cleanupOnly = removal.cleanupOnly
          /\ removal'.deleted = removal.deleted /\ removal'.failed = removal.failed
      BY <2>1, <2>5, <3>2 DEF Removal
    <3>4. RemovalTypeOK' BY <1>1, <1>2, <2>1, <2>2, <2>5, <3>1, <3>3 DEF RemovalTypeOK
    <3>5. FolderInv'
      <4>1. \A x \in Folder : ~ x.exists /\ ~ x.git /\ x.files = {} => x = Gone BY DEF Folder, Gone
      <4>2. ~ folder.exists => ~ folder.git /\ folder.files = {} BY DEF FolderInv, Gone
      <4> QED BY <3>1, <4>1, <4>2 DEF FolderInv
    <3> QED BY <1>2, <2>1, <2>2, <2>5, <3>1, <3>3, <3>4, <3>5 DEF LinkInv, StageInv, RemovalIsTrue, Usable
  <2> QED BY <1>5, <2>3, <2>4, <2>5 DEF DeleteEntry
<1>6. CASE DeleteGitFile
  <2>1. removal \in Removal /\ removal.at = "git" /\ removal # Idle /\ result = "none"
    BY <1>6, RemovalKinds DEF DeleteGitFile, StageInv
  <2>2. broken' = broken /\ returned' = returned /\ record BY <1>6, <2>1 DEF DeleteGitFile, StageInv
  <2>3. CASE folder' = [folder EXCEPT !.git = FALSE] /\ Stage("rmdir") /\ UNCHANGED result
    <3>1. /\ removal' \in Removal /\ removal'.at = "rmdir" /\ removal'.cleanupOnly = removal.cleanupOnly
          /\ removal'.deleted = removal.deleted /\ removal'.failed = removal.failed
      BY <2>1, <2>3, RemovalFields DEF Stage
    <3>2. /\ folder' \in Folder /\ folder'.exists = folder.exists /\ ~ folder'.git
          /\ folder'.files = folder.files
      BY <1>1, <2>3 DEF Folder
    <3>3. RemovalTypeOK' BY <1>1, <1>2, <2>1, <2>2, <2>3, <3>1, <3>2 DEF RemovalTypeOK
    <3>4. FolderInv' BY <3>2 DEF FolderInv, Gone, Folder
    <3> QED BY <1>2, <2>1, <2>2, <2>3, <3>1, <3>2, <3>3, <3>4 DEF LinkInv, StageInv, RemovalIsTrue, Usable
  <2>4. CASE UNCHANGED folder /\ folder.git /\ EndRemoval("blocked")
    <3>1. folder.exists BY <2>4 DEF FolderInv, Gone
    <3>2. RemovalTypeOK' BY <1>1, <1>2, <2>2, <2>4 DEF RemovalTypeOK, EndRemoval
    <3> QED BY <1>2, <2>2, <2>4, <3>1, <3>2, RemovalKinds
         DEF EndRemoval, FolderInv, LinkInv, StageInv, RemovalIsTrue, Usable
  <2> QED BY <1>6, <2>3, <2>4 DEF DeleteGitFile
<1>7. CASE RemoveFolder
  <2>1. removal \in Removal /\ removal.at = "rmdir" /\ removal # Idle /\ result = "none"
    BY <1>7, RemovalKinds DEF RemoveFolder, StageInv
  <2>2. broken' = broken /\ returned' = returned /\ result' = result BY <1>7 DEF RemoveFolder
  <2>3. CASE folder' = Gone /\ removal' = [removal EXCEPT !.at = "record", !.deleted = TRUE]
    <3>1. [removal EXCEPT !.at = "record"] \in Removal BY <2>1, RemovalFields
    <3>2. removal' = [[removal EXCEPT !.at = "record"] EXCEPT !.deleted = TRUE] BY <2>3
    <3>3. removal' \in Removal /\ removal'.at = "record" /\ removal'.deleted
      BY <2>1, <3>1, <3>2 DEF Removal
    <3>4. folder' \in Folder /\ ~ folder'.exists /\ ~ folder'.git BY <2>3 DEF Gone, Folder
    <3>5. RemovalTypeOK' BY <1>1, <1>2, <2>1, <2>2, <3>3, <3>4 DEF RemovalTypeOK
    <3> QED BY <1>2, <2>1, <2>2, <2>3, <3>3, <3>4, <3>5 DEF FolderInv, LinkInv, StageInv, RemovalIsTrue, Usable
  <2>4. CASE UNCHANGED folder /\ Stage("restore")
    <3>1. /\ removal' \in Removal /\ removal'.at = "restore" /\ removal'.cleanupOnly = removal.cleanupOnly
          /\ removal'.deleted = removal.deleted /\ removal'.failed = removal.failed
      BY <2>1, <2>4, RemovalFields DEF Stage
    <3>2. RemovalTypeOK' BY <1>1, <1>2, <2>1, <2>2, <2>4, <3>1 DEF RemovalTypeOK
    <3> QED BY <1>2, <2>1, <2>2, <2>4, <3>1, <3>2 DEF FolderInv, LinkInv, StageInv, RemovalIsTrue, Usable
  <2> QED BY <1>7, <2>3, <2>4 DEF RemoveFolder
<1>8. CASE RestoreGitFile
  <2>1. removal.at = "restore" /\ record BY <1>8 DEF RestoreGitFile, StageInv
  <2>2. PICK ok \in BOOLEAN :
          /\ folder' = Restored(ok)
          /\ EndRemoval(IF ok /\ folder.exists THEN "blocked" ELSE "unusable")
          /\ broken' = (broken \/ ~(ok /\ folder.exists))
    BY <1>8 DEF RestoreGitFile
  <2>3. /\ folder' \in Folder /\ folder'.exists = folder.exists /\ folder'.files = folder.files
        /\ folder'.git = (folder.git \/ (ok /\ folder.exists))
    BY <1>1, <2>2 DEF Restored, Folder
  <2>4. returned' = returned /\ broken' \in BOOLEAN BY <1>1, <1>8, <2>2 DEF RestoreGitFile
  <2>5. removal' = Idle /\ result' = IF ok /\ folder.exists THEN "blocked" ELSE "unusable"
    BY <2>2 DEF EndRemoval
  <2>6. RemovalTypeOK' BY <1>1, <1>2, <2>3, <2>4, <2>5 DEF RemovalTypeOK
  <2>7. FolderInv' BY <1>1, <2>3 DEF FolderInv, Gone, Folder
  <2>8. LinkInv' /\ StageInv' /\ RemovalIsTrue'
    BY <1>2, <2>1, <2>2, <2>3, <2>5, RemovalKinds DEF LinkInv, StageInv, RemovalIsTrue, Usable
  <2> QED BY <2>6, <2>7, <2>8
<1> QED BY <1>3, <1>4, <1>5, <1>6, <1>7, <1>8

\* The stages that Git and the record take part in, and the end of the server.
LEMMA RecordKeeps ==
  ASSUME RemovalInv, GitRemoves \/ RecordRemoval \/ RemovalCrash
  PROVE  RemovalInv'
<1> USE DEF RemovalInv
<1>1. /\ folder \in Folder /\ held \subseteq Entries /\ record \in BOOLEAN /\ platform \in {"node", "git"}
      /\ broken \in BOOLEAN /\ returned \in BOOLEAN /\ events \in 0..MaxEvents
      /\ folder.exists \in BOOLEAN /\ folder.git \in BOOLEAN /\ folder.files \subseteq Entries
  BY DEF RemovalTypeOK, Folder
<1>2. UNCHANGED <<platform, held, events, returned>> BY DEF GitRemoves, RecordRemoval, RemovalCrash
<1>3. CASE GitRemoves
  <2>1. /\ removal \in Removal /\ removal.at = "command" /\ removal # Idle /\ result = "none"
        /\ record /\ ~ removal.cleanupOnly /\ ~ removal.deleted
    BY <1>3, RemovalKinds DEF GitRemoves, StageInv
  <2>2. PICK failed_ \in BOOLEAN :
          /\ removal' = [removal EXCEPT !.at = "record", !.failed = failed_]
          /\ \/ /\ folder' = Gone /\ record' = FALSE
             \/ \E left \in SUBSET folder.files :
                  folder' = [folder EXCEPT !.files = left, !.git = FALSE] /\ record' = FALSE
             \/ failed_ /\ UNCHANGED <<folder, record>>
    BY <1>3 DEF GitRemoves
  <2>3. /\ removal' \in Removal /\ removal'.at = "record" /\ ~ removal'.cleanupOnly
        /\ ~ removal'.deleted /\ removal'.failed = failed_
    <3>1. [removal EXCEPT !.at = "record"] \in Removal BY <2>1, RemovalFields
    <3>2. removal' = [[removal EXCEPT !.at = "record"] EXCEPT !.failed = failed_] BY <2>2
    <3> QED BY <2>1, <3>1, <3>2 DEF Removal
  <2>4. result' = result /\ broken' = TRUE BY <1>3 DEF GitRemoves
  <2>5. CASE folder' = Gone /\ record' = FALSE
    <3>1. folder' \in Folder /\ ~ folder'.exists /\ ~ folder'.git BY <2>5 DEF Gone, Folder
    <3>2. RemovalTypeOK' BY <1>1, <1>2, <2>1, <2>3, <2>4, <2>5, <3>1 DEF RemovalTypeOK
    <3> QED BY <1>2, <2>1, <2>3, <2>4, <2>5, <3>1, <3>2 DEF FolderInv, LinkInv, StageInv, RemovalIsTrue, Usable
  <2>6. ASSUME NEW left \in SUBSET folder.files,
               folder' = [folder EXCEPT !.files = left, !.git = FALSE], record' = FALSE
        PROVE  RemovalInv'
    <3>1. /\ folder' \in Folder /\ folder'.exists = folder.exists /\ ~ folder'.git /\ folder'.files = left
      BY <1>1, <2>6 DEF Folder
    <3>2. RemovalTypeOK' BY <1>1, <1>2, <2>1, <2>3, <2>4, <2>6, <3>1 DEF RemovalTypeOK
    <3>3. FolderInv'
      <4>1. \A x \in Folder : ~ x.exists /\ ~ x.git /\ x.files = {} => x = Gone BY DEF Folder, Gone
      <4>2. ~ folder.exists => folder.files = {} BY DEF FolderInv, Gone
      <4> QED BY <3>1, <4>1, <4>2 DEF FolderInv
    <3> QED BY <1>2, <2>1, <2>3, <2>4, <2>6, <3>1, <3>2, <3>3 DEF LinkInv, StageInv, RemovalIsTrue, Usable
  <2>7. CASE failed_ /\ UNCHANGED <<folder, record>>
    <3>1. RemovalTypeOK' BY <1>1, <1>2, <2>1, <2>3, <2>4, <2>7 DEF RemovalTypeOK
    <3> QED BY <1>2, <2>1, <2>3, <2>4, <2>7, <3>1 DEF FolderInv, LinkInv, StageInv, RemovalIsTrue, Usable
  <2> QED BY <2>2, <2>5, <2>6, <2>7
<1>4. CASE RecordRemoval
  <2>1. removal.at = "record" /\ folder' = folder /\ broken' = broken /\ removal' = Idle
    BY <1>4 DEF RecordRemoval, EndRemoval
  <2>2. removal \in Removal BY <2>1, RemovalKinds
  <2>3. CASE result' = "error" /\ record' = record
    <3>1. RemovalTypeOK' BY <1>1, <1>2, <2>1, <2>3 DEF RemovalTypeOK
    <3> QED BY <1>2, <2>1, <2>3, <3>1, RemovalKinds DEF FolderInv, LinkInv, StageInv, RemovalIsTrue, Usable
  <2>4. CASE /\ Reports
             /\ record' = (record /\ ~removal.cleanupOnly /\ ~removal.deleted)
             /\ result' = (IF folder.exists THEN "partial" ELSE "removed")
    <3>1. ~ record' BY <2>1, <2>4 DEF Reports, StageInv
    <3>2. record' = FALSE BY <2>4, <3>1
    <3>3. Usable => returned BY <2>1, <2>4 DEF StageInv, Reports, Usable
    <3>4. RemovalTypeOK' BY <1>1, <1>2, <2>1, <2>4, <3>2 DEF RemovalTypeOK
    <3> QED
      BY <1>2, <2>1, <2>4, <3>2, <3>3, <3>4, RemovalKinds DEF FolderInv, LinkInv, StageInv, RemovalIsTrue, Usable
  <2> QED BY <1>4, <2>3, <2>4 DEF RecordRemoval, EndRemoval
<1>5. CASE RemovalCrash
  <2>1. /\ removal' = Idle /\ result' = "none" /\ folder' = folder /\ record' = record
        /\ broken' = (broken \/ removal.at \in {"rmdir", "restore"})
    BY <1>5 DEF RemovalCrash, EndRemoval
  <2>2. RemovalTypeOK' BY <1>1, <1>2, <2>1 DEF RemovalTypeOK
  <2> QED BY <1>2, <2>1, <2>2, RemovalKinds DEF FolderInv, LinkInv, StageInv, RemovalIsTrue
<1> QED BY <1>3, <1>4, <1>5

LEMMA RemovalStep == RemovalInv /\ [RemovalNext]_removalVars => RemovalInv'
<1> SUFFICES ASSUME RemovalInv, [RemovalNext]_removalVars
             PROVE  RemovalInv'
  OBVIOUS
<1>1. CASE RemovalNext BY <1>1, OutsideKeeps, DeletionKeeps, RecordKeeps DEF RemovalNext
<1>2. CASE UNCHANGED removalVars
  BY <1>2 DEF removalVars, RemovalInv, RemovalTypeOK, FolderInv, LinkInv, StageInv, RemovalIsTrue, Usable
<1> QED BY <1>1, <1>2

(* A removal that fails half way, is blocked by another program or ends *)
(* with the server leaves a worktree that Git still lists and that can be *)
(* removed again, and what it reports is so (worktreeDeletion.ts, *)
(* GitRepositoryOperations.ts). *)
THEOREM RemovalsAreSafe == RemovalSpec => []RemovalIsSafe
<1>1. RemovalInv => RemovalIsSafe BY DEF RemovalInv, LinkInv, RemovalIsSafe, LinkIntact
<1> QED BY <1>1, RemovalInitInv, RemovalStep, PTL DEF RemovalSpec

------------------------------
(* The registry of repositories. *)

RegistryCommand == [name : {"none", "open", "bootstrap", "relocate", "forget"}, stage : {"none", "inspect", "save"},
            worktree : RepositoryWorktrees \cup {NoWorktree}, from : RepositoryWorktrees \cup {NoWorktree}]

\* What waits for its save is a command in that stage, once.
QueueInv ==
  /\ commandOf \in [Callers -> RegistryCommand] /\ saves \in Seq(Callers)
  /\ \A i \in 1..Len(saves) : commandOf[saves[i]].stage = "save"
  /\ \A i, j \in 1..Len(saves) : saves[i] = saves[j] => i = j
  /\ \A c \in Callers :
       /\ commandOf[c].stage # "none" /\ commandOf[c].name # "forget" => commandOf[c].worktree \in RepositoryWorktrees
       /\ commandOf[c].stage = "inspect" => commandOf[c].name # "forget"

Forgets(i) == commandOf[saves[i]].name = "forget"
Opens(i) == ~ Forgets(i) /\ commandOf[saves[i]].worktree = activeId

\* The save whose end decides what is watched, if nothing else begins.
Decides(i) == IF activeId # NoWorktree THEN Opens(i)
              ELSE Forgets(i) /\ commandOf[saves[i]].from # NoWorktree

WatchInv == ~ failed =>
  \/ watched = activeId /\ \A i \in 1..Len(saves) : Forgets(i)
  \/ \E i \in 1..Len(saves) : Decides(i) /\ \A j \in 1..Len(saves) : j > i => Forgets(j)

\* A client that connects tells nobody else; without a switch it need not.
Quiet(i) == Forgets(i) \/ (Opens(i) /\ commandOf[saves[i]].name = "bootstrap")
Broadcasts(i) == Opens(i) /\ commandOf[saves[i]].name # "bootstrap"

ShownInv == ~ failed /\ ~ reverted /\ activeId # NoWorktree =>
  \/ /\ \A c \in Callers : shown[c] \in {activeId, NoWorktree}
     /\ \A i \in 1..Len(saves) : Quiet(i)
  \/ \E i \in 1..Len(saves) : Broadcasts(i) /\ \A j \in 1..Len(saves) : j > i => Quiet(j)

RegistryInv == RegistryTypeOK /\ QueueInv /\ WatchInv /\ ShownInv /\ RegistryIsConsistent

\* The queue, however it changes.
LEMMA AppendedCallers ==
  ASSUME NEW s \in Seq(Callers), NEW c \in Callers
  PROVE  /\ Append(s, c) \in Seq(Callers) /\ Len(Append(s, c)) = Len(s) + 1 /\ Len(s) \in Nat
         /\ \A i \in 1..Len(s) : Append(s, c)[i] = s[i] /\ s[i] \in Callers
         /\ Append(s, c)[Len(s) + 1] = c
OBVIOUS

LEMMA TailCallers ==
  ASSUME NEW s \in Seq(Callers), s # <<>>
  PROVE  /\ Tail(s) \in Seq(Callers) /\ Len(Tail(s)) = Len(s) - 1 /\ Len(s) \in Nat /\ 1 \in 1..Len(s)
         /\ \A i \in 1..Len(Tail(s)) : Tail(s)[i] = s[i + 1] /\ i + 1 \in 1..Len(s)
         /\ Head(s) = s[1] /\ s[1] \in Callers
OBVIOUS

\* Steps that begin or end no save.
Aside == /\ UNCHANGED <<saves, activeId, watched, failed, reverted>>
         /\ \A c \in Callers : shown'[c] \in {shown[c], NoWorktree}
         /\ \A c \in Callers : commandOf[c].stage = "save" => commandOf'[c] = commandOf[c]

LEMMA AsideKeeps ==
  ASSUME QueueInv, WatchInv, ShownInv, Aside
  PROVE  WatchInv' /\ ShownInv' /\ saves' \in Seq(Callers)
         /\ (\A i \in 1..Len(saves) : commandOf[saves[i]].stage = "save")'
         /\ (\A i, j \in 1..Len(saves) : saves[i] = saves[j] => i = j)'
<1>1. \A i \in 1..Len(saves) : saves[i] \in Callers /\ commandOf'[saves[i]] = commandOf[saves[i]]
                                 /\ saves'[i] = saves[i]
  BY DEF QueueInv, Aside
<1>2. saves' = saves /\ activeId' = activeId /\ watched' = watched /\ failed' = failed /\ reverted' = reverted
  BY DEF Aside
<1>3. \A i \in 1..Len(saves) : /\ Forgets(i)' <=> Forgets(i)
                               /\ Decides(i)' <=> Decides(i)
                               /\ Quiet(i)' <=> Quiet(i)
                               /\ Broadcasts(i)' <=> Broadcasts(i)
  BY <1>1, <1>2 DEF Forgets, Opens, Decides, Quiet, Broadcasts
<1>4. WatchInv' BY <1>2, <1>3 DEF WatchInv
<1>5. ShownInv' BY <1>2, <1>3 DEF ShownInv, Aside
<1> QED BY <1>1, <1>2, <1>4, <1>5 DEF QueueInv

\* A command that changed the registry waits for its save.
Saves(c) ==
  /\ saves' = Append(saves, c) /\ UNCHANGED <<watched, shown, failed>>
  /\ commandOf[c].stage # "save" /\ commandOf'[c].stage = "save"
  /\ \A d \in Callers \ {c} : commandOf'[d] = commandOf[d]

\* What it changed: it opened a worktree, or forgot a repository.
Opened(c) ==
  /\ commandOf'[c].name # "forget" /\ commandOf'[c].worktree = activeId' /\ activeId' # NoWorktree
  /\ commandOf'[c].name = "bootstrap" => reverted' \/ (activeId' = activeId /\ ~ reverted)

Forgot(c) ==
  /\ commandOf'[c].name = "forget" /\ commandOf'[c].from = activeId
  /\ activeId' \in {activeId, NoWorktree} /\ reverted' = reverted

LEMMA SavesKeepsAt ==
  ASSUME QueueInv, WatchInv, ShownInv, NEW c \in Callers, Saves(c),
         Opened(c) \/ Forgot(c),
         NEW n \in Nat, n = Len(saves) + 1
  PROVE  WatchInv' /\ ShownInv' /\ saves' \in Seq(Callers)
         /\ (\A i \in 1..Len(saves) : commandOf[saves[i]].stage = "save")'
         /\ (\A i, j \in 1..Len(saves) : saves[i] = saves[j] => i = j)'
<1>1. /\ saves' \in Seq(Callers) /\ Len(saves') = Len(saves) + 1 /\ Len(saves) \in Nat
      /\ \A i \in 1..Len(saves) : saves'[i] = saves[i] /\ saves[i] \in Callers
      /\ saves'[Len(saves) + 1] = c
  BY AppendedCallers DEF QueueInv, Saves
<1>2. \A i \in 1..Len(saves) : saves[i] # c /\ commandOf'[saves[i]] = commandOf[saves[i]]
                                 /\ commandOf[saves[i]].stage = "save"
  BY <1>1 DEF QueueInv, Saves
<1>3. \A i \in 1..Len(saves') : i \in 1..Len(saves) \/ i = Len(saves) + 1 BY <1>1
<1>4. watched' = watched /\ shown' = shown /\ failed' = failed /\ commandOf'[c].stage = "save"
  BY DEF Saves
<1>5. \A i \in 1..Len(saves) : Forgets(i)' <=> Forgets(i) BY <1>1, <1>2 DEF Forgets
<1>6. n \in 1..Len(saves') /\ \A i \in 1..Len(saves) : i \in 1..Len(saves') /\ i # n BY <1>1
<1>10. (\A i \in 1..Len(saves) : commandOf[saves[i]].stage = "save")' BY <1>1, <1>2, <1>3, <1>4
<1>11. (\A i, j \in 1..Len(saves) : saves[i] = saves[j] => i = j)'
  BY <1>1, <1>2, <1>3, <1>6 DEF QueueInv
<1>7. CASE Opened(c)
  <2>1. commandOf'[saves'[n]].name # "forget" /\ commandOf'[saves'[n]].worktree = activeId'
    BY <1>1, <1>7 DEF Opened
  <2>2. Decides(n)' /\ (commandOf'[c].name # "bootstrap" => Broadcasts(n)')
        /\ (commandOf'[c].name = "bootstrap" => Quiet(n)')
    BY <1>1, <1>7, <2>1 DEF Opened, Decides, Opens, Forgets, Broadcasts, Quiet
  <2>3. WatchInv'
    <3>1. \E i \in 1..Len(saves') : Decides(i)' /\ \A j \in 1..Len(saves') : j > i => Forgets(j)'
      BY <1>1, <1>3, <1>6, <2>2
    <3> QED BY <3>1 DEF WatchInv
  <2>4. ShownInv'
    <3>1. CASE commandOf'[c].name # "bootstrap"
      <4>1. \E i \in 1..Len(saves') : Broadcasts(i)' /\ \A j \in 1..Len(saves') : j > i => Quiet(j)'
        BY <1>1, <1>3, <1>6, <2>2, <3>1
      <4> QED BY <4>1 DEF ShownInv
    <3>2. CASE commandOf'[c].name = "bootstrap" /\ ~ reverted'
      <4>1. activeId' = activeId /\ ~ reverted BY <1>7, <3>2 DEF Opened
      <4>2. \A i \in 1..Len(saves) : (Quiet(i)' <=> Quiet(i)) /\ (Broadcasts(i)' <=> Broadcasts(i))
        BY <1>1, <1>2, <4>1 DEF Quiet, Broadcasts, Opens, Forgets
      <4>3. Quiet(n)' BY <2>2, <3>2
      <4> QED BY <1>1, <1>3, <1>4, <1>6, <4>1, <4>2, <4>3 DEF ShownInv
    <3> QED BY <3>1, <3>2 DEF ShownInv
  <2> QED BY <1>1, <1>10, <1>11, <2>3, <2>4
<1>8. CASE Forgot(c)
  <2>1. commandOf'[saves'[n]].name = "forget" /\ commandOf'[saves'[n]].from = activeId
    BY <1>1, <1>8 DEF Forgot
  <2>2. Forgets(n)' /\ Quiet(n)' /\ (activeId' # activeId => Decides(n)')
    BY <1>1, <1>8, <2>1 DEF Forgot, Decides, Opens, Forgets, Quiet
  <2>3. activeId' = activeId => \A i \in 1..Len(saves) :
          (Quiet(i)' <=> Quiet(i)) /\ (Broadcasts(i)' <=> Broadcasts(i)) /\ (Decides(i)' <=> Decides(i))
    BY <1>1, <1>2 DEF Quiet, Broadcasts, Opens, Forgets, Decides
  <2>4. WatchInv'
    <3>1. CASE activeId' = activeId BY <1>1, <1>3, <1>4, <1>5, <1>6, <2>2, <2>3, <3>1 DEF WatchInv
    <3>2. CASE activeId' # activeId
      <4>1. \E i \in 1..Len(saves') : Decides(i)' /\ \A j \in 1..Len(saves') : j > i => Forgets(j)'
        BY <1>1, <1>3, <1>6, <2>2, <3>2
      <4> QED BY <4>1 DEF WatchInv
    <3> QED BY <3>1, <3>2
  <2>5. ShownInv'
    <3>1. CASE activeId' = activeId
      BY <1>1, <1>3, <1>4, <1>6, <1>8, <2>2, <2>3, <3>1 DEF Forgot, ShownInv
    <3>2. CASE activeId' # activeId BY <1>8, <3>2 DEF Forgot, ShownInv
    <3> QED BY <3>1, <3>2
  <2> QED BY <1>1, <1>10, <1>11, <2>4, <2>5
<1> QED BY <1>7, <1>8

LEMMA SavesKeeps ==
  ASSUME QueueInv, WatchInv, ShownInv, NEW c \in Callers, Saves(c),
         Opened(c) \/ Forgot(c)
  PROVE  WatchInv' /\ ShownInv' /\ saves' \in Seq(Callers)
         /\ (\A i \in 1..Len(saves) : commandOf[saves[i]].stage = "save")'
         /\ (\A i, j \in 1..Len(saves) : saves[i] = saves[j] => i = j)'
<1>1. Len(saves) + 1 \in Nat BY DEF QueueInv
<1> QED BY <1>1, SavesKeepsAt

\* The first save ends, well or not.
LEMMA EndFacts ==
  ASSUME QueueInv, SaveEnded \/ RegistrySaveFails
  PROVE  /\ saves' \in Seq(Callers) /\ Len(saves') = Len(saves) - 1 /\ Len(saves) \in Nat /\ 1 \in 1..Len(saves)
         /\ \A i \in 1..Len(saves') : /\ saves'[i] = saves[i + 1] /\ i + 1 \in 1..Len(saves)
                                      /\ commandOf'[saves'[i]] = commandOf[saves[i + 1]]
         /\ saves[1] \in Callers /\ Head(saves) = saves[1]
         /\ commandOf' = [commandOf EXCEPT ![saves[1]] = NoCommand]
         /\ (\A i \in 1..Len(saves) : commandOf[saves[i]].stage = "save")'
         /\ (\A i, j \in 1..Len(saves) : saves[i] = saves[j] => i = j)'
<1>1. saves # <<>> /\ saves' = Tail(saves) /\ CommandEnded(Head(saves)) /\ saves \in Seq(Callers)
  BY DEF QueueInv, SaveEnded, RegistrySaveFails
<1>2. /\ saves' \in Seq(Callers) /\ Len(saves') = Len(saves) - 1 /\ Len(saves) \in Nat /\ 1 \in 1..Len(saves)
      /\ \A i \in 1..Len(saves') : saves'[i] = saves[i + 1] /\ i + 1 \in 1..Len(saves)
      /\ saves[1] \in Callers /\ Head(saves) = saves[1]
  BY <1>1, TailCallers
<1>3. commandOf' = [commandOf EXCEPT ![saves[1]] = NoCommand] BY <1>1, <1>2 DEF CommandEnded
<1>4. ASSUME NEW i \in 1..Len(saves')
      PROVE  commandOf'[saves'[i]] = commandOf[saves[i + 1]]
  <2>1. saves[i + 1] # saves[1] BY <1>2 DEF QueueInv
  <2> QED BY <1>2, <1>3, <2>1 DEF QueueInv
<1>5. (\A i \in 1..Len(saves) : commandOf[saves[i]].stage = "save")' BY <1>2, <1>4 DEF QueueInv
<1>6. (\A i, j \in 1..Len(saves) : saves[i] = saves[j] => i = j)'
  <2>1. ASSUME NEW i \in 1..Len(saves'), NEW j \in 1..Len(saves'), saves'[i] = saves'[j]
        PROVE  i = j
    <3>1. saves[i + 1] = saves[j + 1] /\ i + 1 \in 1..Len(saves) /\ j + 1 \in 1..Len(saves)
      BY <1>2, <2>1
    <3>2. i + 1 = j + 1 BY <3>1 DEF QueueInv
    <3> QED BY <3>2
  <2> QED BY <2>1
<1> QED BY <1>2, <1>3, <1>4, <1>5, <1>6

LEMMA EndKeeps ==
  ASSUME QueueInv, WatchInv, ShownInv, shown \in [Callers -> RepositoryWorktrees \cup {NoWorktree}],
         SaveEnded \/ RegistrySaveFails
  PROVE  WatchInv' /\ ShownInv'
<1> SUFFICES ASSUME ~ failed'
             PROVE  WatchInv' /\ ShownInv'
  BY DEF WatchInv, ShownInv
<1> DEFINE c == saves[1]
           w == commandOf[c].worktree
<1>1. SaveEnded /\ ~ failed BY DEF SaveEnded, RegistrySaveFails
<1>2. /\ Len(saves') = Len(saves) - 1 /\ Len(saves) \in Nat /\ 1 \in 1..Len(saves)
      /\ \A i \in 1..Len(saves') : /\ saves'[i] = saves[i + 1] /\ i + 1 \in 1..Len(saves)
                                   /\ commandOf'[saves'[i]] = commandOf[saves[i + 1]]
      /\ c \in Callers /\ Head(saves) = c
  BY EndFacts
<1>3. activeId' = activeId /\ reverted' = reverted BY <1>1 DEF SaveEnded, Stored
<1>4. \A i \in 1..Len(saves') :
        /\ Forgets(i)' <=> Forgets(i + 1)
        /\ Decides(i)' <=> Decides(i + 1)
        /\ Quiet(i)' <=> Quiet(i + 1)
        /\ Broadcasts(i)' <=> Broadcasts(i + 1)
  BY <1>2, <1>3 DEF Forgets, Opens, Decides, Quiet, Broadcasts
<1>5. \A j \in 1..Len(saves) : j = 1 \/ (j - 1 \in 1..Len(saves') /\ (j - 1) + 1 = j) BY <1>2
<1>6. /\ Forgets(1) =>
           /\ watched' = IF commandOf[c].from # NoWorktree /\ activeId = NoWorktree THEN NoWorktree ELSE watched
           /\ activeId # NoWorktree => shown' = shown
      /\ ~ Forgets(1) => watched' = w
      /\ ~ Forgets(1) /\ commandOf[c].name = "bootstrap" => shown' = [shown EXCEPT ![c] = w]
      /\ ~ Forgets(1) /\ commandOf[c].name # "bootstrap" => shown' = [d \in Callers |-> w]
  BY <1>1, <1>2 DEF SaveEnded, Forgets, WatchedAfterForget
<1>7. WatchInv'
  <2>1. CASE watched = activeId /\ \A i \in 1..Len(saves) : Forgets(i)
    <3>1. watched' = activeId BY <1>2, <1>6, <2>1
    <3>2. \A i \in 1..Len(saves') : Forgets(i)' BY <1>2, <1>4, <2>1
    <3> QED BY <1>3, <3>1, <3>2 DEF WatchInv
  <2>2. ASSUME NEW i \in 1..Len(saves), Decides(i), \A j \in 1..Len(saves) : j > i => Forgets(j)
        PROVE  WatchInv'
    <3>1. CASE i = 1
      <4>1. watched' = activeId BY <1>6, <2>2, <3>1 DEF Decides, Opens, Forgets
      <4>2. \A j \in 1..Len(saves') : Forgets(j)' BY <1>2, <1>4, <2>2, <3>1
      <4> QED BY <1>3, <4>1, <4>2 DEF WatchInv
    <3>2. CASE i # 1
      <4>1. PICK m \in 1..Len(saves') : m + 1 = i BY <1>5, <2>2, <3>2
      <4>2. Decides(m)' /\ \A j \in 1..Len(saves') : j > m => Forgets(j)' BY <1>2, <1>4, <2>2, <4>1
      <4> QED BY <4>2 DEF WatchInv
    <3> QED BY <3>1, <3>2
  <2> QED BY <1>1, <2>1, <2>2 DEF WatchInv
<1>8. ShownInv'
  <2> SUFFICES ASSUME ~ reverted, activeId # NoWorktree
               PROVE  ShownInv'
    BY <1>3 DEF ShownInv
  <2>1. CASE (\A d \in Callers : shown[d] \in {activeId, NoWorktree}) /\ \A i \in 1..Len(saves) : Quiet(i)
    <3>1. \A i \in 1..Len(saves') : Quiet(i)' BY <1>2, <1>4, <2>1
    <3>2. \A d \in Callers : shown'[d] \in {activeId, NoWorktree}
      <4>1. CASE Forgets(1) BY <1>6, <2>1, <4>1
      <4>2. CASE ~ Forgets(1)
        <5>1. shown' = [shown EXCEPT ![c] = w] /\ w = activeId
          BY <1>2, <1>6, <2>1, <4>2 DEF Quiet, Opens
        <5> QED BY <1>2, <2>1, <5>1
      <4> QED BY <4>1, <4>2
    <3> QED BY <1>3, <3>1, <3>2 DEF ShownInv
  <2>2. ASSUME NEW i \in 1..Len(saves), Broadcasts(i), \A j \in 1..Len(saves) : j > i => Quiet(j)
        PROVE  ShownInv'
    <3>1. CASE i = 1
      <4>1. \A d \in Callers : shown'[d] = activeId BY <1>6, <2>2, <3>1 DEF Broadcasts, Opens
      <4>2. \A j \in 1..Len(saves') : Quiet(j)' BY <1>2, <1>4, <2>2, <3>1
      <4> QED BY <1>3, <4>1, <4>2 DEF ShownInv
    <3>2. CASE i # 1
      <4>1. PICK m \in 1..Len(saves') : m + 1 = i BY <1>5, <2>2, <3>2
      <4>2. Broadcasts(m)' /\ \A j \in 1..Len(saves') : j > m => Quiet(j)' BY <1>2, <1>4, <2>2, <4>1
      <4> QED BY <4>2 DEF ShownInv
    <3> QED BY <3>1, <3>2
  <2> QED BY <1>1, <2>1, <2>2 DEF ShownInv
<1> QED BY <1>7, <1>8

\* A command, as it may be at any time.
WellFormed(m) ==
  /\ m \in RegistryCommand
  /\ m.stage # "none" /\ m.name # "forget" => m.worktree \in RepositoryWorktrees
  /\ m.stage = "inspect" => m.name # "forget"

CommandsWellFormed ==
  /\ commandOf \in [Callers -> RegistryCommand]
  /\ \A c \in Callers :
       /\ commandOf[c].stage # "none" /\ commandOf[c].name # "forget" => commandOf[c].worktree \in RepositoryWorktrees
       /\ commandOf[c].stage = "inspect" => commandOf[c].name # "forget"

LEMMA CommandReplaced ==
  ASSUME CommandsWellFormed, NEW c \in Callers, NEW m, WellFormed(m), commandOf' = [commandOf EXCEPT ![c] = m]
  PROVE  CommandsWellFormed'
<1>1. commandOf' \in [Callers -> RegistryCommand] BY DEF CommandsWellFormed, WellFormed
<1>2. \A d \in Callers : commandOf'[d] = IF d = c THEN m ELSE commandOf[d] BY DEF CommandsWellFormed
<1> QED BY <1>1, <1>2 DEF CommandsWellFormed, WellFormed

\* A command that changes the registry goes on to its save.
LEMMA CommandSaves ==
  ASSUME CommandsWellFormed, NEW c \in Callers, commandOf[c].stage = "inspect", Saving(c)
  PROVE  /\ CommandsWellFormed'
         /\ commandOf'[c].stage = "save" /\ commandOf'[c].name = commandOf[c].name
         /\ commandOf'[c].worktree = commandOf[c].worktree
         /\ \A d \in Callers \ {c} : commandOf'[d] = commandOf[d]
         /\ saves' = Append(saves, c)
<1>1. commandOf' = [commandOf EXCEPT ![c] = [commandOf[c] EXCEPT !.stage = "save"]] /\ saves' = Append(saves, c)
  BY DEF Saving
<1>2. commandOf[c] \in RegistryCommand BY DEF CommandsWellFormed
<1>3. WellFormed([commandOf[c] EXCEPT !.stage = "save"])
  BY <1>2 DEF CommandsWellFormed, WellFormed, RegistryCommand
<1>4. CommandsWellFormed' BY <1>1, <1>3, CommandReplaced
<1>5. commandOf'[c] = [commandOf[c] EXCEPT !.stage = "save"] /\ \A d \in Callers \ {c} : commandOf'[d] = commandOf[d]
  BY <1>1 DEF CommandsWellFormed
<1> QED BY <1>1, <1>2, <1>4, <1>5 DEF RegistryCommand

LEMMA NoCommandIsOne ==
  NoCommand \in RegistryCommand /\ WellFormed(NoCommand) /\ NoCommand.stage = "none"
BY DEF NoCommand, RegistryCommand, WellFormed

\* A command that begins saves nothing yet.
LEMMA BeginsAside ==
  ASSUME CommandsWellFormed, NEW c \in Callers, NEW name \in {"open", "bootstrap", "relocate"},
         NEW w \in RepositoryWorktrees, NEW from \in RepositoryWorktrees \cup {NoWorktree},
         BeginCommand(c, name, w, from)
  PROVE  Aside /\ CommandsWellFormed'
<1> DEFINE m == [name |-> name, stage |-> "inspect", worktree |-> w, from |-> from]
<1>1. commandOf' = [commandOf EXCEPT ![c] = m] /\ commandOf[c].stage = "none"
  BY NoCommandIsOne DEF BeginCommand
<1>2. WellFormed(m) BY DEF WellFormed, RegistryCommand
<1>3. CommandsWellFormed' BY <1>1, <1>2, CommandReplaced
<1>4. \A d \in Callers : commandOf[d].stage = "save" => commandOf'[d] = commandOf[d]
  BY <1>1 DEF CommandsWellFormed
<1> QED BY <1>3, <1>4 DEF Aside, BeginCommand, Stored

\* A command that ends before it changed anything saves nothing.
LEMMA EndsAside ==
  ASSUME CommandsWellFormed, NEW c \in Callers, commandOf[c].stage = "inspect", CommandEnded(c),
         UNCHANGED <<saves, activeId, watched, failed, reverted>>,
         \A d \in Callers : shown'[d] \in {shown[d], NoWorktree}
  PROVE  Aside /\ CommandsWellFormed'
<1>1. commandOf' = [commandOf EXCEPT ![c] = NoCommand] BY DEF CommandEnded
<1>2. CommandsWellFormed' BY <1>1, NoCommandIsOne, CommandReplaced
<1>3. \A d \in Callers : commandOf[d].stage = "save" => commandOf'[d] = commandOf[d]
  BY <1>1 DEF CommandsWellFormed
<1> QED BY <1>2, <1>3 DEF Aside

\* The setters that nobody waits for.
RegistryAside == AssignProject \/ RemoveProject \/ SetAccount \/ SetOpenFiles \/ ForgetWorktree \/ FolderMoves

LEMMA SettersAside ==
  ASSUME CommandsWellFormed, RegistryAside
  PROVE  Aside /\ CommandsWellFormed'
<1>1. UNCHANGED <<saves, activeId, watched, shown, commandOf, failed, reverted>>
  BY DEF RegistryAside, AssignProject, RemoveProject, SetAccount, SetOpenFiles, ForgetWorktree, FolderMoves,
         RegistryOthers, Stored
<1> QED BY <1>1 DEF Aside, CommandsWellFormed

LEMMA ActiveIsKnown ==
  ASSUME RegistryTypeOK, RegistryIsConsistent
  PROVE  /\ activeId \in RepositoryWorktrees \cup {NoWorktree} /\ recent \subseteq RepositoryWorktrees
         /\ activeId # NoWorktree => activeId \in RepositoryWorktrees
         /\ NoWorktree \notin RepositoryWorktrees
BY RegistryAssumption DEF RegistryTypeOK, RegistryIsConsistent, RepositoryWorktrees

LEMMA TouchSaves ==
  ASSUME QueueInv, CommandsWellFormed, NEW c \in Callers, Touch(c)
  PROVE  Saves(c) /\ Opened(c) /\ CommandsWellFormed'
<1>1. Saving(c) /\ commandOf[c].stage = "inspect" /\ activeId' = commandOf[c].worktree
      /\ UNCHANGED <<watched, shown, failed>> /\ commandOf[c].name # "forget"
  BY DEF Touch
<1>2. reverted' = (reverted \/ (commandOf[c].name = "bootstrap" /\ activeId # commandOf[c].worktree))
  BY DEF Touch
<1>3. /\ CommandsWellFormed'
      /\ commandOf'[c].stage = "save" /\ commandOf'[c].name = commandOf[c].name
      /\ commandOf'[c].worktree = commandOf[c].worktree
      /\ \A d \in Callers \ {c} : commandOf'[d] = commandOf[d]
      /\ saves' = Append(saves, c)
  BY <1>1, CommandSaves
<1>4. commandOf[c].worktree \in RepositoryWorktrees /\ NoWorktree \notin RepositoryWorktrees
  BY <1>1, RegistryAssumption DEF CommandsWellFormed, RepositoryWorktrees
<1>5. Saves(c) BY <1>1, <1>3 DEF Saves
<1>6. Opened(c) BY <1>1, <1>2, <1>3, <1>4 DEF Opened
<1> QED BY <1>3, <1>5, <1>6

LEMMA RebindSaves ==
  ASSUME QueueInv, CommandsWellFormed, NEW c \in Callers, Rebind(c)
  PROVE  Saves(c) /\ Opened(c) /\ CommandsWellFormed'
<1>1. Saving(c) /\ commandOf[c].stage = "inspect" /\ activeId' = commandOf[c].worktree
      /\ UNCHANGED <<watched, shown, failed, reverted>> /\ commandOf[c].name = "relocate"
  BY DEF Rebind
<1>3. /\ CommandsWellFormed'
      /\ commandOf'[c].stage = "save" /\ commandOf'[c].name = commandOf[c].name
      /\ commandOf'[c].worktree = commandOf[c].worktree
      /\ \A d \in Callers \ {c} : commandOf'[d] = commandOf[d]
      /\ saves' = Append(saves, c)
  BY <1>1, CommandSaves
<1>4. commandOf[c].worktree \in RepositoryWorktrees /\ NoWorktree \notin RepositoryWorktrees
  BY <1>1, RegistryAssumption DEF CommandsWellFormed, RepositoryWorktrees
<1>5. Saves(c) BY <1>1, <1>3 DEF Saves
<1>6. Opened(c) BY <1>1, <1>3, <1>4 DEF Opened
<1> QED BY <1>3, <1>5, <1>6

LEMMA ForgetSaves ==
  ASSUME RegistryTypeOK, CommandsWellFormed, NEW c \in Callers, Forget(c)
  PROVE  Saves(c) /\ Forgot(c) /\ CommandsWellFormed'
<1> DEFINE m == [name |-> "forget", stage |-> "save", worktree |-> NoWorktree, from |-> activeId]
<1>1. /\ commandOf' = [commandOf EXCEPT ![c] = m] /\ commandOf[c].stage = "none"
      /\ saves' = Append(saves, c) /\ UNCHANGED <<watched, shown, failed, reverted>>
      /\ activeId' \in {activeId, NoWorktree}
  BY NoCommandIsOne DEF Forget, ForgetActive
<1>2. WellFormed(m) BY DEF WellFormed, RegistryCommand, RegistryTypeOK
<1>3. CommandsWellFormed' BY <1>1, <1>2, CommandReplaced
<1>4. commandOf'[c] = m /\ \A d \in Callers \ {c} : commandOf'[d] = commandOf[d]
  BY <1>1 DEF CommandsWellFormed
<1>5. Saves(c) BY <1>1, <1>4 DEF Saves
<1>6. Forgot(c) BY <1>1, <1>4 DEF Forgot
<1> QED BY <1>3, <1>5, <1>6


\* The inductive step of the queue, the watcher and the clients.
LEMMA QueueStep ==
  ASSUME RegistryInv, RegistryNext
  PROVE  QueueInv' /\ WatchInv' /\ ShownInv'
<1>1. QueueInv /\ WatchInv /\ ShownInv /\ RegistryTypeOK /\ RegistryIsConsistent /\ CommandsWellFormed
  BY DEF RegistryInv, QueueInv, CommandsWellFormed
<1>2. shown \in [Callers -> RepositoryWorktrees \cup {NoWorktree}] BY <1>1 DEF RegistryTypeOK
<1>3. (Aside /\ CommandsWellFormed') => QueueInv' /\ WatchInv' /\ ShownInv'
  <2>1. SUFFICES ASSUME Aside, CommandsWellFormed'
                 PROVE  QueueInv' /\ WatchInv' /\ ShownInv'
    OBVIOUS
  <2>2. WatchInv' /\ ShownInv' /\ saves' \in Seq(Callers)
         /\ (\A i \in 1..Len(saves) : commandOf[saves[i]].stage = "save")'
         /\ (\A i, j \in 1..Len(saves) : saves[i] = saves[j] => i = j)'
    BY <1>1, <2>1, AsideKeeps
  <2> QED BY <2>1, <2>2 DEF QueueInv, CommandsWellFormed
<1>4. ASSUME NEW c \in Callers, Saves(c), Opened(c) \/ Forgot(c), CommandsWellFormed'
      PROVE  QueueInv' /\ WatchInv' /\ ShownInv'
  <2>1. WatchInv' /\ ShownInv' /\ saves' \in Seq(Callers)
         /\ (\A i \in 1..Len(saves) : commandOf[saves[i]].stage = "save")'
         /\ (\A i, j \in 1..Len(saves) : saves[i] = saves[j] => i = j)'
    BY <1>1, <1>4, SavesKeeps
  <2> QED BY <1>4, <2>1 DEF QueueInv, CommandsWellFormed
<1>5. ASSUME NEW c \in Callers, OpenPath(c) \/ Bootstrap(c) \/ Relocate(c)
      PROVE  Aside /\ CommandsWellFormed'
  <2>1. CASE OpenPath(c) BY <1>1, <2>1, BeginsAside DEF OpenPath
  <2>2. CASE Bootstrap(c) BY <1>1, <2>2, BeginsAside, ActiveIsKnown DEF Bootstrap
  <2>3. CASE Relocate(c)
    <3>1. PICK w \in recent, to \in RepositoryWorktrees : BeginCommand(c, "relocate", to, w)
      BY <2>3 DEF Relocate
    <3>2. w \in RepositoryWorktrees BY <1>1, ActiveIsKnown
    <3> QED BY <1>1, <3>1, <3>2, BeginsAside
  <2> QED BY <1>5, <2>1, <2>2, <2>3
<1>6. ASSUME NEW c \in Callers, InspectionFails(c) \/ RelocationRefused(c)
      PROVE  Aside /\ CommandsWellFormed'
  <2>1. /\ commandOf[c].stage = "inspect" /\ CommandEnded(c)
        /\ UNCHANGED <<saves, activeId, watched, failed, reverted>>
    BY <1>6 DEF InspectionFails, RelocationRefused, Stored
  <2>2. \A d \in Callers : shown'[d] \in {shown[d], NoWorktree}
    BY <1>2, <1>6 DEF InspectionFails, RelocationRefused
  <2> QED BY <1>1, <2>1, <2>2, EndsAside
<1>7. ASSUME SaveEnded \/ RegistrySaveFails
      PROVE  QueueInv' /\ WatchInv' /\ ShownInv'
  <2>1. /\ saves' \in Seq(Callers)
        /\ saves[1] \in Callers /\ commandOf' = [commandOf EXCEPT ![saves[1]] = NoCommand]
        /\ (\A i \in 1..Len(saves) : commandOf[saves[i]].stage = "save")'
        /\ (\A i, j \in 1..Len(saves) : saves[i] = saves[j] => i = j)'
    BY <1>1, <1>7, EndFacts
  <2>2. CommandsWellFormed' BY <1>1, <2>1, NoCommandIsOne, CommandReplaced
  <2>3. WatchInv' /\ ShownInv' BY <1>1, <1>2, <1>7, EndKeeps
  <2> QED BY <2>1, <2>2, <2>3 DEF QueueInv, CommandsWellFormed
<1>8. ASSUME NEW c \in Callers, Touch(c) \/ Rebind(c) \/ Forget(c)
      PROVE  Saves(c) /\ (Opened(c) \/ Forgot(c)) /\ CommandsWellFormed'
  BY <1>1, <1>8, TouchSaves, RebindSaves, ForgetSaves
<1>9. CASE RegistryAside BY <1>1, <1>3, <1>9, SettersAside
<1> QED BY <1>3, <1>4, <1>5, <1>6, <1>7, <1>8, <1>9 DEF RegistryNext, RegistryAside

LEMMA RegistryStutter ==
  ASSUME RegistryInv, UNCHANGED registryVars
  PROVE  RegistryInv'
BY DEF RegistryInv, registryVars, RegistryTypeOK, QueueInv, WatchInv, ShownInv, RegistryIsConsistent,
       Forgets, Opens, Decides, Quiet, Broadcasts


\* A repository that is relocated stays in one project at most.
LEMMA RelocatedDisjoint ==
  ASSUME projects \in [Projects -> SUBSET RepositoryKeys],
         \A p, q \in Projects : p # q => projects[p] \cap projects[q] = {},
         NEW from \in RepositoryKeys, NEW to \in RepositoryKeys,
         projects' = [p \in Projects |-> RelocatedKeys(projects[p], from, to)]
  PROVE  /\ projects' \in [Projects -> SUBSET RepositoryKeys]
         /\ (\A p, q \in Projects : p # q => projects[p] \cap projects[q] = {})'
<1>1. \A p \in Projects : projects'[p] = RelocatedKeys(projects[p], from, to) OBVIOUS
<1>2. \A p \in Projects : RelocatedKeys(projects[p], from, to) \in SUBSET RepositoryKeys
  BY DEF RelocatedKeys
<1>3. ASSUME NEW p \in Projects, NEW q \in Projects, p # q, NEW k, k \in projects'[p], k \in projects'[q]
      PROVE  FALSE
  <2>1. k \in projects[p] \/ (k = to /\ from \in projects[p] /\ (to = from \/ \A r \in Projects : to \notin projects[r]))
    BY <1>1, <1>3 DEF RelocatedKeys
  <2>2. k \in projects[q] \/ (k = to /\ from \in projects[q] /\ (to = from \/ \A r \in Projects : to \notin projects[r]))
    BY <1>1, <1>3 DEF RelocatedKeys
  <2>3. ~(k \in projects[p] /\ k \in projects[q]) /\ ~(from \in projects[p] /\ from \in projects[q])
    BY <1>3
  <2> QED BY <1>3, <2>1, <2>2, <2>3
<1> QED BY <1>1, <1>2, <1>3

\* The document, the counters and the clients, and what is consistent among them.
LEMMA DocumentStep ==
  ASSUME RegistryInv, RegistryNext, QueueInv'
  PROVE  RegistryTypeOK' /\ RegistryIsConsistent'
<1>1. RegistryTypeOK /\ RegistryIsConsistent /\ QueueInv BY DEF RegistryInv
<1>2. (\A c \in Callers :
        /\ commandOf[c].name \in {"none", "open", "bootstrap", "relocate", "forget"}
        /\ commandOf[c].stage \in {"none", "inspect", "save"}
        /\ {commandOf[c].worktree, commandOf[c].from} \subseteq RepositoryWorktrees \cup {NoWorktree})'
      /\ (\A i \in DOMAIN saves : saves[i] \in Callers)'
  BY DEF QueueInv, RegistryCommand
<1>3. \A c \in Callers : commandOf[c] \in RegistryCommand BY <1>1 DEF QueueInv
<1>4. NoWorktree \notin RepositoryWorktrees /\ MaxCommands \in Nat
  BY RegistryAssumption DEF RepositoryWorktrees
<1> DEFINE Doc == /\ recent \subseteq RepositoryWorktrees /\ activeId \in RepositoryWorktrees \cup {NoWorktree}
                  /\ projects \in [Projects -> SUBSET RepositoryKeys] /\ accounts \subseteq RepositoryKeys
                  /\ openFiles \subseteq RepositoryWorktrees /\ missing \subseteq RepositoryWorktrees
                  /\ late \subseteq RepositoryWorktrees
           Rest == /\ watched \in RepositoryWorktrees \cup {NoWorktree}
                   /\ shown \in [Callers -> RepositoryWorktrees \cup {NoWorktree}]
                   /\ commands \in 0..MaxCommands /\ failed \in BOOLEAN /\ reverted \in BOOLEAN
<1>5. Doc /\ Rest BY <1>1 DEF RegistryTypeOK
<1>6. \A w \in RepositoryWorktrees : Key(w) \in RepositoryKeys BY DEF RepositoryWorktrees, Key
<1>7. ASSUME NEW c \in Callers, OpenPath(c) \/ Bootstrap(c) \/ Relocate(c) \/ InspectionFails(c) \/ RelocationRefused(c)
      PROVE  Doc' /\ Rest' /\ RegistryIsConsistent'
  <2>1. UNCHANGED <<Stored, missing, watched, failed, reverted, late>>
    BY <1>7 DEF OpenPath, Bootstrap, Relocate, BeginCommand, InspectionFails, RelocationRefused
  <2>2. commands' \in 0..MaxCommands
    BY <1>4, <1>5, <1>7 DEF OpenPath, Bootstrap, Relocate, BeginCommand, InspectionFails, RelocationRefused
  <2>3. shown' \in [Callers -> RepositoryWorktrees \cup {NoWorktree}]
    BY <1>5, <1>7 DEF OpenPath, Bootstrap, Relocate, BeginCommand, InspectionFails, RelocationRefused
  <2> QED BY <1>1, <1>5, <2>1, <2>2, <2>3 DEF Stored, RegistryIsConsistent
<1>8. ASSUME NEW c \in Callers, Touch(c)
      PROVE  Doc' /\ Rest' /\ RegistryIsConsistent'
  <2>1. commandOf[c].worktree \in RepositoryWorktrees BY <1>1, <1>8 DEF QueueInv, Touch
  <2>2. UNCHANGED <<projects, accounts, openFiles, missing, watched, shown, commands, failed, late>>
        /\ recent' = recent \cup {commandOf[c].worktree} /\ activeId' = commandOf[c].worktree /\ reverted' \in BOOLEAN
    BY <1>8 DEF Touch
  <2> QED BY <1>1, <1>5, <2>1, <2>2 DEF RegistryIsConsistent
<1>9. ASSUME NEW c \in Callers, Rebind(c)
      PROVE  Doc' /\ Rest' /\ RegistryIsConsistent'
  <2> DEFINE to == commandOf[c].worktree
             from == commandOf[c].from
  <2>1. to \in RepositoryWorktrees /\ from \in recent /\ from \in RepositoryWorktrees
    BY <1>1, <1>5, <1>9 DEF QueueInv, Rebind
  <2>2. Key(to) \in RepositoryKeys /\ Key(from) \in RepositoryKeys BY <1>6, <2>1
  <2>3. projects' = [p \in Projects |-> RelocatedKeys(projects[p], Key(from), Key(to))]
    BY <1>9 DEF Rebind
  <2>4. /\ projects' \in [Projects -> SUBSET RepositoryKeys]
        /\ (\A p, q \in Projects : p # q => projects[p] \cap projects[q] = {})'
    BY <1>1, <1>5, <2>2, <2>3, RelocatedDisjoint DEF RegistryIsConsistent
  <2>5. /\ recent' = (recent \ {from}) \cup {to} /\ activeId' = to
        /\ accounts' = IF Key(from) \in accounts THEN (accounts \ {Key(from)}) \cup {Key(to)} ELSE accounts
        /\ openFiles' = IF from \in openFiles THEN (openFiles \ {from}) \cup {to} ELSE openFiles
        /\ late' = IF from \in late THEN late \cup {to} ELSE late
        /\ UNCHANGED <<missing, watched, shown, commands, failed, reverted>>
    BY <1>9 DEF Rebind
  <2>6. openFiles' \subseteq recent' \cup late' BY <1>1, <2>5 DEF RegistryIsConsistent
  <2>7. Doc' /\ Rest' BY <1>5, <2>1, <2>2, <2>4, <2>5
  <2> QED BY <2>4, <2>5, <2>6, <2>7 DEF RegistryIsConsistent
<1>10. ASSUME NEW c \in Callers, Forget(c)
       PROVE  Doc' /\ Rest' /\ RegistryIsConsistent'
  <2>1. PICK key \in RepositoryKeys :
          LET gone == {w \in recent : Key(w) = key} IN
          /\ recent' = recent \ gone /\ openFiles' = openFiles \ gone /\ accounts' = accounts \ {key}
          /\ projects' = [p \in Projects |-> projects[p] \ {key}]
          /\ activeId' = ForgetActive(gone)
    BY <1>10 DEF Forget
  <2>2. UNCHANGED <<missing, watched, shown, failed, reverted, late>> /\ commands' \in 0..MaxCommands
    BY <1>4, <1>5, <1>10 DEF Forget
  <2>3. Doc' /\ Rest' BY <1>5, <2>1, <2>2 DEF ForgetActive
  <2>4. activeId' \in recent' \cup {NoWorktree} /\ openFiles' \subseteq recent' \cup late'
    BY <1>1, <2>1, <2>2 DEF ForgetActive, RegistryIsConsistent
  <2>5. (\A p, q \in Projects : p # q => projects[p] \cap projects[q] = {})'
    BY <1>1, <2>1 DEF RegistryIsConsistent
  <2> QED BY <2>3, <2>4, <2>5 DEF RegistryIsConsistent
<1>11. ASSUME SaveEnded
       PROVE  Doc' /\ Rest' /\ RegistryIsConsistent'
  <2> DEFINE c == Head(saves)
             w == commandOf[c].worktree
  <2>1. c \in Callers /\ UNCHANGED <<Stored, missing, commands, failed, reverted, late>>
    BY <1>1, <1>11, EndFacts DEF SaveEnded
  <2>2. w \in RepositoryWorktrees \cup {NoWorktree} BY <1>3, <2>1 DEF RegistryCommand
  <2>3. watched' \in {watched, NoWorktree, w}
        /\ shown' \in {shown, [shown EXCEPT ![c] = NoWorktree], [shown EXCEPT ![c] = w], [d \in Callers |-> w]}
    BY <1>11 DEF SaveEnded, WatchedAfterForget
  <2>4. shown' \in [Callers -> RepositoryWorktrees \cup {NoWorktree}] BY <1>5, <2>1, <2>2, <2>3
  <2> QED BY <1>1, <1>5, <2>1, <2>2, <2>3, <2>4 DEF Stored, RegistryIsConsistent
<1>12. ASSUME RegistrySaveFails
       PROVE  Doc' /\ Rest' /\ RegistryIsConsistent'
  BY <1>1, <1>5, <1>12 DEF RegistrySaveFails, Stored, RegistryIsConsistent
<1>13. ASSUME AssignProject \/ RemoveProject
       PROVE  Doc' /\ Rest' /\ RegistryIsConsistent'
  <2>1. UNCHANGED <<recent, activeId, accounts, openFiles, late, RegistryOthers>>
    BY <1>13 DEF AssignProject, RemoveProject
  <2>2. projects' \in [Projects -> SUBSET RepositoryKeys]
    BY <1>5, <1>13 DEF AssignProject, RemoveProject
  <2>3. (\A p, q \in Projects : p # q => projects[p] \cap projects[q] = {})'
    <3>1. CASE AssignProject
      <4>1. PICK key \in RepositoryKeys, target \in Projects \cup {NoWorktree} :
              projects' = [p \in Projects |-> (projects[p] \ {key}) \cup (IF p = target THEN {key} ELSE {})]
        BY <3>1 DEF AssignProject
      <4>2. \A p \in Projects : projects'[p] = (projects[p] \ {key}) \cup (IF p = target THEN {key} ELSE {})
        BY <4>1
      <4>3. ASSUME NEW p \in Projects, NEW q \in Projects, p # q, NEW k, k \in projects'[p], k \in projects'[q]
            PROVE  FALSE
        BY <1>1, <4>2, <4>3 DEF RegistryIsConsistent
      <4> QED BY <4>3
    <3>2. CASE RemoveProject BY <1>1, <1>5, <3>2 DEF RemoveProject, RegistryIsConsistent
    <3> QED BY <1>13, <3>1, <3>2
  <2> QED BY <1>1, <1>5, <2>1, <2>2, <2>3 DEF RegistryOthers, RegistryIsConsistent
<1>14. ASSUME SetAccount \/ SetOpenFiles
       PROVE  Doc' /\ Rest' /\ RegistryIsConsistent'
  <2>1. UNCHANGED <<recent, activeId, projects, RegistryOthers>>
    BY <1>14 DEF SetAccount, SetOpenFiles
  <2>2. accounts' \subseteq RepositoryKeys BY <1>5, <1>6, <1>14 DEF SetAccount, SetOpenFiles
  <2>3. openFiles' \subseteq recent' \cup late' /\ openFiles' \subseteq RepositoryWorktrees /\ late' \subseteq RepositoryWorktrees
    BY <1>1, <1>5, <1>14, <2>1 DEF SetAccount, SetOpenFiles, RegistryIsConsistent
  <2> QED BY <1>1, <1>5, <2>1, <2>2, <2>3 DEF RegistryOthers, RegistryIsConsistent
<1>15. ASSUME ForgetWorktree \/ FolderMoves
       PROVE  Doc' /\ Rest' /\ RegistryIsConsistent'
  BY <1>1, <1>5, <1>15 DEF ForgetWorktree, FolderMoves, Stored, RegistryIsConsistent
<1>16. Doc' /\ Rest' /\ RegistryIsConsistent'
  BY <1>7, <1>8, <1>9, <1>10, <1>11, <1>12, <1>13, <1>14, <1>15 DEF RegistryNext
<1> QED BY <1>2, <1>16 DEF RegistryTypeOK

LEMMA RegistryInitInv == RegistryInit => RegistryInv
<1> SUFFICES ASSUME RegistryInit
             PROVE  RegistryInv
  OBVIOUS
<1>1. NoCommand \in RegistryCommand /\ NoCommand.stage = "none" /\ NoCommand.name = "none"
      /\ NoCommand.worktree = NoWorktree /\ NoCommand.from = NoWorktree
  BY DEF NoCommand, RegistryCommand
<1>2. saves \in Seq(Callers) /\ Len(saves) = 0 /\ 1..Len(saves) = {} /\ DOMAIN saves = {}
  BY DEF RegistryInit
<1>3. \A c \in Callers : commandOf[c] = NoCommand BY DEF RegistryInit
<1>4. RegistryTypeOK
  <2>1. projects \in [Projects -> SUBSET RepositoryKeys] /\ shown \in [Callers -> RepositoryWorktrees \cup {NoWorktree}]
    BY DEF RegistryInit
  <2>2. commands \in 0..MaxCommands /\ failed \in BOOLEAN /\ reverted \in BOOLEAN
    <3>1. commands = 0 /\ MaxCommands \in Nat /\ failed = FALSE /\ reverted = FALSE
      BY RegistryAssumption DEF RegistryInit
    <3>2. commands \in 0..MaxCommands BY <3>1
    <3>3. failed \in BOOLEAN /\ reverted \in BOOLEAN BY <3>1
    <3> QED BY <3>2, <3>3
  <2>3. \A c \in Callers :
          /\ commandOf[c].name \in {"none", "open", "bootstrap", "relocate", "forget"}
          /\ commandOf[c].stage \in {"none", "inspect", "save"}
          /\ {commandOf[c].worktree, commandOf[c].from} \subseteq RepositoryWorktrees \cup {NoWorktree}
    BY <1>1, <1>3
  <2>4. \A i \in DOMAIN saves : saves[i] \in Callers BY <1>2
  <2> QED BY <2>1, <2>2, <2>3, <2>4 DEF RegistryInit, RegistryTypeOK
<1>5. QueueInv BY <1>1, <1>2, <1>3 DEF RegistryInit, QueueInv
<1>6. WatchInv /\ ShownInv BY <1>2 DEF RegistryInit, WatchInv, ShownInv
<1>7. RegistryIsConsistent BY DEF RegistryInit, RegistryIsConsistent
<1> QED BY <1>4, <1>5, <1>6, <1>7 DEF RegistryInv

LEMMA RegistryStep == RegistryInv /\ [RegistryNext]_registryVars => RegistryInv'
<1>1. ASSUME RegistryInv, RegistryNext
      PROVE  RegistryInv'
  BY <1>1, QueueStep, DocumentStep DEF RegistryInv
<1> QED BY <1>1, RegistryStutter

\* Whatever commands overlap, fail or begin at the wrong moment, the registry stays
\* consistent, and when no save is waited for the watcher and the clients follow it.
THEOREM RegistryAgrees == RegistrySpec => []RegistryHolds
<1>1. RegistryInv => RegistryHolds
  <2> SUFFICES ASSUME RegistryInv, \A c \in Callers : commandOf[c].stage # "save", ~ failed
               PROVE  /\ watched = activeId
                      /\ activeId # NoWorktree /\ ~ reverted => \A c \in Callers : shown[c] \in {activeId, NoWorktree}
    BY DEF RegistryInv, RegistryHolds, WatchesTheOpenOne
  <2>1. 1..Len(saves) = {}
    <3>1. \A i \in 1..Len(saves) : saves[i] \in Callers /\ commandOf[saves[i]].stage = "save"
      BY DEF RegistryInv, QueueInv
    <3> QED BY <3>1
  <2> QED BY <2>1 DEF RegistryInv, WatchInv, ShownInv
<1> QED BY <1>1, RegistryInitInv, RegistryStep, PTL DEF RegistrySpec

------------------------------
(* The safety stash. *)

\* A change is committed, in a worktree, or in an entry that was pushed after the n-th.
Elsewhere(c, n) == c \in committed \/ InTree(c) \/ \E m \in Range(stash) : n < m /\ c \in objects[m]

Restoring == {"apply", "retry", "unstage", "find", "drop"}

\* What an operation knows at each stage.
PlacedOp(r) ==
  /\ StashBusy(r) \/ operation[r].result # "none" => operation[r].in \in Worktrees
  /\ operation[r].oid \in 0..Len(objects) /\ operation[r].pushed \in 0..Len(objects)
  /\ StashBusy(r) => operation[r].result = "none"
  /\ operation[r].at \in Restoring => operation[r].oid # 0
  /\ operation[r].at \in {"previous", "push", "oid"} => operation[r].oid = 0
  /\ operation[r].at \in {"previous", "push"} => operation[r].pushed = 0

\* What it has applied is not only in the entry that it is going to drop.
AppliedOp(r) ==
  operation[r].at \in {"unstage", "find", "drop"} /\ ~ slipped =>
    \A c \in objects[operation[r].oid] : Elsewhere(c, operation[r].oid)

\* Where the changes are that it found, if no other operation runs in its worktree.
OwnChanges(r) ==
  StashBusy(r) /\ ~ operation[r].crowded =>
    /\ operation[r].at \in {"previous", "push"} => operation[r].had \subseteq tree[operation[r].in] \cup committed
    /\ operation[r].at \in {"update", "abort"} /\ operation[r].oid = 0 => operation[r].had = {}
    /\ operation[r].pushed # 0 => operation[r].had \subseteq objects[operation[r].pushed] \cup committed
    /\ operation[r].at \in {"unstage", "find", "drop"} /\ operation[r].oid = operation[r].pushed =>
         operation[r].had \subseteq tree[operation[r].in] \cup committed

\* An operation makes the others of its worktree crowded, also those that have ended.
CrowdsOthers(r) ==
  StashBusy(r) => \A p \in Requests \ {r} : operation[p].in = operation[r].in => operation[p].crowded

\* Its entry is in the list, and is nobody else's.
OwnEntry(r) ==
  StashBusy(r) /\ ~ mistaken =>
    /\ operation[r].oid # 0 => operation[r].oid = operation[r].pushed
    /\ ~ slipped /\ operation[r].pushed # 0 =>
         /\ operation[r].pushed \in Range(stash)
         /\ \A p \in Requests \ {r} : /\ StashBusy(p) => operation[p].pushed # operation[r].pushed
                                      /\ operation[p].result = "kept" => operation[p].oid # operation[r].pushed

\* Unless two operations have met there is one at a time, and the list is as it left it.
AloneOp(r) ==
  StashBusy(r) /\ ~ met =>
    /\ \A p \in Requests : StashBusy(p) => p = r
    /\ operation[r].at = "push" => operation[r].previous = Newest
    /\ operation[r].at = "oid" => Newest = IF operation[r].pushed = 0 THEN operation[r].previous ELSE operation[r].pushed
    /\ operation[r].at = "drop" => operation[r].place \in DOMAIN stash /\ stash[operation[r].place] = operation[r].oid

TrueOutcome(r) ==
  /\ operation[r].result = "success" /\ operation[r].oid = operation[r].pushed /\ ~ operation[r].crowded =>
       operation[r].had \subseteq tree[operation[r].in] \cup committed
  /\ operation[r].result = "kept" /\ ~ mistaken /\ ~ slipped =>
       /\ operation[r].oid \in Range(stash)
       /\ ~ operation[r].crowded => operation[r].had \subseteq objects[operation[r].oid] \cup committed

RequestInv(r) ==
  PlacedOp(r) /\ AppliedOp(r) /\ OwnChanges(r) /\ CrowdsOthers(r) /\ OwnEntry(r) /\ AloneOp(r) /\ TrueOutcome(r)

StashInv ==
  /\ StashTypeOK /\ EntriesAreOwn /\ (slipped \/ \A c \in 1..edits : Elsewhere(c, 0))
  /\ \A r \in Requests : RequestInv(r)

LEMMA EntriesExist ==
  ASSUME StashTypeOK
  PROVE  /\ Range(stash) \subseteq 1..Len(objects) /\ Len(objects) \in Nat /\ Len(stash) \in Nat /\ DOMAIN stash = 1..Len(stash)
         /\ \A i \in 1..Len(objects) : objects[i] \in SUBSET StashChange
         /\ Newest \in 0..Len(objects) /\ (Newest # 0 => Newest \in Range(stash))
<1>1. stash \in Seq(1..Len(objects)) /\ objects \in Seq(SUBSET StashChange) BY DEF StashTypeOK
<1>2. CASE stash = <<>> BY <1>1, <1>2 DEF Newest, Range
<1>3. CASE stash # <<>>
  <2>1. Head(stash) = stash[1] /\ 1 \in DOMAIN stash BY <1>1, <1>3
  <2> QED BY <1>1, <1>3, <2>1 DEF Newest, Range
<1> QED BY <1>2, <1>3

\* A step of one operation: what it leaves to the others.
OneStep(r) ==
  /\ StashBusy(r) /\ operation' \in [Requests -> Operation]
  /\ \A p \in Requests \ {r} : operation'[p] = operation[p]
  /\ operation'[r].in = operation[r].in /\ operation'[r].crowded = operation[r].crowded
  /\ operation'[r].result = "kept" => operation'[r].oid = operation[r].oid /\ operation[r].oid # 0
  /\ operation'[r].pushed \in {operation[r].pushed} \cup (Len(objects) + 1)..Len(objects')
  /\ \A v \in Worktrees \ {operation[r].in} : tree'[v] = tree[v]
  /\ UNCHANGED <<committed, edits, met>> /\ (mistaken => mistaken') /\ (slipped => slipped')
  /\ Len(objects) <= Len(objects') /\ \A i \in 1..Len(objects) : objects'[i] = objects[i]
  /\ ~ slipped' =>
       /\ \A n \in Range(stash) : n \in Range(stash)' \/ (n = operation[r].oid /\ n # 0)
       /\ \A n \in 0..Len(objects) : \A c \in StashChange : Elsewhere(c, n) => Elsewhere(c, n)'

LEMMA OthersKept ==
  ASSUME StashInv, StashTypeOK', NEW r \in Requests, OneStep(r), RequestInv(r)', EntriesAreOwn'
  PROVE  StashInv'
<1>1. /\ StashTypeOK /\ met' = met /\ committed' = committed /\ edits' = edits
      /\ (mistaken => mistaken') /\ (slipped => slipped') /\ StashBusy(r) /\ mistaken \in BOOLEAN /\ slipped \in BOOLEAN
      /\ mistaken' \in BOOLEAN /\ slipped' \in BOOLEAN
  BY DEF StashInv, StashTypeOK, OneStep
<1>2. /\ Len(objects) \in Nat /\ Len(objects') \in Nat /\ Len(objects) <= Len(objects')
      /\ Range(stash) \subseteq 1..Len(objects) /\ \A i \in 1..Len(objects) : objects[i] \in SUBSET StashChange
  BY <1>1, EntriesExist DEF OneStep, StashTypeOK
<1>3. slipped' \/ \A c \in 1..edits' : Elsewhere(c, 0)'
  <2>1. edits \in Nat /\ 1..edits \subseteq StashChange BY <1>1, AutostashAssumption DEF StashTypeOK, StashChange
  <2>2. 0 \in 0..Len(objects) BY <1>2
  <2> QED BY <1>1, <2>1, <2>2 DEF StashInv, OneStep
<1>4. ASSUME NEW p \in Requests \ {r}
      PROVE  RequestInv(p)'
  <2>1. operation'[p] = operation[p] /\ RequestInv(p) /\ RequestInv(r) /\ operation[p] \in Operation
    BY <1>1 DEF OneStep, StashInv, StashTypeOK
  <2>2. StashBusy(p)' <=> StashBusy(p) BY <2>1 DEF StashBusy
  <2>3. operation[p].oid # 0 => objects'[operation[p].oid] = objects[operation[p].oid]
        /\ objects[operation[p].oid] \in SUBSET StashChange
    BY <1>2, <2>1 DEF RequestInv, PlacedOp, OneStep
  <2>4. operation[p].pushed # 0 => objects'[operation[p].pushed] = objects[operation[p].pushed]
    BY <1>2, <2>1 DEF RequestInv, PlacedOp, OneStep
  <2>5. ~ operation[p].crowded => operation[p].in # operation[r].in
    BY <1>1, <2>1 DEF RequestInv, CrowdsOthers
  <2>6. ~ operation[p].crowded /\ (StashBusy(p) \/ operation[p].result # "none") => tree'[operation[p].in] = tree[operation[p].in]
    BY <2>1, <2>5 DEF OneStep, RequestInv, PlacedOp
  <2>7. PlacedOp(p)' BY <1>2, <2>1, <2>2 DEF RequestInv, PlacedOp
  <2>8. AppliedOp(p)'
    <3>1. SUFFICES ASSUME operation[p].at \in {"unstage", "find", "drop"}, ~ slipped', NEW c \in objects'[operation[p].oid]
                   PROVE  Elsewhere(c, operation[p].oid)'
      BY <2>1 DEF AppliedOp
    <3>2. operation[p].oid # 0 /\ operation[p].oid \in 0..Len(objects)
      BY <2>1, <3>1 DEF RequestInv, PlacedOp, Restoring
    <3>3. c \in StashChange /\ Elsewhere(c, operation[p].oid)
      BY <1>1, <2>1, <2>3, <3>1, <3>2 DEF RequestInv, AppliedOp
    <3>4. \A n \in 0..Len(objects) : \A d \in StashChange : Elsewhere(d, n) => Elsewhere(d, n)'
      BY <3>1 DEF OneStep
    <3>5. PICK n \in 0..Len(objects) : n = operation[p].oid BY <3>2
    <3>6. Elsewhere(c, n) BY <3>3, <3>5
    <3>7. Elsewhere(c, n)' BY <3>3, <3>4, <3>6
    <3> QED BY <2>1, <3>5, <3>7 DEF Elsewhere
  <2>9. OwnChanges(p)'
    <3>1. SUFFICES ASSUME StashBusy(p), ~ operation[p].crowded
                   PROVE  OwnChanges(p)'
      BY <2>1, <2>2 DEF OwnChanges
    <3> QED BY <1>1, <2>1, <2>4, <2>6, <3>1 DEF RequestInv, OwnChanges
  <2>10. CrowdsOthers(p)'
    BY <2>1, <2>2 DEF RequestInv, CrowdsOthers, OneStep
  <2>11. OwnEntry(p)'
    <3>1. SUFFICES ASSUME StashBusy(p), ~ mistaken'
                   PROVE  OwnEntry(p)'
      BY <2>2 DEF OwnEntry
    <3>2. ~ mistaken /\ OwnEntry(p) /\ OwnEntry(r) BY <1>1, <2>1, <3>1 DEF RequestInv
    <3>3. operation[p].oid # 0 => operation[p].oid = operation[p].pushed BY <3>1, <3>2 DEF OwnEntry
    <3>4. ASSUME ~ slipped', operation[p].pushed # 0
          PROVE  /\ operation[p].pushed \in Range(stash)'
                 /\ \A q \in Requests \ {p} : /\ StashBusy(q)' => operation'[q].pushed # operation[p].pushed
                                              /\ operation'[q].result = "kept" => operation'[q].oid # operation[p].pushed
      <4>1. ~ slipped /\ operation[p].pushed \in Range(stash)
            /\ \A q \in Requests \ {p} : /\ StashBusy(q) => operation[q].pushed # operation[p].pushed
                                         /\ operation[q].result = "kept" => operation[q].oid # operation[p].pushed
        BY <1>1, <3>1, <3>2, <3>4 DEF OwnEntry
      <4>2. operation[r].pushed # operation[p].pushed BY <1>1, <4>1
      <4>3. operation[r].oid # 0 => operation[r].oid # operation[p].pushed
        BY <1>1, <3>2, <4>2 DEF OwnEntry
      <4>4. operation[p].pushed \in Range(stash)' BY <3>4, <4>1, <4>3 DEF OneStep
      <4>5. operation[p].pushed \in 1..Len(objects) BY <1>2, <4>1
      <4>6. operation'[r].pushed # operation[p].pushed
        <5>1. \A n \in (Len(objects) + 1)..Len(objects') : n # operation[p].pushed BY <1>2, <4>5
        <5> QED BY <4>2, <5>1 DEF OneStep
      <4>7. operation'[r].result = "kept" => operation'[r].oid # operation[p].pushed BY <4>3 DEF OneStep
      <4>8. \A q \in Requests \ {p, r} : operation'[q] = operation[q] /\ (StashBusy(q)' <=> StashBusy(q))
        BY DEF OneStep, StashBusy
      <4> QED BY <4>1, <4>4, <4>6, <4>7, <4>8
    <3> QED BY <2>1, <3>3, <3>4 DEF OwnEntry
  <2>12. AloneOp(p)' BY <1>1, <2>1, <2>2 DEF RequestInv, AloneOp
  <2>13. TrueOutcome(p)'
    <3>1. TrueOutcome(p) BY <2>1 DEF RequestInv
    <3>2. CASE operation[p].result = "success" BY <1>1, <2>1, <2>6, <3>1, <3>2 DEF TrueOutcome
    <3>3. CASE operation[p].result = "kept" /\ ~ mistaken' /\ ~ slipped'
      <4>1. operation[p].oid \in Range(stash) BY <1>1, <3>1, <3>3 DEF TrueOutcome
      <4>2. operation[p].oid \in 1..Len(objects) BY <1>2, <4>1
      <4>3. ~ (operation[p].oid = operation[r].oid /\ operation[r].oid # 0)
        BY <1>1, <2>1, <3>3 DEF RequestInv, OwnEntry
      <4>4. operation[p].oid \in Range(stash)' BY <3>3, <4>1, <4>3 DEF OneStep
      <4>5. objects'[operation[p].oid] = objects[operation[p].oid] BY <4>2 DEF OneStep
      <4> QED BY <1>1, <2>1, <3>1, <3>3, <4>4, <4>5 DEF TrueOutcome
    <3>4. CASE operation[p].result # "success" /\ ~ (operation[p].result = "kept" /\ ~ mistaken' /\ ~ slipped')
      BY <2>1, <3>4 DEF TrueOutcome
    <3> QED BY <3>2, <3>3, <3>4
  <2> QED BY <2>7, <2>8, <2>9, <2>10, <2>11, <2>12, <2>13 DEF RequestInv
<1> QED BY <1>3, <1>4 DEF StashInv

\* An operation, with what a step made of it.
LEMMA OneChanges ==
  ASSUME StashTypeOK, NEW r \in Requests, NEW m \in Operation, operation' = [operation EXCEPT ![r] = m]
  PROVE  operation' \in [Requests -> Operation] /\ operation'[r] = m /\ \A p \in Requests \ {r} : operation'[p] = operation[p]
BY DEF StashTypeOK

\* A step that touches neither the list nor takes away changes.
Gentle(r) ==
  /\ StashBusy(r) /\ tree' \in [Worktrees -> SUBSET StashChange] /\ unmerged' \subseteq Worktrees
  /\ tree[operation[r].in] \subseteq tree'[operation[r].in]
  /\ \A v \in Worktrees \ {operation[r].in} : tree'[v] = tree[v]
  /\ UNCHANGED <<objects, stash, committed, edits, started, met, slipped>>

\* What the operation itself may become then.
Becomes(r) ==
  /\ operation' \in [Requests -> Operation] /\ \A p \in Requests \ {r} : operation'[p] = operation[p]
  /\ operation'[r].in = operation[r].in /\ operation'[r].had = operation[r].had
  /\ operation'[r].crowded = operation[r].crowded /\ operation'[r].pushed = operation[r].pushed

LEMMA GentleKeeps ==
  ASSUME StashInv, NEW r \in Requests, Gentle(r), Becomes(r), mistaken' \in BOOLEAN, mistaken => mistaken',
         operation'[r].result = "kept" => operation'[r].oid = operation[r].oid /\ operation[r].oid # 0,
         PlacedOp(r)', AppliedOp(r)', OwnChanges(r)', StashBusy(r)' => OwnEntry(r)' /\ AloneOp(r)', TrueOutcome(r)',
         EntriesAreOwn'
  PROVE  StashInv'
<1>1. StashTypeOK' BY DEF StashInv, StashTypeOK, Gentle, Becomes
<1>2. Range(stash)' = Range(stash) BY DEF Gentle, Range
<1>3. \A v \in Worktrees : tree[v] \subseteq tree'[v]
  <2>1. operation[r].in \in Worktrees BY DEF Gentle, StashInv, RequestInv, PlacedOp
  <2> QED BY <2>1 DEF Gentle
<1>4. \A c, n : Elsewhere(c, n) => Elsewhere(c, n)' BY <1>2, <1>3 DEF Gentle, Elsewhere, InTree
<1>5. CrowdsOthers(r)' BY DEF Gentle, Becomes, StashInv, RequestInv, CrowdsOthers
<1>6. Len(objects) \in Nat BY EntriesExist DEF StashInv
<1>7. OneStep(r) BY <1>2, <1>4, <1>6 DEF Gentle, Becomes, OneStep
<1>8. OwnEntry(r)' /\ AloneOp(r)' BY DEF OwnEntry, AloneOp
<1>9. RequestInv(r)' BY <1>5, <1>8 DEF RequestInv
<1> QED BY <1>1, <1>7, <1>9, OthersKept

\* The operation goes on; its entry stays what it is.
LEMMA MoveOnKeeps ==
  ASSUME StashInv, NEW r \in Requests, Gentle(r), Becomes(r), UNCHANGED mistaken,
         NEW x \in {"update", "abort", "apply", "retry", "unstage", "find"},
         operation'[r].at = x, operation'[r].oid = operation[r].oid, operation'[r].result = operation[r].result,
         x \in {"update", "abort"} => operation[r].at \in {"update", "abort"},
         x \notin {"update", "abort"} => operation[r].oid # 0,
         operation[r].at \notin {"previous", "push", "oid"},
         x \in {"unstage", "find"} =>
           operation[r].at \in {"unstage", "find"} \/ objects[operation[r].oid] \subseteq tree'[operation[r].in]
  PROVE  StashInv'
<1>1. /\ RequestInv(r) /\ StashBusy(r) /\ StashTypeOK /\ operation[r].result = "none" /\ mistaken \in BOOLEAN
      /\ operation[r].in \in Worktrees /\ operation[r].oid \in 0..Len(objects)
  BY DEF StashInv, StashTypeOK, Gentle, RequestInv, PlacedOp
<1>2. /\ objects' = objects /\ stash' = stash /\ committed' = committed /\ met' = met /\ slipped' = slipped
      /\ Range(stash)' = Range(stash) /\ mistaken' = mistaken /\ tree[operation[r].in] \subseteq tree'[operation[r].in]
  BY DEF Gentle, Range
<1>3. StashBusy(r)' BY DEF StashBusy
<1>4. PlacedOp(r)' BY <1>1, <1>2, <1>3 DEF RequestInv, PlacedOp, Becomes, Restoring, StashBusy
<1>5. AppliedOp(r)'
  <2>1. SUFFICES ASSUME x \in {"unstage", "find"}, ~ slipped, NEW c \in objects[operation[r].oid]
                 PROVE  Elsewhere(c, operation[r].oid)'
    BY <1>2 DEF AppliedOp
  <2>2. CASE operation[r].at \in {"unstage", "find"}
    <3>1. Elsewhere(c, operation[r].oid) BY <1>1, <2>1, <2>2 DEF RequestInv, AppliedOp
    <3>2. InTree(c) => InTree(c)'
      <4>1. \A v \in Worktrees : tree[v] \subseteq tree'[v] BY <1>1 DEF Gentle
      <4> QED BY <4>1 DEF InTree
    <3> QED BY <1>2, <3>1, <3>2 DEF Elsewhere
  <2>3. CASE objects[operation[r].oid] \subseteq tree'[operation[r].in]
    BY <1>1, <2>1, <2>3 DEF Elsewhere, InTree
  <2> QED BY <2>1, <2>2, <2>3
<1>6. OwnChanges(r)'
  <2>1. SUFFICES ASSUME ~ operation[r].crowded
                 PROVE  OwnChanges(r)'
    BY DEF OwnChanges, Becomes
  <2>2. OwnChanges(r) BY <1>1 DEF RequestInv
  <2>3. operation[r].pushed # 0 => operation[r].had \subseteq objects[operation[r].pushed] \cup committed
    BY <1>1, <2>1, <2>2 DEF OwnChanges
  <2>4. x \in {"update", "abort"} /\ operation[r].oid = 0 => operation[r].had = {}
    BY <1>1, <2>1, <2>2 DEF OwnChanges
  <2>5. x \in {"unstage", "find"} /\ operation[r].oid = operation[r].pushed =>
          operation[r].had \subseteq tree'[operation[r].in] \cup committed
    BY <1>1, <1>2, <2>1, <2>2, <2>3 DEF OwnChanges
  <2> QED BY <1>2, <2>3, <2>4, <2>5 DEF OwnChanges, Becomes
<1>7. OwnEntry(r)' BY <1>1, <1>2 DEF RequestInv, OwnEntry, Becomes, StashBusy
<1>8. AloneOp(r)' BY <1>1, <1>2 DEF RequestInv, AloneOp, Becomes, StashBusy
<1>9. TrueOutcome(r)' BY <1>1 DEF TrueOutcome
<1>10. EntriesAreOwn' BY <1>2 DEF StashInv, EntriesAreOwn
<1> QED BY <1>1, <1>4, <1>5, <1>6, <1>7, <1>8, <1>9, <1>10, GentleKeeps

\* The operation goes to another stage, or ends.
LEMMA GoesTo ==
  ASSUME StashInv, NEW r \in Requests,
         NEW x \in {"oid", "update", "abort", "apply", "retry", "unstage", "find"}, Goto(r, x)
  PROVE  /\ Becomes(r) /\ operation'[r].at = x /\ operation'[r].oid = operation[r].oid
         /\ operation'[r].result = operation[r].result /\ operation'[r].previous = operation[r].previous
<1>1. operation[r] \in Operation BY DEF StashInv, StashTypeOK
<1>2. PICK m : m = [operation[r] EXCEPT !.at = x] OBVIOUS
<1>3. m \in Operation BY <1>1, <1>2 DEF Operation
<1>4. operation' = [operation EXCEPT ![r] = m] BY <1>2 DEF Goto
<1>5. operation' \in [Requests -> Operation] /\ operation'[r] = m /\ \A p \in Requests \ {r} : operation'[p] = operation[p]
  BY <1>3, <1>4, OneChanges DEF StashInv
<1> QED BY <1>1, <1>2, <1>5 DEF Becomes, Operation

LEMMA Ends ==
  ASSUME StashInv, NEW r \in Requests, NEW how \in {"success", "kept", "error"}, End(r, how)
  PROVE  Becomes(r) /\ operation'[r].at = "ended" /\ operation'[r].oid = operation[r].oid /\ operation'[r].result = how
<1>1. operation[r] \in Operation BY DEF StashInv, StashTypeOK
<1>2. PICK m : m = [operation[r] EXCEPT !.at = "ended", !.result = how] OBVIOUS
<1>3. m \in Operation BY <1>1, <1>2 DEF Operation
<1>4. operation' = [operation EXCEPT ![r] = m] BY <1>1, <1>2 DEF End, StashInv, StashTypeOK, Operation
<1>5. operation' \in [Requests -> Operation] /\ operation'[r] = m /\ \A p \in Requests \ {r} : operation'[p] = operation[p]
  BY <1>3, <1>4, OneChanges DEF StashInv
<1> QED BY <1>1, <1>2, <1>5 DEF Becomes, Operation

\* What an operation that ends leaves is true, if it tells of no success it had not.
LEMMA EndedIsTrue ==
  ASSUME StashInv, NEW r \in Requests, StashBusy(r), NEW how \in {"success", "kept", "error"}, End(r, how),
         UNCHANGED <<objects, committed, mistaken, slipped>>, tree[operation[r].in] \subseteq tree'[operation[r].in],
         how = "kept" => operation[r].oid # 0 /\ stash' = stash,
         how = "success" => operation[r].at \in {"find", "drop"} \/ (operation[r].at = "update" /\ operation[r].oid = 0)
  PROVE  /\ PlacedOp(r)' /\ AppliedOp(r)' /\ OwnChanges(r)' /\ TrueOutcome(r)' /\ ~ StashBusy(r)'
         /\ operation'[r].result = "kept" => operation'[r].oid = operation[r].oid /\ operation[r].oid # 0
<1>1. /\ Becomes(r) /\ operation'[r].at = "ended" /\ operation'[r].oid = operation[r].oid /\ operation'[r].result = how
      /\ ~ StashBusy(r)'
  BY Ends DEF StashBusy
<1>2. RequestInv(r) /\ operation[r].in \in Worktrees BY DEF StashInv, RequestInv, PlacedOp
<1>3. PlacedOp(r)' /\ AppliedOp(r)' /\ OwnChanges(r)'
  BY <1>1, <1>2 DEF RequestInv, PlacedOp, Becomes, Restoring, AppliedOp, OwnChanges
<1>4. TrueOutcome(r)'
  <2>1. CASE how = "success"
    <3>1. operation[r].oid = operation[r].pushed /\ ~ operation[r].crowded => operation[r].had \subseteq tree[operation[r].in] \cup committed
      BY <1>2, <2>1 DEF RequestInv, OwnChanges
    <3> QED BY <1>1, <2>1, <3>1 DEF TrueOutcome, Becomes
  <2>2. CASE how = "kept"
    <3>1. ~ mistaken => operation[r].oid = operation[r].pushed BY <1>2, <2>2 DEF RequestInv, OwnEntry
    <3>2. ~ mistaken /\ ~ slipped => operation[r].oid \in Range(stash)
      BY <1>2, <2>2, <3>1 DEF RequestInv, OwnEntry
    <3>3. ~ mistaken /\ ~ operation[r].crowded => operation[r].had \subseteq objects[operation[r].oid] \cup committed
      BY <1>2, <2>2, <3>1 DEF RequestInv, OwnChanges
    <3>4. Range(stash)' = Range(stash) BY <2>2 DEF Range
    <3> QED BY <1>1, <2>2, <3>2, <3>3, <3>4 DEF TrueOutcome, Becomes
  <2>3. CASE how = "error" BY <1>1, <2>3 DEF TrueOutcome
  <2> QED BY <2>1, <2>2, <2>3
<1> QED BY <1>1, <1>3, <1>4

LEMMA EndKeepsStash ==
  ASSUME StashInv, NEW r \in Requests, Gentle(r), NEW how \in {"success", "kept", "error"}, End(r, how), UNCHANGED mistaken,
         how = "kept" => operation[r].oid # 0,
         how = "success" => operation[r].at \in {"find", "drop"} \/ (operation[r].at = "update" /\ operation[r].oid = 0)
  PROVE  StashInv'
<1>1. UNCHANGED <<objects, committed, mistaken, slipped, stash, met>> /\ tree[operation[r].in] \subseteq tree'[operation[r].in] /\ StashBusy(r)
  BY DEF Gentle
<1>2. /\ PlacedOp(r)' /\ AppliedOp(r)' /\ OwnChanges(r)' /\ TrueOutcome(r)' /\ ~ StashBusy(r)'
      /\ operation'[r].result = "kept" => operation'[r].oid = operation[r].oid /\ operation[r].oid # 0
  BY <1>1, EndedIsTrue
<1>3. Becomes(r) BY Ends
<1>4. EntriesAreOwn' /\ mistaken \in BOOLEAN /\ mistaken' = mistaken BY <1>1 DEF StashInv, EntriesAreOwn, StashTypeOK
<1> QED BY <1>2, <1>3, <1>4, GentleKeeps

LEMMA GentleSame ==
  ASSUME StashInv, NEW r \in Requests, StashBusy(r), UNCHANGED <<tree, objects, stash, slipped>>, Frame,
         unmerged' \subseteq Worktrees
  PROVE  Gentle(r)
BY DEF Gentle, Frame, StashInv, StashTypeOK

LEMMA ReadPreviousKeeps ==
  ASSUME StashInv, NEW r \in Requests, ReadPrevious(r)
  PROVE  StashInv'
<1>1. StashTypeOK /\ StashBusy(r) /\ operation[r] \in Operation /\ operation[r].at = "previous" /\ unmerged' \subseteq Worktrees
  BY DEF StashInv, StashTypeOK, ReadPrevious, At, StashBusy
<1>2. Gentle(r) BY <1>1, GentleSame DEF ReadPrevious
<1>3. Newest \in Nat BY <1>1, EntriesExist
<1>4. PICK m : m = [operation[r] EXCEPT !.previous = Newest, !.at = "push"] OBVIOUS
<1>5. m \in Operation BY <1>1, <1>3, <1>4 DEF Operation, Oid
<1>6. operation' = [operation EXCEPT ![r] = m] BY <1>1, <1>4 DEF ReadPrevious, StashTypeOK, Operation
<1>7. operation' \in [Requests -> Operation] /\ operation'[r] = m /\ \A p \in Requests \ {r} : operation'[p] = operation[p]
  BY <1>1, <1>5, <1>6, OneChanges
<1>8. m.at = "push" /\ m.previous = Newest /\ m.had = operation[r].had /\ m.oid = operation[r].oid /\ m.pushed = operation[r].pushed
      /\ m.in = operation[r].in /\ m.crowded = operation[r].crowded /\ m.result = operation[r].result
  BY <1>1, <1>4 DEF Operation
<1>9. Becomes(r) BY <1>7, <1>8 DEF Becomes
<1>10. tree' = tree /\ Newest' = Newest /\ objects' = objects /\ committed' = committed /\ met' = met /\ mistaken' = mistaken /\ slipped' = slipped
  BY DEF ReadPrevious, Frame, Newest
<1>11. RequestInv(r) BY DEF StashInv
<1>12. operation[r].result = "none" /\ operation[r].oid = 0 /\ operation[r].pushed = 0
  BY <1>1, <1>11 DEF RequestInv, PlacedOp
<1>13. PlacedOp(r)' BY <1>1, <1>7, <1>8, <1>10, <1>11, <1>12 DEF RequestInv, PlacedOp, Restoring, StashBusy
<1>14. AppliedOp(r)' /\ TrueOutcome(r)' /\ StashBusy(r)' BY <1>7, <1>8, <1>12 DEF AppliedOp, TrueOutcome, StashBusy
<1>15. OwnChanges(r)' BY <1>1, <1>7, <1>8, <1>10, <1>11, <1>12 DEF RequestInv, OwnChanges
<1>16. OwnEntry(r)' BY <1>7, <1>8, <1>12 DEF OwnEntry
<1>17. AloneOp(r)' BY <1>1, <1>7, <1>8, <1>10, <1>11 DEF RequestInv, AloneOp, StashBusy
<1>18. EntriesAreOwn' /\ mistaken' \in BOOLEAN BY <1>1, <1>10 DEF StashInv, EntriesAreOwn, StashTypeOK
<1> QED BY <1>2, <1>7, <1>8, <1>9, <1>10, <1>12, <1>13, <1>14, <1>15, <1>16, <1>17, <1>18, GentleKeeps

LEMMA ReadOidKeeps ==
  ASSUME StashInv, NEW r \in Requests, ReadOid(r)
  PROVE  StashInv'
<1>1. StashTypeOK /\ StashBusy(r) /\ operation[r] \in Operation /\ operation[r].at = "oid" /\ unmerged' \subseteq Worktrees
  BY DEF StashInv, StashTypeOK, ReadOid, At, StashBusy
<1>2. Gentle(r) BY <1>1, GentleSame DEF ReadOid
<1>3. CASE End(r, "error") /\ UNCHANGED mistaken BY <1>2, <1>3, EndKeepsStash
<1>4. CASE /\ Saved(r) /\ operation' = [operation EXCEPT ![r].oid = Newest, ![r].at = "update"]
           /\ mistaken' = (mistaken \/ Newest # operation[r].pushed)
  <2>1. Newest \in 0..Len(objects) /\ Newest # 0 /\ Newest # operation[r].previous /\ Newest \in Nat
    BY <1>1, <1>4, EntriesExist DEF Saved
  <2>2. PICK m : m = [operation[r] EXCEPT !.oid = Newest, !.at = "update"] OBVIOUS
  <2>3. m \in Operation BY <1>1, <2>1, <2>2 DEF Operation, Oid
  <2>4. operation' = [operation EXCEPT ![r] = m] BY <1>1, <1>4, <2>2 DEF StashTypeOK, Operation
  <2>5. operation' \in [Requests -> Operation] /\ operation'[r] = m /\ \A p \in Requests \ {r} : operation'[p] = operation[p]
    BY <1>1, <2>3, <2>4, OneChanges
  <2>6. m.at = "update" /\ m.oid = Newest /\ m.had = operation[r].had /\ m.pushed = operation[r].pushed
        /\ m.in = operation[r].in /\ m.crowded = operation[r].crowded /\ m.result = operation[r].result
    BY <1>1, <2>2 DEF Operation
  <2>7. Becomes(r) BY <2>5, <2>6 DEF Becomes
  <2>8. /\ tree' = tree /\ objects' = objects /\ stash' = stash /\ Range(stash)' = Range(stash) /\ committed' = committed
        /\ met' = met /\ slipped' = slipped
    BY DEF ReadOid, Frame, Range
  <2>9. RequestInv(r) /\ operation[r].result = "none" BY <1>1 DEF StashInv, RequestInv, PlacedOp
  <2>10. PlacedOp(r)' BY <1>1, <2>1, <2>5, <2>6, <2>8, <2>9 DEF RequestInv, PlacedOp, Restoring, StashBusy
  <2>11. AppliedOp(r)' /\ TrueOutcome(r)' /\ StashBusy(r)' BY <2>5, <2>6, <2>9 DEF AppliedOp, TrueOutcome, StashBusy
  <2>12. OwnChanges(r)' BY <1>1, <2>1, <2>5, <2>6, <2>8, <2>9 DEF RequestInv, OwnChanges
  <2>13. OwnEntry(r)' BY <1>1, <1>4, <2>5, <2>6, <2>8, <2>9 DEF RequestInv, OwnEntry, StashBusy
  <2>14. AloneOp(r)' BY <1>1, <2>5, <2>6, <2>8, <2>9 DEF RequestInv, AloneOp, StashBusy
  <2>15. EntriesAreOwn'
    <3>1. ~ met => Newest = operation[r].pushed BY <1>1, <2>1, <2>9 DEF RequestInv, AloneOp
    <3> QED BY <1>4, <2>8, <3>1 DEF StashInv, EntriesAreOwn
  <2>16. mistaken' \in BOOLEAN /\ (mistaken => mistaken') BY <1>1, <1>4 DEF StashTypeOK
  <2> QED BY <1>2, <2>5, <2>6, <2>7, <2>9, <2>10, <2>11, <2>12, <2>13, <2>14, <2>15, <2>16, GentleKeeps
<1> QED BY <1>3, <1>4 DEF ReadOid

\* The branch moves, or doesn't.
LEMMA UpdateKeeps ==
  ASSUME StashInv, NEW r \in Requests, Update(r)
  PROVE  StashInv'
<1>1. StashTypeOK /\ StashBusy(r) /\ operation[r] \in Operation /\ operation[r].at = "update" /\ mistaken' = mistaken
  BY DEF StashInv, StashTypeOK, Update, At, StashBusy
<1>2. operation[r].in \in Worktrees /\ RequestInv(r) BY <1>1 DEF StashInv, RequestInv, PlacedOp
<1>3. unmerged' \subseteq Worktrees BY <1>1, <1>2 DEF Update, StashTypeOK
<1>4. Gentle(r) BY <1>1, <1>3, GentleSame DEF Update
<1>5. CASE operation[r].oid = 0 /\ End(r, "success") BY <1>1, <1>4, <1>5, EndKeepsStash
<1>6. CASE operation[r].oid # 0 /\ Goto(r, "apply")
  BY <1>1, <1>4, <1>6, GoesTo, MoveOnKeeps
<1>7. CASE End(r, "error") BY <1>1, <1>4, <1>7, EndKeepsStash
<1>8. CASE AfterFailure(r) # "none" /\ operation' = [operation EXCEPT ![r].at = AfterFailure(r), ![r].failed = TRUE]
  <2>1. PICK x : x = AfterFailure(r) OBVIOUS
  <2>2. x \in {"abort", "apply"} /\ (x = "apply" => operation[r].oid # 0)
    BY <1>8, <2>1 DEF AfterFailure
  <2>3. PICK m : m = [operation[r] EXCEPT !.at = x, !.failed = TRUE] OBVIOUS
  <2>4. m \in Operation BY <1>1, <2>2, <2>3 DEF Operation
  <2>5. operation' = [operation EXCEPT ![r] = m] BY <1>1, <1>8, <2>1, <2>3 DEF StashTypeOK, Operation
  <2>6. operation' \in [Requests -> Operation] /\ operation'[r] = m /\ \A p \in Requests \ {r} : operation'[p] = operation[p]
    BY <1>1, <2>4, <2>5, OneChanges
  <2>7. m.at = x /\ m.had = operation[r].had /\ m.oid = operation[r].oid /\ m.pushed = operation[r].pushed
        /\ m.in = operation[r].in /\ m.crowded = operation[r].crowded /\ m.result = operation[r].result
    BY <1>1, <2>3 DEF Operation
  <2>8. Becomes(r) BY <2>6, <2>7 DEF Becomes
  <2> QED BY <1>1, <1>4, <2>2, <2>6, <2>7, <2>8, MoveOnKeeps
<1> QED BY <1>5, <1>6, <1>7, <1>8 DEF Update

LEMMA AbortRebaseKeeps ==
  ASSUME StashInv, NEW r \in Requests, AbortRebase(r)
  PROVE  StashInv'
<1>1. StashTypeOK /\ StashBusy(r) /\ operation[r].at = "abort" /\ unmerged' \subseteq Worktrees /\ mistaken' = mistaken
  BY DEF StashInv, StashTypeOK, AbortRebase, At, StashBusy
<1>2. Gentle(r) BY <1>1, GentleSame DEF AbortRebase
<1>3. CASE operation[r].oid # 0 /\ Goto(r, "apply")
  BY <1>1, <1>2, <1>3, GoesTo, MoveOnKeeps
<1>4. CASE End(r, "error") BY <1>1, <1>2, <1>4, EndKeepsStash
<1> QED BY <1>3, <1>4 DEF AbortRebase

\* The changes come back, wholly or not.
LEMMA ApplyStashKeeps ==
  ASSUME StashInv, NEW r \in Requests, ApplyStash(r)
  PROVE  StashInv'
<1>1. StashTypeOK /\ StashBusy(r) /\ operation[r].at \in {"apply", "retry"} /\ mistaken' = mistaken
  BY DEF StashInv, ApplyStash, At, StashBusy
<1>2. operation[r].oid # 0 /\ operation[r].oid \in 1..Len(objects) /\ operation[r].in \in Worktrees
  <2>1. operation[r].oid # 0 /\ operation[r].oid \in 0..Len(objects) /\ operation[r].in \in Worktrees
    BY <1>1 DEF StashInv, RequestInv, PlacedOp, Restoring
  <2>2. Len(objects) \in Nat BY <1>1, EntriesExist
  <2> QED BY <2>1, <2>2
<1>3. PICK entry, w : entry = objects[operation[r].oid] /\ w = operation[r].in OBVIOUS
<1>4. entry \in SUBSET StashChange /\ w \in Worktrees BY <1>1, <1>2, <1>3, EntriesExist
<1>5. PICK ok \in BOOLEAN :
       /\ IF ok THEN StashApply(w, operation[r].oid) ELSE StashApplyFails(w, operation[r].oid)
       /\ IF AfterApply(r, ok) # "none" THEN Goto(r, AfterApply(r, ok))
          ELSE IF operation[r].kind = "move" /\ operation[r].failed THEN End(r, "error")
          ELSE End(r, "kept")
  BY <1>3 DEF ApplyStash
<1>6. tree' \in {tree, [tree EXCEPT ![w] = @ \cup entry]} /\ (ok => tree' = [tree EXCEPT ![w] = @ \cup entry])
      /\ unmerged' \subseteq Worktrees
  BY <1>1, <1>3, <1>4, <1>5 DEF StashApply, StashApplyFails, StashTypeOK
<1>7. /\ tree' \in [Worktrees -> SUBSET StashChange] /\ tree[w] \subseteq tree'[w] /\ (ok => entry \subseteq tree'[w])
      /\ \A v \in Worktrees \ {w} : tree'[v] = tree[v]
  BY <1>1, <1>4, <1>6 DEF StashTypeOK
<1>8. Gentle(r) BY <1>1, <1>3, <1>6, <1>7 DEF Gentle, ApplyStash, Frame
<1>9. CASE AfterApply(r, ok) # "none"
  <2>1. PICK x : x = AfterApply(r, ok) OBVIOUS
  <2>2. x \in {"unstage", "find", "retry"} /\ (x \in {"unstage", "find"} => ok)
    BY <1>9, <2>1 DEF AfterApply
  <2>3. Goto(r, x) BY <1>5, <1>9, <2>1
  <2>4. Becomes(r) /\ operation'[r].at = x /\ operation'[r].oid = operation[r].oid /\ operation'[r].result = operation[r].result
    BY <2>2, <2>3, GoesTo
  <2>5. x \in {"unstage", "find"} => objects[operation[r].oid] \subseteq tree'[operation[r].in] BY <1>3, <1>7, <2>2
  <2> QED BY <1>1, <1>2, <1>8, <2>2, <2>4, <2>5, MoveOnKeeps
<1>10. CASE End(r, "error") BY <1>1, <1>8, <1>10, EndKeepsStash
<1>11. CASE End(r, "kept") BY <1>1, <1>2, <1>8, <1>11, EndKeepsStash
<1> QED BY <1>5, <1>9, <1>10, <1>11

LEMMA UnstageKeeps ==
  ASSUME StashInv, NEW r \in Requests, UnstageEdits(r)
  PROVE  StashInv'
<1>1. StashTypeOK /\ StashBusy(r) /\ operation[r].at = "unstage" /\ unmerged' \subseteq Worktrees /\ mistaken' = mistaken
  BY DEF StashInv, StashTypeOK, UnstageEdits, At, StashBusy
<1>2. Gentle(r) BY <1>1, GentleSame DEF UnstageEdits
<1>3. operation[r].oid # 0 BY <1>1 DEF StashInv, RequestInv, PlacedOp, Restoring
<1>4. CASE Goto(r, "find") BY <1>1, <1>2, <1>3, <1>4, GoesTo, MoveOnKeeps
<1>5. CASE End(r, "kept") BY <1>1, <1>2, <1>3, <1>5, EndKeepsStash
<1> QED BY <1>4, <1>5 DEF UnstageEdits

LEMMA FindStashKeeps ==
  ASSUME StashInv, NEW r \in Requests, FindStash(r)
  PROVE  StashInv'
<1>1. StashTypeOK /\ StashBusy(r) /\ operation[r] \in Operation /\ operation[r].at = "find" /\ unmerged' \subseteq Worktrees
      /\ mistaken' = mistaken
  BY DEF StashInv, StashTypeOK, FindStash, At, StashBusy
<1>2. Gentle(r) BY <1>1, GentleSame DEF FindStash
<1>3. CASE Finish(r)
  <2>1. PICK how \in {"success", "error"} : End(r, how) BY <1>3 DEF Finish
  <2> QED BY <1>1, <1>2, <2>1, EndKeepsStash
<1>4. CASE /\ operation[r].oid \in Range(stash)
           /\ operation' = [operation EXCEPT ![r].at = "drop",
                 ![r].place = CHOOSE i \in DOMAIN stash : stash[i] = operation[r].oid]
  <2>1. PICK n : n = CHOOSE i \in DOMAIN stash : stash[i] = operation[r].oid OBVIOUS
  <2>2. n \in DOMAIN stash /\ stash[n] = operation[r].oid BY <1>4, <2>1 DEF Range
  <2>3. n \in Nat BY <1>1, <2>2, EntriesExist
  <2>4. PICK m : m = [operation[r] EXCEPT !.at = "drop", !.place = n] OBVIOUS
  <2>5. m \in Operation BY <1>1, <2>3, <2>4 DEF Operation
  <2>6. operation' = [operation EXCEPT ![r].at = "drop", ![r].place = n] BY <1>4, <2>1
  <2>7. operation' = [operation EXCEPT ![r] = m] BY <1>1, <2>4, <2>6 DEF StashTypeOK, Operation
  <2>8. operation' \in [Requests -> Operation] /\ operation'[r] = m /\ \A p \in Requests \ {r} : operation'[p] = operation[p]
    BY <1>1, <2>5, <2>7, OneChanges
  <2>9. m.at = "drop" /\ m.had = operation[r].had /\ m.oid = operation[r].oid /\ m.pushed = operation[r].pushed /\ m.place = n
        /\ m.in = operation[r].in /\ m.crowded = operation[r].crowded /\ m.result = operation[r].result
    BY <1>1, <2>4 DEF Operation
  <2>10. Becomes(r) BY <2>8, <2>9 DEF Becomes
  <2>11. /\ tree' = tree /\ objects' = objects /\ stash' = stash /\ Range(stash)' = Range(stash) /\ committed' = committed
         /\ met' = met /\ slipped' = slipped
    BY DEF FindStash, Frame, Range
  <2>12. RequestInv(r) /\ operation[r].result = "none" BY <1>1 DEF StashInv, RequestInv, PlacedOp
  <2>13. PlacedOp(r)' BY <1>1, <2>8, <2>9, <2>11, <2>12 DEF RequestInv, PlacedOp, Restoring, StashBusy
  <2>14. AppliedOp(r)'
    <3>1. ~ slipped => \A c \in objects[operation[r].oid] : Elsewhere(c, operation[r].oid)
      BY <1>1, <2>12 DEF RequestInv, AppliedOp
    <3>2. \A c, k : Elsewhere(c, k) => Elsewhere(c, k)' BY <2>11 DEF Elsewhere, InTree
    <3>3. \A k : k = operation[r].oid => (~ slipped' => \A c \in objects'[k] : Elsewhere(c, k)')
      BY <2>11, <3>1, <3>2
    <3> QED BY <2>8, <2>9, <3>3 DEF AppliedOp, Elsewhere
  <2>15. TrueOutcome(r)' /\ StashBusy(r)' BY <2>8, <2>9, <2>12 DEF TrueOutcome, StashBusy
  <2>16. OwnChanges(r)' BY <1>1, <2>8, <2>9, <2>11, <2>12 DEF RequestInv, OwnChanges
  <2>17. OwnEntry(r)' BY <1>1, <2>8, <2>9, <2>11, <2>12 DEF RequestInv, OwnEntry, StashBusy
  <2>18. AloneOp(r)' BY <1>1, <2>2, <2>8, <2>9, <2>11, <2>12 DEF RequestInv, AloneOp, StashBusy
  <2>19. EntriesAreOwn' /\ mistaken' \in BOOLEAN BY <1>1, <2>11 DEF StashInv, EntriesAreOwn, StashTypeOK
  <2> QED BY <1>1, <1>2, <2>8, <2>9, <2>10, <2>12, <2>13, <2>14, <2>15, <2>16, <2>17, <2>18, <2>19, GentleKeeps
<1> QED BY <1>3, <1>4 DEF FindStash

\* The list, with one entry more or less.
LEMMA PushedEntry ==
  ASSUME NEW S, NEW s \in Seq(S), NEW x \in S
  PROVE  /\ <<x>> \o s \in Seq(S) /\ Range(<<x>> \o s) = {x} \cup Range(s)
         /\ Head(<<x>> \o s) = x /\ <<x>> \o s # <<>>
<1> DEFINE one == <<x>>
<1>1. one \in Seq(S) /\ Len(one) = 1 /\ one[1] = x /\ Range(one) = {x} BY DEF Range
<1> HIDE DEF one
<1>2. Range(one \o s) = Range(one) \cup Range(s) BY <1>1, RangeConcatenation
<1>3. one \o s \in Seq(S) /\ Len(one \o s) = 1 + Len(s)
      /\ \A i \in 1..Len(one) + Len(s) : (one \o s)[i] = IF i <= Len(one) THEN one[i] ELSE s[i - Len(one)]
  BY <1>1, ConcatProperties
<1>4. (one \o s)[1] = x /\ Head(one \o s) = x /\ one \o s # <<>> BY <1>1, <1>3
<1> QED BY <1>1, <1>2, <1>3, <1>4 DEF one

LEMMA RemovedEntry ==
  ASSUME NEW S, NEW s \in Seq(S), NEW i \in 1..Len(s)
  PROVE  RemoveAt(s, i) \in Seq(S) /\ \A n \in Range(s) : n # s[i] => n \in Range(RemoveAt(s, i))
<1> DEFINE before == SubSeq(s, 1, i - 1)
           after == SubSeq(s, i + 1, Len(s))
           r == before \o after
<1>1. RemoveAt(s, i) = r BY DEF RemoveAt
<1>2. before \in Seq(S) /\ Len(before) = i - 1 /\ \A j \in 1..(i - 1) : before[j] = s[j] OBVIOUS
<1>3. after \in Seq(S) /\ Len(after) = Len(s) - i /\ \A j \in 1..(Len(s) - i) : after[j] = s[j + i]
  OBVIOUS
<1> HIDE DEF before, after
<1>4. /\ r \in Seq(S) /\ Len(r) = Len(before) + Len(after)
      /\ \A j \in 1..Len(before) + Len(after) : r[j] = IF j <= Len(before) THEN before[j] ELSE after[j - Len(before)]
  BY <1>2, <1>3, ConcatProperties
<1> HIDE DEF r
<1>10. DOMAIN r = 1..(Len(s) - 1) BY <1>2, <1>3, <1>4
<1>5. \A j \in 1..(i - 1) : j \in DOMAIN r /\ r[j] = s[j]
  <2>1. ASSUME NEW j \in 1..(i - 1)
        PROVE  j \in DOMAIN r /\ r[j] = s[j]
    <3>1. j \in 1..Len(before) + Len(after) /\ j <= Len(before) /\ j \in 1..(Len(s) - 1)
      BY <1>2, <1>3
    <3> QED BY <1>2, <1>4, <1>10, <3>1
  <2> QED BY <2>1
<1>6. \A j \in (i + 1)..Len(s) : j - 1 \in DOMAIN r /\ r[j - 1] = s[j]
  <2>1. ASSUME NEW j \in (i + 1)..Len(s)
        PROVE  j - 1 \in DOMAIN r /\ r[j - 1] = s[j]
    <3>1. j - i \in 1..(Len(s) - i) /\ (j - i) + i = j /\ j - 1 \in 1..(Len(s) - 1) /\ (j - 1) - (i - 1) = j - i
          /\ ~ (j - 1 <= Len(before)) /\ j - 1 \in 1..Len(before) + Len(after) /\ (j - 1) - Len(before) = j - i
      <4>1. PICK a, b : a = Len(before) /\ b = Len(after) OBVIOUS
      <4>2. a = i - 1 /\ b = Len(s) - i /\ Len(s) \in Nat /\ i \in 1..Len(s) BY <1>2, <1>3, <4>1
      <4>3. j \in Nat /\ i < j /\ j <= Len(s) BY <4>2
      <4>4. j - i \in 1..(Len(s) - i) /\ (j - i) + i = j /\ j - 1 \in 1..(Len(s) - 1) /\ (j - 1) - (i - 1) = j - i
        BY <4>2, <4>3
      <4>5. ~ (j - 1 <= a) /\ j - 1 \in 1..a + b /\ (j - 1) - a = j - i BY <4>2, <4>3
      <4> QED BY <4>1, <4>4, <4>5
    <3>2. r[j - 1] = after[j - i] BY <1>4, <3>1
    <3> QED BY <1>3, <1>10, <3>1, <3>2
  <2> QED BY <2>1
<1>7. \A j \in DOMAIN s : j = i \/ j \in 1..(i - 1) \/ j \in (i + 1)..Len(s) OBVIOUS
<1>8. ASSUME NEW n \in Range(s), n # s[i]
      PROVE  n \in Range(r)
  <2>1. PICK j \in DOMAIN s : s[j] = n BY DEF Range
  <2>2. PICK k \in DOMAIN r : r[k] = n BY <1>5, <1>6, <1>7, <1>8, <2>1
  <2> QED BY <2>2 DEF Range
<1> QED BY <1>1, <1>4, <1>8
\* stash push, before the worktree is cleaned or after.
LEMMA StashPushed ==
  ASSUME StashTypeOK, NEW w \in Worktrees, StashPush(w), tree' \in {tree, [tree EXCEPT ![w] = {}]}
  PROVE  /\ objects' \in Seq(SUBSET StashChange) /\ Len(objects') = Len(objects) + 1 /\ Len(objects) \in Nat
         /\ \A i \in 1..Len(objects) : objects'[i] = objects[i]
         /\ objects'[Len(objects')] = tree[w] /\ DOMAIN objects' = 1..Len(objects')
         /\ stash' \in Seq(1..Len(objects')) /\ Range(stash)' = {Len(objects')} \cup Range(stash)
         /\ Newest' = Len(objects') /\ Range(stash) \subseteq 1..Len(objects)
         /\ tree' \in [Worktrees -> SUBSET StashChange] /\ \A v \in Worktrees \ {w} : tree'[v] = tree[v]
<1>1. tree[w] \in SUBSET StashChange BY DEF StashTypeOK
<1>2. objects' = Append(objects, tree[w]) /\ stash' = <<Len(objects')>> \o stash BY DEF StashPush
<1>3. Range(stash) \subseteq 1..Len(objects) /\ Len(objects) \in Nat BY EntriesExist
<1>4. /\ objects' \in Seq(SUBSET StashChange) /\ Len(objects') = Len(objects) + 1
      /\ \A i \in 1..Len(objects) : objects'[i] = objects[i]
      /\ objects'[Len(objects')] = tree[w] /\ DOMAIN objects' = 1..Len(objects')
  BY <1>1, <1>2 DEF StashTypeOK
<1>5. stash \in Seq(1..Len(objects)) BY DEF StashTypeOK
<1>6. stash \in Seq(1..Len(objects')) /\ Len(objects') \in 1..Len(objects')
  BY <1>3, <1>4, <1>5, SeqMonotonic
<1>7. stash' \in Seq(1..Len(objects')) /\ Range(stash') = {Len(objects')} \cup Range(stash)
      /\ Head(stash') = Len(objects') /\ stash' # <<>>
  BY <1>2, <1>6, PushedEntry
<1>8. Range(stash)' = Range(stash') BY DEF Range
<1>9. tree' \in [Worktrees -> SUBSET StashChange] /\ \A v \in Worktrees \ {w} : tree'[v] = tree[v] BY DEF StashTypeOK
<1> QED BY <1>3, <1>4, <1>7, <1>8, <1>9 DEF Newest

\* The changes of the worktree are in the new entry, the newest of all.
LEMMA PushKeepsChanges ==
  ASSUME StashTypeOK, NEW w \in Worktrees, StashPush(w), tree' \in {tree, [tree EXCEPT ![w] = {}]}, UNCHANGED committed,
         NEW n \in 0..Len(objects), NEW c, Elsewhere(c, n)
  PROVE  Elsewhere(c, n)'
<1>1. /\ \A i \in 1..Len(objects) : objects'[i] = objects[i]
      /\ objects'[Len(objects')] = tree[w] /\ Range(stash)' = {Len(objects')} \cup Range(stash)
      /\ Range(stash) \subseteq 1..Len(objects) /\ Len(objects') = Len(objects) + 1 /\ Len(objects) \in Nat
      /\ \A v \in Worktrees \ {w} : tree'[v] = tree[v]
  BY StashPushed
<1>2. CASE c \in committed BY <1>2 DEF Elsewhere
<1>3. CASE c \in tree[w]
  <2>1. n < Len(objects') BY <1>1
  <2> QED BY <1>1, <1>3, <2>1 DEF Elsewhere
<1>4. ASSUME NEW v \in Worktrees \ {w}, c \in tree[v] PROVE Elsewhere(c, n)' BY <1>1, <1>4 DEF Elsewhere, InTree
<1>5. ASSUME NEW m \in Range(stash), n < m, c \in objects[m] PROVE Elsewhere(c, n)' BY <1>1, <1>5 DEF Elsewhere
<1> QED BY <1>2, <1>3, <1>4, <1>5 DEF Elsewhere, InTree

LEMMA PushStashKeeps ==
  ASSUME StashInv, NEW r \in Requests, PushStash(r)
  PROVE  StashInv'
<1>1. /\ StashTypeOK /\ StashBusy(r) /\ operation[r] \in Operation /\ operation[r].at = "push" /\ unmerged' \subseteq Worktrees
      /\ UNCHANGED <<committed, edits, started, met, mistaken, slipped, unmerged>> /\ mistaken \in BOOLEAN /\ slipped \in BOOLEAN
  BY DEF StashInv, StashTypeOK, PushStash, At, StashBusy, Frame
<1>2. /\ RequestInv(r) /\ operation[r].in \in Worktrees /\ operation[r].result = "none"
      /\ operation[r].oid = 0 /\ operation[r].pushed = 0
  BY <1>1 DEF StashInv, RequestInv, PlacedOp
<1>3. PICK w \in Worktrees : w = operation[r].in BY <1>2
<1>4. EntriesAreOwn' BY <1>1 DEF StashInv, EntriesAreOwn
<1>5. CASE tree[w] = {} /\ Goto(r, "oid") /\ UNCHANGED <<tree, objects, stash>>
  <2>1. /\ Becomes(r) /\ operation'[r].at = "oid" /\ operation'[r].oid = operation[r].oid
        /\ operation'[r].result = operation[r].result /\ operation'[r].previous = operation[r].previous
    BY <1>5, GoesTo
  <2>2. Gentle(r) BY <1>1, <1>5, GentleSame DEF PushStash
  <2>3. PlacedOp(r)'
    <3>1. operation'[r].pushed = 0 /\ operation'[r].in = operation[r].in BY <1>2, <2>1 DEF Becomes
    <3> QED BY <1>1, <1>2, <1>5, <2>1, <3>1, EntriesExist DEF PlacedOp, Restoring, StashBusy
  <2>4. AppliedOp(r)' /\ TrueOutcome(r)' BY <1>2, <2>1 DEF AppliedOp, TrueOutcome
  <2>5. OwnChanges(r)' BY <1>2, <2>1 DEF OwnChanges, Becomes
  <2>6. OwnEntry(r)' BY <1>2, <2>1 DEF OwnEntry, Becomes
  <2>7. Newest' = Newest /\ met' = met BY <1>1, <1>5 DEF Newest
  <2>8. AloneOp(r)' BY <1>1, <1>2, <2>1, <2>7 DEF RequestInv, AloneOp, Becomes, StashBusy
  <2> QED BY <1>1, <1>2, <1>4, <2>1, <2>2, <2>3, <2>4, <2>5, <2>6, <2>8, GentleKeeps
<1>6. CASE End(r, "error") /\ UNCHANGED <<tree, objects, stash>>
  BY <1>1, <1>6, GentleSame, EndKeepsStash DEF PushStash
<1>7. ASSUME StashPush(w), tree' \in {tree, [tree EXCEPT ![w] = {}]}, operation' \in [Requests -> Operation],
             \A p \in Requests \ {r} : operation'[p] = operation[p],
             operation'[r].in = operation[r].in, operation'[r].crowded = operation[r].crowded,
             operation'[r].result # "kept", operation'[r].pushed \in {0, Len(objects')}, RequestInv(r)'
      PROVE  StashInv'
  <2>1. /\ objects' \in Seq(SUBSET StashChange) /\ Len(objects') = Len(objects) + 1 /\ Len(objects) \in Nat
        /\ \A i \in 1..Len(objects) : objects'[i] = objects[i]
        /\ stash' \in Seq(1..Len(objects')) /\ DOMAIN objects' = 1..Len(objects') /\ Range(stash)' = {Len(objects')} \cup Range(stash)
        /\ tree' \in [Worktrees -> SUBSET StashChange] /\ \A v \in Worktrees \ {w} : tree'[v] = tree[v]
    BY <1>1, <1>7, StashPushed
  <2>2. StashTypeOK' BY <1>1, <1>7, <2>1 DEF StashTypeOK
  <2>3. \A n \in 0..Len(objects) : \A c \in StashChange : Elsewhere(c, n) => Elsewhere(c, n)'
    BY <1>1, <1>7, PushKeepsChanges
  <2>4. operation'[r].pushed \in {operation[r].pushed} \cup (Len(objects) + 1)..Len(objects')
    <3>1. Len(objects') \in (Len(objects) + 1)..Len(objects') /\ Len(objects) <= Len(objects') BY <2>1
    <3> QED BY <1>2, <1>7, <3>1
  <2>5. Len(objects) <= Len(objects') BY <2>1
  <2>6. OneStep(r) BY <1>1, <1>3, <1>7, <2>1, <2>3, <2>4, <2>5 DEF OneStep
  <2> QED BY <1>4, <1>7, <2>2, <2>6, OthersKept
<1>8. CASE /\ StashPush(w) /\ tree' = [tree EXCEPT ![w] = {}]
           /\ operation' = [operation EXCEPT ![r].pushed = Len(objects'), ![r].at = "oid"]
  <2>1. /\ Len(objects') = Len(objects) + 1 /\ Len(objects) \in Nat /\ objects'[Len(objects')] = tree[w]
        /\ Range(stash)' = {Len(objects')} \cup Range(stash) /\ Newest' = Len(objects') /\ Range(stash) \subseteq 1..Len(objects)
    BY <1>1, <1>8, StashPushed
  <2>2. PICK k : k = Len(objects') OBVIOUS
  <2>3. PICK m : m = [operation[r] EXCEPT !.pushed = k, !.at = "oid"] OBVIOUS
  <2>4. k \in Nat /\ k # 0 /\ k \notin 0..Len(objects) BY <2>1, <2>2
  <2>5. m \in Operation BY <1>1, <2>3, <2>4 DEF Operation, Oid
  <2>6. operation' = [operation EXCEPT ![r] = m] BY <1>1, <1>8, <2>2, <2>3 DEF StashTypeOK, Operation
  <2>7. operation' \in [Requests -> Operation] /\ operation'[r] = m /\ \A p \in Requests \ {r} : operation'[p] = operation[p]
    BY <1>1, <2>5, <2>6, OneChanges
  <2>8. m.at = "oid" /\ m.had = operation[r].had /\ m.oid = 0 /\ m.pushed = k
        /\ m.in = operation[r].in /\ m.crowded = operation[r].crowded /\ m.result = "none"
    BY <1>1, <1>2, <2>3 DEF Operation
  <2>9. StashBusy(r)' BY <2>7, <2>8 DEF StashBusy
  <2>10. PlacedOp(r)'
    <3>1. 0 \in 0..Len(objects') /\ k \in 0..Len(objects') BY <2>1, <2>2
    <3> QED BY <1>2, <2>7, <2>8, <3>1 DEF PlacedOp, Restoring
  <2>11. AppliedOp(r)' /\ TrueOutcome(r)' BY <2>7, <2>8 DEF AppliedOp, TrueOutcome
  <2>12. OwnChanges(r)'
    <3>1. ~ operation[r].crowded => operation[r].had \subseteq tree[w] \cup committed
      BY <1>1, <1>2, <1>3 DEF RequestInv, OwnChanges
    <3>2. objects'[k] = tree[w] /\ committed' = committed BY <1>1, <2>1, <2>2
    <3> QED BY <2>7, <2>8, <3>1, <3>2 DEF OwnChanges
  <2>13. CrowdsOthers(r)' BY <1>1, <1>2, <2>7, <2>8 DEF RequestInv, CrowdsOthers
  <2>14. OwnEntry(r)'
    <3>1. SUFFICES ASSUME ~ mistaken, ~ slipped
                   PROVE  /\ k \in Range(stash)'
                          /\ \A p \in Requests \ {r} : operation[p].pushed # k /\ (operation[p].result = "kept" => operation[p].oid # k)
      BY <1>1, <2>7, <2>8 DEF OwnEntry
    <3>2. k \in Range(stash)' BY <2>1, <2>2
    <3>3. ASSUME NEW p \in Requests \ {r}
          PROVE  operation[p].pushed # k /\ operation[p].oid # k
      BY <2>4 DEF StashInv, RequestInv, PlacedOp
    <3> QED BY <3>2, <3>3
  <2>15. AloneOp(r)'
    <3>1. ~ met => \A p \in Requests : StashBusy(p) => p = r BY <1>1, <1>2 DEF RequestInv, AloneOp
    <3>2. \A p \in Requests \ {r} : StashBusy(p)' <=> StashBusy(p) BY <2>7 DEF StashBusy
    <3> QED BY <1>1, <2>1, <2>2, <2>4, <2>7, <2>8, <3>1, <3>2 DEF AloneOp
  <2>16. RequestInv(r)' BY <2>10, <2>11, <2>12, <2>13, <2>14, <2>15 DEF RequestInv
  <2> QED BY <1>7, <1>8, <2>2, <2>7, <2>8, <2>16
<1>9. CASE StashPush(w) /\ End(r, "error") /\ UNCHANGED tree
  <2>1. Becomes(r) /\ operation'[r].at = "ended" /\ operation'[r].oid = 0 /\ operation'[r].result = "error"
    BY <1>2, <1>9, Ends
  <2>2. ~ StashBusy(r)' BY <2>1 DEF StashBusy
  <2>3. PlacedOp(r)'
    <3>1. Len(objects') \in Nat BY <1>1, <1>9, StashPushed
    <3>2. operation'[r].pushed = 0 /\ operation'[r].in = operation[r].in BY <1>2, <2>1 DEF Becomes
    <3> QED BY <1>2, <2>1, <2>2, <3>1, <3>2 DEF PlacedOp, Restoring
  <2>4. RequestInv(r)'
    BY <2>1, <2>2, <2>3 DEF RequestInv, AppliedOp, OwnChanges, CrowdsOthers, OwnEntry, AloneOp, TrueOutcome
  <2> QED BY <1>2, <1>7, <1>9, <2>1, <2>4 DEF Becomes
<1> QED BY <1>3, <1>5, <1>6, <1>8, <1>9 DEF PushStash

\* stash drop: what the entry held is elsewhere by then.
LEMMA DropStashKeeps ==
  ASSUME StashInv, NEW r \in Requests, DropStash(r)
  PROVE  StashInv'
<1>1. /\ StashTypeOK /\ StashBusy(r) /\ operation[r].at = "drop" /\ unmerged' \subseteq Worktrees
      /\ UNCHANGED <<tree, objects, committed, edits, started, met, mistaken>> /\ slipped \in BOOLEAN
  BY DEF StashInv, StashTypeOK, DropStash, At, StashBusy, Frame
<1>2. PICK how \in {"success", "error"} : End(r, how) BY DEF DropStash, Finish
<1>3. CASE UNCHANGED <<stash, slipped>>
  <2>1. Gentle(r) BY <1>1, <1>3, GentleSame DEF DropStash
  <2> QED BY <1>1, <1>2, <2>1, EndKeepsStash
<1>4. CASE /\ operation[r].place \in DOMAIN stash /\ stash' = RemoveAt(stash, operation[r].place)
           /\ slipped' = (slipped \/ stash[operation[r].place] # operation[r].oid)
  <2>1. stash \in Seq(1..Len(objects)) /\ operation[r].place \in 1..Len(stash) /\ DOMAIN objects = 1..Len(objects)
    BY <1>1, <1>4, EntriesExist DEF StashTypeOK
  <2>2. stash' \in Seq(1..Len(objects)) /\ \A n \in Range(stash) : n # stash[operation[r].place] => n \in Range(stash')
    BY <1>4, <2>1, RemovedEntry
  <2>3. RequestInv(r) /\ operation[r].oid # 0 /\ operation[r].oid \in 0..Len(objects) /\ operation[r].in \in Worktrees
    BY <1>1 DEF StashInv, RequestInv, PlacedOp, Restoring
  <2>4. Becomes(r) /\ operation'[r].at = "ended" /\ operation'[r].oid = operation[r].oid /\ operation'[r].result = how
        /\ ~ StashBusy(r)'
    BY <1>2, Ends DEF StashBusy
  <2>5. slipped' \in BOOLEAN /\ (slipped => slipped') BY <1>1, <1>4
  <2>6. StashTypeOK' BY <1>1, <2>1, <2>2, <2>4, <2>5 DEF StashTypeOK, Becomes
  <2>7. ASSUME ~ slipped'
        PROVE  \A n \in Range(stash) : n \in Range(stash)' \/ (n = operation[r].oid /\ n # 0)
    BY <1>4, <2>2, <2>3, <2>7 DEF Range
  <2>8. ASSUME ~ slipped', NEW n \in 0..Len(objects), NEW c \in StashChange, Elsewhere(c, n)
        PROVE  Elsewhere(c, n)'
    <3>1. InTree(c) => InTree(c)' BY <1>1 DEF InTree
    <3>2. ASSUME NEW m \in Range(stash), n < m, c \in objects[m]
          PROVE  Elsewhere(c, n)'
      <4>1. CASE m \in Range(stash)' BY <1>1, <3>2, <4>1 DEF Elsewhere
      <4>2. CASE m = operation[r].oid
        <5>1. Elsewhere(c, m) BY <1>1, <1>4, <2>3, <2>8, <3>2, <4>2 DEF RequestInv, AppliedOp
        <5>2. ASSUME NEW k \in Range(stash), m < k, c \in objects[k]
              PROVE  k \in Range(stash)' /\ n < k
          <6>1. k \in 1..Len(objects) /\ m \in 1..Len(objects) /\ Len(objects) \in Nat BY <1>1, EntriesExist
          <6>2. n < k /\ k # m BY <3>2, <5>2, <6>1
          <6> QED BY <2>7, <2>8, <4>2, <6>2
        <5> QED BY <1>1, <3>1, <5>1, <5>2 DEF Elsewhere
      <4> QED BY <2>7, <2>8, <3>2, <4>1, <4>2
    <3> QED BY <1>1, <2>8, <3>1, <3>2 DEF Elsewhere
  <2>9. Len(objects) \in Nat BY <1>1, EntriesExist
  <2>10. OneStep(r) BY <1>1, <2>4, <2>5, <2>7, <2>8, <2>9 DEF OneStep, Becomes
  <2>11. PlacedOp(r)' BY <1>1, <2>3, <2>4 DEF PlacedOp, Becomes, Restoring, RequestInv
  <2>12. TrueOutcome(r)'
    <3>1. ~ operation[r].crowded /\ operation[r].oid = operation[r].pushed => operation[r].had \subseteq tree[operation[r].in] \cup committed
      BY <1>1, <2>3 DEF RequestInv, OwnChanges
    <3> QED BY <1>1, <2>4, <3>1 DEF TrueOutcome, Becomes
  <2>13. RequestInv(r)'
    BY <2>4, <2>11, <2>12 DEF RequestInv, AppliedOp, OwnChanges, CrowdsOthers, OwnEntry, AloneOp
  <2>14. EntriesAreOwn'
    <3>1. ~ met => stash[operation[r].place] = operation[r].oid BY <1>1, <2>3 DEF RequestInv, AloneOp
    <3> QED BY <1>1, <1>4, <3>1 DEF StashInv, EntriesAreOwn
  <2> QED BY <2>6, <2>10, <2>13, <2>14, OthersKept
<1> QED BY <1>3, <1>4 DEF DropStash

\* What happens outside: changes are made or committed, but none disappears.
StashOutside ==
  /\ tree' \in [Worktrees -> SUBSET StashChange] /\ committed' \subseteq StashChange /\ edits' \in 0..MaxEdits
  /\ committed \subseteq committed' /\ unmerged' \subseteq Worktrees
  /\ \A w \in Worktrees : tree[w] \cup committed \subseteq tree'[w] \cup committed'
  /\ \A c \in (1..edits') \ (1..edits) : InTree(c)'
  /\ UNCHANGED <<objects, stash, operation, started, met, mistaken, slipped>>

LEMMA StashOutsideKeeps ==
  ASSUME StashInv, StashOutside
  PROVE  StashInv'
<1>1. StashTypeOK' BY DEF StashInv, StashTypeOK, StashOutside
<1>2. /\ Range(stash)' = Range(stash) /\ Newest' = Newest /\ objects' = objects /\ stash' = stash /\ operation' = operation
      /\ committed \subseteq committed' /\ mistaken' = mistaken /\ slipped' = slipped /\ met' = met
      /\ \A w \in Worktrees : tree[w] \cup committed \subseteq tree'[w] \cup committed'
  BY DEF StashOutside, Range, Newest
<1>3. \A c, n : Elsewhere(c, n) => Elsewhere(c, n)' BY <1>2 DEF Elsewhere, InTree
<1>4. slipped' \/ \A c \in 1..edits' : Elsewhere(c, 0)'
  <2>1. \A c : InTree(c)' => Elsewhere(c, 0)' BY DEF Elsewhere
  <2> QED BY <1>2, <1>3, <2>1 DEF StashInv, StashOutside
<1>5. EntriesAreOwn' BY <1>2 DEF StashInv, EntriesAreOwn
<1>6. ASSUME NEW r \in Requests
      PROVE  RequestInv(r)'
  <2>1. RequestInv(r) BY DEF StashInv
  <2>2. PlacedOp(r)' /\ CrowdsOthers(r)' /\ OwnEntry(r)' /\ AloneOp(r)'
    BY <1>2, <2>1 DEF RequestInv, PlacedOp, CrowdsOthers, OwnEntry, AloneOp, StashBusy
  <2>3. AppliedOp(r)' BY <1>2, <1>3, <2>1 DEF RequestInv, AppliedOp, Elsewhere, InTree
  <2>4. StashBusy(r) \/ operation[r].result # "none" => tree[operation[r].in] \cup committed \subseteq tree'[operation[r].in] \cup committed'
    BY <1>2, <2>1 DEF RequestInv, PlacedOp
  <2>5. OwnChanges(r)'
    <3>1. SUFFICES ASSUME StashBusy(r), ~ operation[r].crowded PROVE OwnChanges(r)'
      BY <1>2 DEF OwnChanges, StashBusy
    <3> QED BY <1>2, <2>1, <2>4, <3>1 DEF RequestInv, OwnChanges
  <2>6. TrueOutcome(r)' BY <1>2, <2>1, <2>4 DEF RequestInv, TrueOutcome
  <2> QED BY <2>2, <2>3, <2>5, <2>6 DEF RequestInv
<1> QED BY <1>1, <1>4, <1>5, <1>6 DEF StashInv

LEMMA StartKeeps ==
  ASSUME StashInv, NEW r \in Requests, NEW w \in Worktrees, NEW kind \in {"pull", "move"}, Start(r, w, kind)
  PROVE  StashInv'
<1>1. StashTypeOK /\ ~ StashBusy(r) /\ UNCHANGED <<tree, committed, unmerged, objects, stash, edits, mistaken, slipped>>
      /\ met' = (met \/ \E p \in Requests : StashBusy(p)) /\ started' \in 0..MaxStashes
  <2>1. StashTypeOK /\ ~ StashBusy(r) /\ UNCHANGED <<tree, committed, unmerged, objects, stash, edits, mistaken, slipped>>
        /\ started < MaxStashes /\ started' = started + 1
    BY DEF StashInv, Start
  <2>2. met' = (met \/ \E p \in Requests : StashBusy(p)) BY DEF Start
  <2>3. started' \in 0..MaxStashes BY <2>1, AutostashAssumption DEF StashTypeOK
  <2> QED BY <2>1, <2>2, <2>3
<1>2. PICK stage \in {"update", "previous"} : stage = IF tree[w] = {} THEN "update" ELSE "previous" OBVIOUS
<1>3. PICK busy \in BOOLEAN : busy = Occupied(w) BY DEF Occupied
<1>4. PICK m : m = [Unused EXCEPT !.kind = kind, !.in = w, !.at = stage, !.had = tree[w], !.crowded = busy] OBVIOUS
<1>5. /\ m.kind = kind /\ m.in = w /\ m.at = stage /\ m.had = tree[w] /\ m.crowded = busy /\ m.oid = 0 /\ m.pushed = 0
      /\ m.result = "none" /\ m \in Operation
  BY <1>1, <1>4 DEF Unused, Operation, Oid, StashTypeOK
<1>6. operation' = [p \in Requests |-> IF p # r THEN [operation[p] EXCEPT !.crowded = @ \/ operation[p].in = w] ELSE m]
  BY <1>2, <1>3, <1>4 DEF Start
<1>7. operation'[r] = m BY <1>6
<1>8. ASSUME NEW p \in Requests \ {r}
      PROVE  /\ operation'[p].crowded = (operation[p].crowded \/ operation[p].in = w)
             /\ operation'[p].in = operation[p].in /\ operation'[p].at = operation[p].at /\ operation'[p].had = operation[p].had
             /\ operation'[p].oid = operation[p].oid /\ operation'[p].pushed = operation[p].pushed
             /\ operation'[p].result = operation[p].result /\ operation'[p].place = operation[p].place
             /\ operation'[p].previous = operation[p].previous /\ operation'[p] \in Operation
  BY <1>1, <1>6 DEF StashTypeOK, Operation
<1>9. operation' \in [Requests -> Operation] BY <1>5, <1>6, <1>7, <1>8
<1>10. StashTypeOK'
  <2>1. met' \in BOOLEAN BY <1>1 DEF StashTypeOK
  <2> QED BY <1>1, <1>9, <2>1 DEF StashTypeOK
<1>11. \A c, n : Elsewhere(c, n) <=> Elsewhere(c, n)' BY <1>1 DEF Elsewhere, InTree, Range
<1>12. /\ Range(stash)' = Range(stash) /\ tree' = tree /\ committed' = committed /\ objects' = objects /\ stash' = stash
       /\ edits' = edits /\ mistaken' = mistaken /\ slipped' = slipped
  BY <1>1 DEF Range
<1>13. (slipped' \/ \A c \in 1..edits' : Elsewhere(c, 0)') /\ EntriesAreOwn'
  <2>1. slipped' \/ \A c \in 1..edits' : Elsewhere(c, 0)' BY <1>11, <1>12 DEF StashInv
  <2>2. met => met' BY <1>1
  <2>3. EntriesAreOwn' BY <1>12, <2>2 DEF StashInv, EntriesAreOwn
  <2> QED BY <2>1, <2>3
<1>14. ASSUME NEW p \in Requests \ {r}
       PROVE  RequestInv(p)'
  <2>1. RequestInv(p) BY DEF StashInv
  <2>2. StashBusy(p)' <=> StashBusy(p) BY <1>8 DEF StashBusy
  <2>3. PlacedOp(p)' BY <1>8, <1>12, <2>1, <2>2 DEF RequestInv, PlacedOp
  <2>4. AppliedOp(p)'
    <3>1. PICK n : n = operation[p].oid OBVIOUS
    <3>2. operation[p].at \in {"unstage", "find", "drop"} /\ ~ slipped => \A c \in objects[n] : Elsewhere(c, n)
      BY <2>1, <3>1 DEF RequestInv, AppliedOp
    <3> QED BY <1>8, <1>11, <1>12, <3>1, <3>2 DEF AppliedOp, Elsewhere
  <2>5. OwnChanges(p)' BY <1>8, <1>12, <2>1, <2>2 DEF RequestInv, OwnChanges
  <2>6. CrowdsOthers(p)'
    <3>1. SUFFICES ASSUME StashBusy(p), NEW q \in Requests \ {p}, operation'[q].in = operation[p].in
                   PROVE  operation'[q].crowded
      BY <1>8, <2>2 DEF CrowdsOthers
    <3>2. CASE q = r BY <1>3, <1>5, <1>7, <3>1, <3>2 DEF Occupied
    <3>3. CASE q # r BY <1>8, <2>1, <3>1, <3>3 DEF RequestInv, CrowdsOthers
    <3> QED BY <3>2, <3>3
  <2>7. OwnEntry(p)'
    <3>1. SUFFICES ASSUME StashBusy(p), ~ mistaken PROVE OwnEntry(p)'
      BY <1>12, <2>2 DEF OwnEntry
    <3>2. OwnEntry(p) BY <2>1 DEF RequestInv
    <3>3. \A q \in Requests \ {p, r} : (StashBusy(q)' <=> StashBusy(q)) BY <1>8 DEF StashBusy
    <3> QED BY <1>5, <1>7, <1>8, <1>12, <3>1, <3>2, <3>3 DEF OwnEntry
  <2>8. AloneOp(p)' BY <1>1, <2>2 DEF AloneOp
  <2>9. TrueOutcome(p)' BY <1>8, <1>12, <2>1 DEF RequestInv, TrueOutcome
  <2> QED BY <2>3, <2>4, <2>5, <2>6, <2>7, <2>8, <2>9 DEF RequestInv
<1>15. RequestInv(r)'
  <2>1. 0 \in 0..Len(objects') BY <1>1, EntriesExist
  <2>2. PlacedOp(r)' BY <1>5, <1>7, <2>1 DEF PlacedOp, Restoring
  <2>3. AppliedOp(r)' /\ OwnEntry(r)' /\ TrueOutcome(r)' BY <1>5, <1>7 DEF AppliedOp, OwnEntry, TrueOutcome
  <2>4. OwnChanges(r)' BY <1>2, <1>5, <1>7, <1>12 DEF OwnChanges
  <2>5. CrowdsOthers(r)' BY <1>5, <1>7, <1>8 DEF CrowdsOthers
  <2>6. AloneOp(r)'
    <3>1. ~ met' => \A p \in Requests \ {r} : ~ StashBusy(p)' BY <1>1, <1>8 DEF StashBusy
    <3> QED BY <1>5, <1>7, <3>1 DEF AloneOp
  <2> QED BY <2>2, <2>3, <2>4, <2>5, <2>6 DEF RequestInv
<1> QED BY <1>10, <1>13, <1>14, <1>15 DEF StashInv

LEMMA StashCrashKeeps ==
  ASSUME StashInv, StashCrash
  PROVE  StashInv'
<1>1. /\ StashTypeOK /\ UNCHANGED <<tree, committed, unmerged, objects, stash, edits, started, met, mistaken, slipped>>
      /\ operation' = [r \in Requests |-> [operation[r] EXCEPT !.at = "ended", !.result = "none"]]
  BY DEF StashInv, StashCrash
<1>2. ASSUME NEW r \in Requests
      PROVE  /\ operation'[r] \in Operation /\ operation'[r].at = "ended" /\ operation'[r].result = "none"
             /\ operation'[r].oid = operation[r].oid /\ operation'[r].pushed = operation[r].pushed
  BY <1>1 DEF StashTypeOK, Operation
<1>3. StashTypeOK' BY <1>1, <1>2 DEF StashTypeOK
<1>4. \A r \in Requests : PlacedOp(r) BY DEF StashInv, RequestInv
<1>5. \A r \in Requests : RequestInv(r)'
  BY <1>1, <1>2, <1>4 DEF RequestInv, PlacedOp, AppliedOp, OwnChanges, CrowdsOthers, OwnEntry, AloneOp, TrueOutcome, Restoring, StashBusy
<1>6. \A c, n : Elsewhere(c, n) => Elsewhere(c, n)' BY <1>1 DEF Elsewhere, InTree, Range
<1> QED BY <1>1, <1>3, <1>5, <1>6 DEF StashInv, EntriesAreOwn

LEMMA StashStep == StashInv /\ [StashNext]_stashVars => StashInv'
<1> SUFFICES ASSUME StashInv, [StashNext]_stashVars
             PROVE  StashInv'
  OBVIOUS
<1>1. StashTypeOK /\ edits \in Nat BY DEF StashInv, StashTypeOK
<1>2. ASSUME NEW w \in Worktrees, Edit(w)
      PROVE  StashInv'
  <2>1. /\ edits' = edits + 1 /\ tree' = [tree EXCEPT ![w] = @ \cup {edits'}] /\ edits < MaxEdits
        /\ UNCHANGED <<committed, unmerged, objects, stash, operation, started, met, mistaken, slipped>>
    BY <1>2 DEF Edit
  <2>2. edits' \in StashChange /\ edits' \in 0..MaxEdits
    BY <1>1, <2>1, AutostashAssumption DEF StashTypeOK, StashChange
  <2>3. tree' \in [Worktrees -> SUBSET StashChange] /\ \A v \in Worktrees : tree[v] \subseteq tree'[v]
    BY <1>1, <2>1, <2>2 DEF StashTypeOK
  <2>4. edits' \in tree'[w] /\ \A c \in (1..edits') \ (1..edits) : c = edits'
    BY <1>1, <2>1 DEF StashTypeOK
  <2>5. StashOutside BY <1>1, <2>1, <2>2, <2>3, <2>4 DEF StashTypeOK, StashOutside, InTree
  <2> QED BY <2>5, StashOutsideKeeps
<1>3. ASSUME NEW w \in Worktrees, CommitEdits(w)
      PROVE  StashInv'
  <2>1. /\ committed' = committed \cup tree[w] /\ tree' = [tree EXCEPT ![w] = {}]
        /\ UNCHANGED <<unmerged, objects, stash, operation, edits, started, met, mistaken, slipped>>
    BY <1>3 DEF CommitEdits
  <2>2. tree' \in [Worktrees -> SUBSET StashChange] /\ committed' \subseteq StashChange
        /\ \A v \in Worktrees : tree[v] \cup committed \subseteq tree'[v] \cup committed'
    BY <1>1, <2>1 DEF StashTypeOK
  <2>3. StashOutside BY <1>1, <2>1, <2>2 DEF StashTypeOK, StashOutside
  <2> QED BY <2>3, StashOutsideKeeps
<1>4. ASSUME NEW w \in Worktrees, Resolve(w)
      PROVE  StashInv'
  <2>1. StashOutside BY <1>1, <1>4 DEF Resolve, StashTypeOK, StashOutside
  <2> QED BY <2>1, StashOutsideKeeps
<1>5. CASE UNCHANGED stashVars
  <2>1. StashOutside BY <1>1, <1>5 DEF stashVars, StashTypeOK, StashOutside
  <2> QED BY <2>1, StashOutsideKeeps
<1>6. ASSUME NEW r \in Requests, NEW w \in Worktrees, StartPull(r, w) \/ StartMove(r, w)
      PROVE  StashInv'
  BY <1>6, StartKeeps DEF StartPull, StartMove
<1> QED
  BY <1>2, <1>3, <1>4, <1>5, <1>6, ReadPreviousKeeps, PushStashKeeps, ReadOidKeeps, UpdateKeeps, AbortRebaseKeeps,
     ApplyStashKeeps, UnstageKeeps, FindStashKeeps, DropStashKeeps, StashCrashKeeps DEF StashNext

LEMMA StashInitInv == StashInit => StashInv
<1> SUFFICES ASSUME StashInit
             PROVE  StashInv
  OBVIOUS
<1>1. /\ objects = <<>> /\ stash = <<>> /\ Len(objects) = 0 /\ edits = 0 /\ ~ slipped /\ ~ mistaken
      /\ \A r \in Requests : operation[r] = Unused
  BY DEF StashInit
<1>2. Unused \in Operation BY DEF Unused, Operation, Oid
<1>3. StashTypeOK
  <2>1. objects \in Seq(SUBSET StashChange) /\ stash \in Seq(DOMAIN objects) BY <1>1
  <2>2. 0 \in 0..MaxEdits /\ 0 \in 0..MaxStashes BY AutostashAssumption
  <2>3. operation \in [Requests -> Operation] BY <1>2 DEF StashInit
  <2> QED BY <2>1, <2>2, <2>3 DEF StashInit, StashTypeOK
<1>4. \A r \in Requests : RequestInv(r)
  BY <1>1 DEF Unused, RequestInv, PlacedOp, AppliedOp, OwnChanges, CrowdsOthers, OwnEntry, AloneOp, TrueOutcome, Restoring, StashBusy
<1>5. 1..edits = {} BY <1>1
<1> QED BY <1>1, <1>3, <1>4, <1>5 DEF StashInv, EntriesAreOwn

\* Whatever pulls and switches run beside each other, in one worktree or in several, whichever
\* of their commands fails, however much of it was done, and whenever the server ends:
\* every change of the user is committed, in a worktree or in the stash list, unless a drop
\* by position hit another operation's entry; what an operation reports about the changes it
\* put aside is so, unless one took another's entry; one at a time neither happens
\* (GitRepositoryOperations.ts pullInContext, switchBranch, restoreAutostash, dropStash).
THEOREM NoChangeIsLost == StashSpec => []ChangesAreSafe
<1>1. ASSUME StashInv PROVE ChangesAreSafe
  <2>1. Range(stash) \subseteq 1..Len(objects) BY <1>1, EntriesExist DEF StashInv
  <2>2. ChangesKept BY <1>1 DEF StashInv, ChangesKept, StashKept, Elsewhere, InStash
  <2>3. OutcomeIsTrue BY <1>1 DEF StashInv, RequestInv, TrueOutcome, OutcomeIsTrue
  <2> QED BY <1>1, <2>2, <2>3 DEF StashInv, ChangesAreSafe
<1> QED BY <1>1, StashInitInv, StashStep, PTL DEF StashSpec

------------------------------
(* A plan of commits: for any number of contents and of steps of others. *)

IsPlan(p) ==
  /\ p = [groups |-> p.groups, fps |-> p.fps, shown |-> p.shown]
  /\ p.fps \in Content /\ p.shown \in [Files -> Version \cup {Nothing}]
  /\ \A i \in DOMAIN p.groups : p.groups[i] \subseteq Files
  /\ \A i, j \in DOMAIN p.groups : i # j => p.groups[i] \cap p.groups[j] = {}

IsGen ==
  /\ gen = [pc |-> gen.pc, paths |-> gen.paths, blocked |-> gen.blocked, patch |-> gen.patch,
            left |-> gen.left, touched |-> gen.touched, plan |-> gen.plan]
  /\ gen.pc \in {"idle", "status", "model", "recheck", "hash"}
  /\ gen.paths \subseteq Files /\ gen.left \subseteq Files /\ gen.touched \in BOOLEAN
  /\ IsPlan(gen.plan) /\ (gen.pc # "hash" => gen.plan.groups = <<>>)

IsPreparation ==
  /\ preparation = [pc |-> preparation.pc, group |-> preparation.group, paths |-> preparation.paths,
                    expected |-> preparation.expected, fps |-> preparation.fps,
                    staged |-> preparation.staged, changed |-> preparation.changed]
  /\ preparation.pc \in {"idle", "status", "hash", "unstage", "add", "answer", "refuse"}
  /\ preparation.paths \subseteq Files

Typed ==
  /\ head \in Content /\ index \in Content /\ work \in Content
  /\ IsGen /\ IsPlan(plan) /\ IsPreparation

Shown == [f \in Files |-> IF f \in Staged THEN index[f] ELSE Nothing]

\* A generation that nothing has touched is about the repository as it is.
GenIsCurrent ==
  ~gen.touched =>
    /\ gen.pc \in {"model", "recheck", "hash"} =>
         gen.paths = Staged /\ (~gen.blocked => Staged \cap Unstaged = {})
    /\ gen.pc \in {"recheck", "hash"} => gen.plan.shown = Shown
    /\ gen.pc = "hash" /\ gen.plan.groups # <<>> =>
         /\ ~gen.blocked /\ gen.paths = UNION Range(gen.plan.groups)
         /\ \A f \in gen.paths \ gen.left : gen.plan.fps[f] = work[f]

\* What is prepared is a group of the plan on screen.
PreparesThePlan ==
  Preparing /\ plan # NoPlan /\ ~replaced =>
    /\ preparation.group \in DOMAIN plan.groups \ done /\ preparation.group # 0
    /\ preparation.paths = plan.groups[preparation.group] /\ preparation.fps = plan.fps

\* What an undisturbed preparation knows of the repository, and has made of the index.
PreparedSoFar ==
  /\ preparation.pc \in {"hash", "unstage"} =>
       preparation.staged = Staged /\ preparation.changed = Staged \cup Unstaged
  /\ preparation.pc \in {"unstage", "add"} => SameFingerprint
  /\ preparation.pc = "add" => Staged = {}
  /\ preparation.pc = "answer" =>
       /\ Staged \subseteq preparation.paths
       /\ added => \A f \in preparation.paths : index[f] = preparation.fps[f]

PreparationIsSound ==
  /\ preparation.pc \in {"status", "hash", "unstage", "add"} => ~added
  /\ Preparing /\ ~disturbed => PreparedSoFar

\* The files of group i are in the index as they were shown, and no others.
OnlyGroupStaged(i) ==
  \A f \in Files : index[f] = IF f \in Group(plan, i) THEN plan.shown[f] ELSE head[f]

Planned(f) == \E i \in DOMAIN plan.groups : f \in plan.groups[i]

\* A plan that nobody touched: its files are as they were shown, the committed ones in the
\* head commit, too, and at most they are staged.
OnCourse ==
  /\ \A i \in DOMAIN plan.groups : \A f \in plan.groups[i] :
       /\ work[f] = plan.shown[f] /\ plan.fps[f] = plan.shown[f]
       /\ index[f] \in {head[f], plan.shown[f]}
       /\ (i \in done) <=> (head[f] = plan.shown[f])
  /\ \A f \in Files : ~Planned(f) => index[f] = head[f]
  /\ ~refused /\ preparation.pc # "refuse"
  /\ ~Preparing \/ preparation.pc = "status" => known = Staged
  /\ preparation.pc = "status" => preparation.expected = Staged
  /\ preparation.pc \in {"hash", "unstage"} =>
       preparation.staged = Staged /\ preparation.changed = Staged \cup Unstaged
  /\ preparation.pc = "add" => Staged = {}
  /\ preparation.pc = "answer" => OnlyGroupStaged(preparation.group)
  /\ ~Preparing /\ prepared # 0 => prepared \in DOMAIN plan.groups /\ OnlyGroupStaged(prepared)

PlanInv ==
  /\ Typed /\ GenIsCurrent /\ PreparesThePlan /\ PreparationIsSound
  /\ OnlyTheGroup /\ AddedIsFingerprinted
  /\ plan # NoPlan /\ ~touched /\ ~replaced => OnCourse

------------------------------
(* Steps of a generation. *)

\* No plan is a plan without groups.
LEMMA NoPlanIsPlan == IsPlan(NoPlan)
<1>1. /\ NoPlan.groups = <<>> /\ NoPlan.fps = [f \in Files |-> 0]
      /\ NoPlan.shown = [f \in Files |-> Nothing] /\ DOMAIN <<>> = {}
  BY DEF NoPlan
<1>2. 0 \in Version BY PlanAssumption DEF Version
<1> QED BY <1>1, <1>2 DEF IsPlan, NoPlan, Content

\* A generation that ended, or just begins.
LEMMA FreshGen ==
  ASSUME gen' = NoGen \/ gen' = [NoGen EXCEPT !.pc = "status"]
  PROVE  IsGen' /\ GenIsCurrent'
<1>1. PICK pc \in {"idle", "status"} :
        gen' = [pc |-> pc, paths |-> {}, blocked |-> FALSE, patch |-> <<>>, left |-> {},
                touched |-> FALSE, plan |-> NoPlan]
  BY DEF NoGen
<1>2. IsPlan(gen.plan)' /\ gen'.plan.groups = <<>> BY <1>1, NoPlanIsPlan DEF IsPlan, NoPlan
<1>3. GenIsCurrent' BY <1>1 DEF GenIsCurrent
<1> QED BY <1>1, <1>2, <1>3 DEF IsGen

\* A step of the generation changes nothing that the rest of the invariant is about.
LEMMA GenStep ==
  ASSUME PlanInv, UNCHANGED <<repo, window, preparation, history>>, IsGen', GenIsCurrent'
  PROVE  PlanInv'
<1> USE DEF repo, window, history
<1>1. Typed' BY DEF PlanInv, Typed, IsPlan, IsPreparation
<1>2. PreparesThePlan' BY DEF PlanInv, PreparesThePlan, Preparing
<1>3. PreparationIsSound'
  BY DEF PlanInv, PreparationIsSound, PreparedSoFar, Preparing, SameFingerprint, FingerprintOf, Staged, Unstaged
<1>4. OnlyTheGroup' /\ AddedIsFingerprinted'
  BY DEF PlanInv, OnlyTheGroup, AddedIsFingerprinted, InPeace, Preparing, Staged, Group
<1>5. plan' # NoPlan /\ ~touched' /\ ~replaced' => OnCourse'
  BY DEF PlanInv, OnCourse, OnlyGroupStaged, Planned, Preparing, Staged, Unstaged, Group
<1> QED BY <1>1, <1>2, <1>3, <1>4, <1>5 DEF PlanInv

\* A generation begins with nothing known.
LEMMA BeginGenerateStep == PlanInv /\ BeginGenerate => PlanInv'
BY FreshGen, GenStep DEF BeginGenerate

\* An abandoned generation leaves nothing.
LEMMA AbandonedStep == PlanInv /\ Abandoned => PlanInv'
BY FreshGen, GenStep DEF Abandoned

\* The staged files are what the generation is about.
LEMMA ReadStatusStep == PlanInv /\ ReadStatus => PlanInv'
<1> SUFFICES ASSUME PlanInv, ReadStatus, ~Abandoned PROVE PlanInv'
  BY AbandonedStep
<1> DEFINE blocked == Staged \cap Unstaged # {}
<1>1. /\ gen' = [gen EXCEPT !.pc = "model", !.paths = Staged, !.blocked = blocked]
      /\ UNCHANGED <<repo, window, preparation, history>>
  BY DEF ReadStatus
<1>2. gen' = [pc |-> "model", paths |-> Staged, blocked |-> blocked, patch |-> gen.patch,
              left |-> gen.left, touched |-> gen.touched, plan |-> gen.plan]
  BY <1>1 DEF PlanInv, Typed, IsGen
<1>3. IsGen'
  <2>1. gen.pc = "status" /\ IsGen BY DEF ReadStatus, PlanInv, Typed
  <2>2. Staged \subseteq Files BY DEF Staged
  <2> QED BY <1>2, <2>1, <2>2 DEF IsGen, IsPlan
<1>4. Staged' = Staged /\ Unstaged' = Unstaged BY <1>1 DEF Staged, Unstaged, repo
<1>5. GenIsCurrent' BY <1>2, <1>4 DEF GenIsCurrent
<1> QED BY <1>1, <1>3, <1>5, GenStep

\* The model is shown the staged contents.
LEMMA ReadPatchStep == PlanInv /\ ReadPatch => PlanInv'
<1> SUFFICES ASSUME PlanInv, ReadPatch PROVE PlanInv'
  OBVIOUS
<1> DEFINE p == [groups |-> gen.plan.groups, fps |-> gen.plan.fps, shown |-> Shown]
<1>0. UNCHANGED <<repo, window, preparation, history>> /\ IsGen /\ IsPlan(gen.plan)
  BY DEF ReadPatch, PlanInv, Typed, IsGen
<1>1. [gen.plan EXCEPT !.shown = Shown] = p BY <1>0 DEF IsPlan
<1>2. gen' = [gen EXCEPT !.pc = "recheck", !.patch = Patch, !.plan = p] BY <1>1 DEF ReadPatch, Shown
<1>3. Shown \in [Files -> Version \cup {Nothing}] BY DEF Shown, PlanInv, Typed, Content
<1>4. IsPlan(p) BY <1>0, <1>3 DEF IsPlan
<1> HIDE DEF p
<1>5. gen' = [pc |-> "recheck", paths |-> gen.paths, blocked |-> gen.blocked, patch |-> Patch,
              left |-> gen.left, touched |-> gen.touched, plan |-> p]
  BY <1>0, <1>2 DEF IsGen
<1>6. IsGen'
  <2>1. p.groups = <<>> BY <1>0 DEF ReadPatch, IsGen, p
  <2> QED BY <1>0, <1>4, <1>5, <2>1 DEF IsGen, IsPlan
<1>7. Staged' = Staged /\ Unstaged' = Unstaged /\ Shown' = Shown
  BY <1>0 DEF Staged, Unstaged, Shown, repo
<1>8. GenIsCurrent'
  <2>1. gen.pc = "model" /\ GenIsCurrent BY DEF ReadPatch, PlanInv
  <2>2. gen'.plan.shown = Shown BY <1>5 DEF p
  <2> QED BY <1>5, <1>7, <2>1, <2>2 DEF GenIsCurrent
<1> QED BY <1>0, <1>6, <1>8, GenStep

\* The answer is about what the model was shown.
LEMMA RecheckStep == PlanInv /\ Recheck => PlanInv'
<1> SUFFICES ASSUME PlanInv, Recheck, ~Abandoned PROVE PlanInv'
  BY AbandonedStep
<1>0. UNCHANGED <<repo, window, preparation, history>> /\ IsGen /\ IsPlan(gen.plan) /\ gen.pc = "recheck"
  BY DEF Recheck, PlanInv, Typed, IsGen
<1>1. Staged' = Staged /\ Unstaged' = Unstaged /\ Shown' = Shown /\ work' = work
  BY <1>0 DEF Staged, Unstaged, Shown, repo
<1>2. CASE gen' = [gen EXCEPT !.pc = "hash"]
  <2>1. gen' = [pc |-> "hash", paths |-> gen.paths, blocked |-> gen.blocked, patch |-> gen.patch,
                left |-> gen.left, touched |-> gen.touched, plan |-> gen.plan]
    BY <1>0, <1>2 DEF IsGen
  <2>2. IsGen' BY <1>0, <2>1 DEF IsGen, IsPlan
  <2>3. GenIsCurrent' BY <1>0, <1>1, <2>1 DEF GenIsCurrent, PlanInv, IsGen
  <2> QED BY <1>0, <2>2, <2>3, GenStep
<1>3. ASSUME ~gen.blocked, NEW g \in Partitions(gen.paths),
             gen' = [gen EXCEPT !.pc = "hash", !.plan.groups = g, !.left = gen.paths]
      PROVE  PlanInv'
  <2> DEFINE p == [groups |-> g, fps |-> gen.plan.fps, shown |-> gen.plan.shown]
  <2>1. [gen.plan EXCEPT !.groups = g] = p BY <1>0 DEF IsPlan
  <2>2. gen' = [gen EXCEPT !.pc = "hash", !.plan = p, !.left = gen.paths] BY <1>3, <2>1
  <2>3. PICK n \in 2..Cardinality(gen.paths) :
          /\ g \in [1..n -> (SUBSET gen.paths) \ {{}}] /\ UNION Range(g) = gen.paths
          /\ \A i, j \in 1..n : i # j => g[i] \cap g[j] = {}
    BY DEF Partitions
  <2>4. IsPlan(p) BY <1>0, <2>3 DEF IsPlan, IsGen
  <2> HIDE DEF p
  <2>5. gen' = [pc |-> "hash", paths |-> gen.paths, blocked |-> gen.blocked, patch |-> gen.patch,
                left |-> gen.paths, touched |-> gen.touched, plan |-> p]
    BY <1>0, <2>2 DEF IsGen
  <2>6. IsGen' BY <1>0, <2>4, <2>5 DEF IsGen, IsPlan
  <2>7. GenIsCurrent'
    <3>1. GenIsCurrent BY DEF PlanInv
    <3>2. p.groups = g /\ p.shown = gen.plan.shown BY DEF p
    <3>3. UNION Range(g) = gen.paths /\ gen.paths \ gen.paths = {} BY <2>3
    <3>4. ~gen.touched => gen.paths = Staged /\ Staged \cap Unstaged = {} /\ gen.plan.shown = Shown
      BY <1>0, <1>3, <3>1 DEF GenIsCurrent
    <3>5. /\ gen'.touched = gen.touched /\ gen'.paths = gen.paths /\ gen'.left = gen.paths
          /\ gen'.blocked = gen.blocked /\ gen'.plan = p
      BY <2>5
    <3> QED BY <1>1, <1>3, <3>2, <3>3, <3>4, <3>5 DEF GenIsCurrent
  <2> QED BY <1>0, <2>6, <2>7, GenStep
<1> QED BY <1>2, <1>3 DEF Recheck

\* A file's fingerprint is that of its working tree.
LEMMA HashFileStep == \A f \in Files : PlanInv /\ HashFile(f) => PlanInv'
<1> SUFFICES ASSUME NEW f \in Files, PlanInv, HashFile(f) PROVE PlanInv'
  OBVIOUS
<1>0. /\ UNCHANGED <<repo, window, preparation, history>> /\ IsGen /\ IsPlan(gen.plan) /\ gen.pc = "hash"
      /\ GenIsCurrent /\ work \in Content
  BY DEF HashFile, PlanInv, Typed, IsGen
<1> DEFINE fps == [gen.plan.fps EXCEPT ![f] = work[f]]
           p == [groups |-> gen.plan.groups, fps |-> fps, shown |-> gen.plan.shown]
           left == gen.left \ {f}
<1>1. [gen.plan EXCEPT !.fps[f] = work[f]] = p BY <1>0 DEF IsPlan
<1>2. gen' = [gen EXCEPT !.left = left, !.plan = p] BY <1>1 DEF HashFile, FingerprintOf
<1>3. fps \in Content /\ (\A q \in Files : fps[q] = IF q = f THEN work[f] ELSE gen.plan.fps[q])
  BY <1>0 DEF IsPlan, Content
<1> HIDE DEF fps
<1>4. IsPlan(p) BY <1>0, <1>3 DEF IsPlan
<1>5. p.groups = gen.plan.groups /\ p.fps = fps /\ p.shown = gen.plan.shown OBVIOUS
<1> HIDE DEF p, left
<1>6. gen' = [pc |-> gen.pc, paths |-> gen.paths, blocked |-> gen.blocked, patch |-> gen.patch,
              left |-> left, touched |-> gen.touched, plan |-> p]
  BY <1>0, <1>2 DEF IsGen
<1>7. IsGen' BY <1>0, <1>4, <1>5, <1>6 DEF IsGen, IsPlan, left
<1>8. Staged' = Staged /\ Unstaged' = Unstaged /\ Shown' = Shown /\ work' = work
  BY <1>0 DEF Staged, Unstaged, Shown, repo
<1>9. GenIsCurrent' BY <1>0, <1>3, <1>5, <1>6, <1>8 DEF GenIsCurrent, IsGen, left
<1> QED BY <1>0, <1>7, <1>9, GenStep

------------------------------
(* The plan and its groups. *)

\* What a step of the repository leaves of the generation.
LEMMA GenTouchedFacts ==
  ASSUME IsGen, GenTouched
  PROVE  IsGen' /\ GenIsCurrent'
<1>1. CASE gen.pc = "idle" BY <1>1 DEF GenTouched, IsGen, IsPlan, GenIsCurrent
<1>2. CASE gen.pc # "idle"
  <2>1. gen' = [pc |-> gen.pc, paths |-> gen.paths, blocked |-> gen.blocked, patch |-> gen.patch,
                left |-> gen.left, touched |-> TRUE, plan |-> gen.plan]
    BY <1>2 DEF GenTouched, IsGen
  <2> QED BY <2>1 DEF IsGen, IsPlan, GenIsCurrent
<1> QED BY <1>1, <1>2

\* What a step of the window leaves of the generation.
LEMMA GenStays ==
  ASSUME IsGen, GenIsCurrent, UNCHANGED <<repo, gen>>
  PROVE  IsGen' /\ GenIsCurrent'
<1>1. Staged' = Staged /\ Unstaged' = Unstaged /\ Shown' = Shown /\ work' = work
  BY DEF Staged, Unstaged, Shown, repo
<1> QED BY <1>1 DEF IsGen, IsPlan, GenIsCurrent

\* A plan that is shown is about the repository as it is, unless something touched it.
LEMMA ShowStep == PlanInv /\ Show => PlanInv'
<1> SUFFICES ASSUME PlanInv, Show PROVE PlanInv'
  OBVIOUS
<1>0. /\ gen' = NoGen /\ prepared' = 0 /\ done' = {} /\ refused' = FALSE
      /\ plan' = IF gen.plan.groups = <<>> THEN NoPlan ELSE gen.plan
      /\ touched' = (gen.touched \/ known # Staged) /\ replaced' = Preparing
      /\ UNCHANGED <<head, index, work, known, preparation, outside, disturbed, added>>
  BY DEF Show, repo
<1>1. IsGen' /\ GenIsCurrent' BY <1>0, FreshGen
<1>2. IsPlan(gen.plan) /\ IsGen /\ GenIsCurrent /\ gen.pc = "hash" /\ gen.left = {}
  BY DEF Show, PlanInv, Typed, IsGen
<1>3. IsPlan(plan)' /\ Typed'
  BY <1>0, <1>1, <1>2, NoPlanIsPlan DEF PlanInv, Typed, IsPlan, IsPreparation
<1>4. PreparesThePlan' BY <1>0 DEF PreparesThePlan, Preparing
<1>5. PreparationIsSound'
  BY <1>0 DEF PlanInv, PreparationIsSound, PreparedSoFar, Preparing, SameFingerprint, FingerprintOf, Staged, Unstaged
<1>6. OnlyTheGroup' /\ AddedIsFingerprinted' BY <1>0 DEF OnlyTheGroup, AddedIsFingerprinted, InPeace
<1>7. ASSUME plan' # NoPlan, ~touched', ~replaced' PROVE OnCourse'
  <2>1. plan' = gen.plan /\ ~Preparing /\ ~Preparing' /\ preparation' = preparation /\ known' = Staged
    BY <1>0, <1>7 DEF Preparing
  <2>2. /\ gen.paths = Staged /\ Staged \cap Unstaged = {} /\ gen.plan.shown = Shown
        /\ UNION Range(gen.plan.groups) = Staged /\ \A f \in Staged : gen.plan.fps[f] = work[f]
    BY <1>0, <1>2, <1>7 DEF GenIsCurrent
  <2>3. \A f \in Files : f \in Staged <=> \E i \in DOMAIN gen.plan.groups : f \in gen.plan.groups[i]
    BY <2>2 DEF Range
  <2>4. \A f \in Files : f \in Staged =>
          /\ work[f] = index[f] /\ gen.plan.shown[f] = index[f] /\ gen.plan.fps[f] = index[f] /\ index[f] # head[f]
    BY <2>2 DEF Staged, Unstaged, Shown
  <2>5. Staged' = Staged BY <1>0 DEF Staged
  <2>6. \A i \in DOMAIN gen.plan.groups : gen.plan.groups[i] \subseteq Files BY <1>2 DEF IsPlan
  <2>7. \A f \in Files : ~Planned(f)' => index'[f] = head'[f]
    BY <1>0, <2>1, <2>3 DEF Planned, Staged
  <2> QED BY <1>0, <2>1, <2>3, <2>4, <2>5, <2>6, <2>7 DEF OnCourse, Preparing
<1> QED BY <1>1, <1>3, <1>4, <1>5, <1>6, <1>7 DEF PlanInv

------------------------------
(* A preparation. *)

\* A preparation begins with a group of the plan that is not committed.
LEMMA PrepareStep == \A i \in 1..Cardinality(Files) : PlanInv /\ Prepare(i) => PlanInv'
<1> SUFFICES ASSUME NEW i \in 1..Cardinality(Files), PlanInv, Prepare(i) PROVE PlanInv'
  OBVIOUS
<1>0. /\ ~Preparing /\ i \in DOMAIN plan.groups /\ i \notin done
      /\ disturbed' = FALSE /\ added' = FALSE
      /\ UNCHANGED <<head, index, work, gen, plan, prepared, done, known, outside, touched, replaced, refused>>
  BY DEF Prepare, repo, window
<1>1. preparation' = [pc |-> "status", group |-> i, paths |-> plan.groups[i], expected |-> known,
                      fps |-> plan.fps, staged |-> {}, changed |-> {}]
  BY DEF Prepare, NoTask
<1>2. Typed' /\ GenIsCurrent'
  BY <1>0, <1>1, GenStays DEF PlanInv, Typed, IsPlan, IsPreparation, repo
<1>3. PreparesThePlan' BY <1>0, <1>1 DEF PreparesThePlan
<1>4. PreparationIsSound' /\ OnlyTheGroup' /\ AddedIsFingerprinted'
  BY <1>0, <1>1 DEF PreparationIsSound, PreparedSoFar, OnlyTheGroup, AddedIsFingerprinted, InPeace, Preparing
<1>5. plan' # NoPlan /\ ~touched' /\ ~replaced' => OnCourse'
  BY <1>0, <1>1 DEF PlanInv, OnCourse, Planned, Preparing, Staged
<1> QED BY <1>2, <1>3, <1>4, <1>5 DEF PlanInv

\* A step of the preparation that only reads: what it goes on with.
LEMMA GoesStep ==
  ASSUME PlanInv, Preparing, preparation'.pc # "idle", IsPreparation',
         UNCHANGED <<repo, gen, window, history>>,
         /\ preparation'.group = preparation.group /\ preparation'.paths = preparation.paths
         /\ preparation'.fps = preparation.fps,
         preparation'.pc \in {"status", "hash", "unstage", "add"} => ~added,
         ~disturbed => PreparedSoFar',
         plan # NoPlan /\ ~touched /\ ~replaced => OnCourse'
  PROVE  PlanInv'
<1>1. Typed' /\ GenIsCurrent' BY GenStays DEF PlanInv, Typed, IsPlan, repo, window
<1>2. PreparesThePlan' BY DEF PlanInv, PreparesThePlan, Preparing, window, history
<1>3. OnlyTheGroup' /\ AddedIsFingerprinted'
  BY DEF OnlyTheGroup, AddedIsFingerprinted, InPeace, Preparing
<1> QED BY <1>1, <1>2, <1>3 DEF PlanInv, PreparationIsSound, window, history

\* A preparation goes on when the staged files are those its window knew.
LEMMA CheckStatusStep == PlanInv /\ CheckStatus => PlanInv'
<1> SUFFICES ASSUME PlanInv, CheckStatus PROVE PlanInv'
  OBVIOUS
<1>0. preparation.pc = "status" /\ UNCHANGED <<head, index, work, gen, window, history>>
  BY DEF CheckStatus, Goes, repo
<1>1. Staged' = Staged /\ Unstaged' = Unstaged BY <1>0 DEF Staged, Unstaged
<1>2. CASE Staged # preparation.expected
  <2>1. preparation' = [pc |-> "refuse", group |-> preparation.group, paths |-> preparation.paths,
                        expected |-> preparation.expected, fps |-> preparation.fps,
                        staged |-> preparation.staged, changed |-> preparation.changed]
    BY <1>2 DEF CheckStatus, Goes, PlanInv, Typed, IsPreparation
  <2>2. ~(plan # NoPlan /\ ~touched /\ ~replaced) BY <1>0, <1>2 DEF PlanInv, OnCourse
  <2>3. preparation.paths \subseteq Files BY DEF PlanInv, Typed, IsPreparation
  <2> QED BY <1>0, <2>1, <2>2, <2>3, GoesStep DEF Preparing, PreparedSoFar, IsPreparation, repo
<1>3. CASE Staged = preparation.expected
  <2> DEFINE changed == Staged \cup Unstaged
  <2>1. preparation' = [preparation EXCEPT !.pc = "hash", !.staged = Staged, !.changed = changed]
    BY <1>3 DEF CheckStatus
  <2> HIDE DEF changed
  <2>2. preparation' = [pc |-> "hash", group |-> preparation.group, paths |-> preparation.paths,
                        expected |-> preparation.expected, fps |-> preparation.fps,
                        staged |-> Staged, changed |-> changed]
    BY <2>1 DEF PlanInv, Typed, IsPreparation
  <2>3. PreparedSoFar' /\ IsPreparation'
    BY <1>1, <2>2 DEF PlanInv, Typed, PreparedSoFar, IsPreparation, changed
  <2>4. plan # NoPlan /\ ~touched /\ ~replaced => OnCourse'
    BY <1>0, <1>1, <2>2 DEF PlanInv, OnCourse, Planned, Preparing, window, history, changed
  <2>5. ~added BY <1>0 DEF PlanInv, PreparationIsSound
  <2> QED BY <1>0, <2>2, <2>3, <2>4, <2>5, GoesStep DEF Preparing, repo
<1> QED BY <1>2, <1>3

\* And when the group is as it was fingerprinted, which it is unless something touched it.
LEMMA CheckFingerprintStep == PlanInv /\ CheckFingerprint => PlanInv'
<1> SUFFICES ASSUME PlanInv, CheckFingerprint PROVE PlanInv'
  OBVIOUS
<1> DEFINE same == SameFingerprint /\ preparation.paths \subseteq preparation.changed
           pc == IF same THEN "unstage" ELSE "refuse"
<1>0. preparation.pc = "hash" /\ UNCHANGED <<head, index, work, gen, window, history>>
  BY DEF CheckFingerprint, Goes, repo
<1>1. Staged' = Staged /\ Unstaged' = Unstaged BY <1>0 DEF Staged, Unstaged
<1>2. preparation' = [preparation EXCEPT !.pc = pc] BY DEF CheckFingerprint, Goes
<1> HIDE DEF pc
<1>3. preparation' = [pc |-> pc, group |-> preparation.group, paths |-> preparation.paths,
                      expected |-> preparation.expected, fps |-> preparation.fps,
                      staged |-> preparation.staged, changed |-> preparation.changed]
  BY <1>2 DEF PlanInv, Typed, IsPreparation
<1>4. pc \in {"unstage", "refuse"} /\ (pc = "unstage" => SameFingerprint) BY DEF pc
<1>5. ~disturbed => PreparedSoFar'
  BY <1>0, <1>1, <1>3, <1>4 DEF PlanInv, PreparationIsSound, PreparedSoFar, Preparing, SameFingerprint, FingerprintOf
<1>6. ASSUME plan # NoPlan, ~touched, ~replaced PROVE OnCourse'
  <2> DEFINE g == preparation.group
  <2>1. OnCourse /\ g \in DOMAIN plan.groups /\ g \notin done
        /\ preparation.paths = plan.groups[g] /\ preparation.fps = plan.fps
    BY <1>0, <1>6 DEF PlanInv, PreparesThePlan, Preparing
  <2>2. preparation.changed = Staged \cup Unstaged BY <1>0, <2>1 DEF OnCourse
  <2>3. ASSUME NEW f \in plan.groups[g]
        PROVE  work[f] = plan.fps[f] /\ f \in Staged \cup Unstaged
    <3>1. f \in Files BY <2>1 DEF PlanInv, Typed, IsPlan
    <3>2. work[f] = plan.shown[f] /\ plan.fps[f] = plan.shown[f] /\ head[f] # plan.shown[f]
      BY <2>1 DEF OnCourse
    <3> QED BY <3>1, <3>2 DEF Staged, Unstaged
  <2>4. same BY <2>1, <2>2, <2>3 DEF SameFingerprint, FingerprintOf
  <2>5. pc = "unstage" BY <2>4 DEF pc
  <2> QED BY <1>0, <1>1, <1>3, <2>1, <2>5 DEF OnCourse, Planned, Preparing, window, history
<1>7. ~added BY <1>0 DEF PlanInv, PreparationIsSound
<1>8. IsPreparation' BY <1>3, <1>4 DEF PlanInv, Typed, IsPreparation
<1> QED BY <1>0, <1>3, <1>4, <1>5, <1>6, <1>7, <1>8, GoesStep DEF Preparing, repo

\* What is taken out of the index leaves the group alone in it, or nothing staged.
LEMMA UnstageStep == PlanInv /\ Unstage => PlanInv'
<1> SUFFICES ASSUME PlanInv, Unstage PROVE PlanInv'
  OBVIOUS
<1> DEFINE pc == IF AlreadyStaged THEN "answer" ELSE "add"
           g == preparation.group
<1>0. /\ preparation.pc = "unstage" /\ GenTouched
      /\ UNCHANGED <<head, work, window, history>>
      /\ index' = [f \in Files |-> IF f \in TakenOut THEN head[f] ELSE index[f]]
      /\ preparation' = [preparation EXCEPT !.pc = pc]
  BY DEF Unstage
<1> HIDE DEF pc
<1>1. preparation' = [pc |-> pc, group |-> g, paths |-> preparation.paths,
                      expected |-> preparation.expected, fps |-> preparation.fps,
                      staged |-> preparation.staged, changed |-> preparation.changed]
  BY <1>0 DEF PlanInv, Typed, IsPreparation
<1>2. pc \in {"answer", "add"} /\ index' \in Content BY <1>0 DEF PlanInv, Typed, Content, pc
<1>3. IsGen' /\ GenIsCurrent' BY <1>0, GenTouchedFacts DEF PlanInv, Typed
<1>4. Typed' BY <1>0, <1>1, <1>2, <1>3 DEF PlanInv, Typed, IsPlan, IsPreparation, window
<1>5. PreparesThePlan' BY <1>0, <1>1 DEF PlanInv, PreparesThePlan, Preparing, window, history
<1>6. ASSUME preparation.staged = Staged
      PROVE  /\ pc = "add" => \A f \in Files : index'[f] = head[f]
             /\ pc = "answer" => \A f \in Files :
                  /\ f \in preparation.paths => index'[f] = index[f] /\ index[f] # head[f]
                  /\ f \notin preparation.paths => index'[f] = head[f]
  BY <1>0, <1>6 DEF pc, AlreadyStaged, TakenOut, Staged
<1>7. PreparationIsSound'
  <2>1. ~added /\ ~added' BY <1>0 DEF PlanInv, PreparationIsSound, history
  <2>2. ASSUME ~disturbed PROVE PreparedSoFar'
    <3>1. preparation.staged = Staged /\ SameFingerprint
      BY <1>0, <2>2 DEF PlanInv, PreparationIsSound, PreparedSoFar, Preparing
    <3>2. SameFingerprint' BY <1>0, <1>1, <3>1 DEF SameFingerprint, FingerprintOf
    <3>3. pc = "add" => Staged' = {} BY <1>0, <1>6, <3>1 DEF Staged
    <3>4. pc = "answer" => Staged' \subseteq preparation.paths BY <1>0, <1>6, <3>1 DEF Staged
    <3> QED BY <1>1, <1>2, <2>1, <3>2, <3>3, <3>4 DEF PreparedSoFar
  <2> QED BY <1>0, <2>1, <2>2 DEF PreparationIsSound, history
<1>8. OnlyTheGroup' /\ AddedIsFingerprinted'
  BY <1>1, <1>2 DEF OnlyTheGroup, AddedIsFingerprinted, InPeace, Preparing
<1>9. ASSUME plan # NoPlan, ~touched, ~replaced PROVE OnCourse'
  <2>1. OnCourse /\ preparation.staged = Staged BY <1>0, <1>9 DEF PlanInv, OnCourse
  <2>2. g \in DOMAIN plan.groups /\ preparation.paths = plan.groups[g]
    BY <1>0, <1>9 DEF PlanInv, PreparesThePlan, Preparing
  <2>3. \A f \in Files : index'[f] \in {head[f], index[f]} BY <1>0
  <2>4. \A i \in DOMAIN plan.groups : \A f \in plan.groups[i] : f \in Files /\ index'[f] \in {head[f], plan.shown[f]}
    BY <2>1, <2>3 DEF OnCourse, PlanInv, Typed, IsPlan
  <2>5. \A f \in Files : ~Planned(f) => index'[f] = head[f] BY <2>1, <2>3 DEF OnCourse
  <2>6. pc = "add" => Staged' = {} BY <1>0, <1>6, <2>1 DEF Staged
  <2>7. pc = "answer" => OnlyGroupStaged(g)'
    BY <1>0, <1>6, <2>1, <2>2 DEF OnlyGroupStaged, Group, OnCourse, window
  <2>8. preparation'.pc = pc /\ preparation'.group = g BY <1>1
  <2> QED BY <1>0, <1>2, <2>1, <2>4, <2>5, <2>6, <2>7, <2>8 DEF OnCourse, Planned, Preparing, window, history
<1> QED BY <1>0, <1>3, <1>4, <1>5, <1>7, <1>8, <1>9 DEF PlanInv, window, history

\* The group is staged anew as the working tree has it.
LEMMA AddStep == PlanInv /\ Add => PlanInv'
<1> SUFFICES ASSUME PlanInv, Add PROVE PlanInv'
  OBVIOUS
<1> DEFINE g == preparation.group
<1>0. /\ preparation.pc = "add" /\ GenTouched /\ added' = TRUE
      /\ UNCHANGED <<head, work, window, outside, touched, disturbed, replaced, refused>>
      /\ index' = [f \in Files |-> IF f \in preparation.paths THEN work[f] ELSE index[f]]
  BY DEF Add
<1>1. preparation' = [pc |-> "answer", group |-> g, paths |-> preparation.paths,
                      expected |-> preparation.expected, fps |-> preparation.fps,
                      staged |-> preparation.staged, changed |-> preparation.changed]
  BY DEF Add, PlanInv, Typed, IsPreparation
<1>2. index' \in Content BY <1>0 DEF PlanInv, Typed, Content
<1>3. IsGen' /\ GenIsCurrent' BY <1>0, GenTouchedFacts DEF PlanInv, Typed
<1>4. Typed' BY <1>0, <1>1, <1>2, <1>3 DEF PlanInv, Typed, IsPlan, IsPreparation, window
<1>5. PreparesThePlan' BY <1>0, <1>1 DEF PlanInv, PreparesThePlan, Preparing, window
<1>6. ASSUME Staged = {}
      PROVE  \A f \in Files : index'[f] = IF f \in preparation.paths THEN work[f] ELSE head[f]
  BY <1>0, <1>6 DEF Staged
<1>7. PreparationIsSound'
  <2>1. ASSUME ~disturbed PROVE PreparedSoFar'
    <3>1. Staged = {} /\ SameFingerprint
      BY <1>0, <2>1 DEF PlanInv, PreparationIsSound, PreparedSoFar, Preparing
    <3>2. Staged' \subseteq preparation.paths BY <1>0, <1>6, <3>1 DEF Staged
    <3>3. \A f \in preparation.paths : index'[f] = preparation.fps[f]
      BY <1>0, <3>1 DEF SameFingerprint, FingerprintOf, PlanInv, Typed, IsPreparation
    <3> QED BY <1>1, <3>2, <3>3 DEF PreparedSoFar
  <2> QED BY <1>0, <1>1, <2>1 DEF PreparationIsSound
<1>8. OnlyTheGroup' /\ AddedIsFingerprinted'
  BY <1>1 DEF OnlyTheGroup, AddedIsFingerprinted, InPeace, Preparing
<1>9. ASSUME plan # NoPlan, ~touched, ~replaced PROVE OnCourse'
  <2>1. OnCourse /\ Staged = {} BY <1>0, <1>9 DEF PlanInv, OnCourse
  <2>2. g \in DOMAIN plan.groups /\ preparation.paths = plan.groups[g]
    BY <1>0, <1>9 DEF PlanInv, PreparesThePlan, Preparing
  <2>3. \A f \in plan.groups[g] : work[f] = plan.shown[f] BY <2>1, <2>2 DEF OnCourse
  <2>4. \A i \in DOMAIN plan.groups : \A f \in plan.groups[i] : f \in Files /\ index'[f] \in {head[f], plan.shown[f]}
    BY <1>6, <2>1, <2>2, <2>3 DEF PlanInv, Typed, IsPlan
  <2>5. \A f \in Files : ~Planned(f) => index'[f] = head[f] BY <1>6, <2>1, <2>2 DEF Planned
  <2>6. OnlyGroupStaged(g)' BY <1>0, <1>1, <1>6, <2>1, <2>2, <2>3 DEF OnlyGroupStaged, Group, window
  <2> QED BY <1>0, <1>1, <2>1, <2>4, <2>5, <2>6 DEF OnCourse, Planned, Preparing, window
<1> QED BY <1>0, <1>3, <1>4, <1>5, <1>7, <1>8, <1>9 DEF PlanInv, window

\* The prepared group is alone in the index when the window learns of it.
LEMMA PrepareEndsStep == PlanInv /\ PrepareEnds => PlanInv'
<1> SUFFICES ASSUME PlanInv, PrepareEnds PROVE PlanInv'
  OBVIOUS
<1> DEFINE g == preparation.group
<1>0. /\ preparation.pc \in {"answer", "refuse"} /\ known' = Staged
      /\ prepared' = IF preparation.pc = "answer" THEN g ELSE 0
      /\ refused' = (refused \/ (preparation.pc = "refuse" /\ ~replaced))
      /\ UNCHANGED <<head, index, work, gen, plan, done, outside, touched, disturbed, added, replaced>>
  BY DEF PrepareEnds, Refreshed, repo
<1>1. preparation' = [pc |-> "idle", group |-> 0, paths |-> {}, expected |-> {},
                      fps |-> NoPlan.fps, staged |-> {}, changed |-> {}]
  BY DEF PrepareEnds, NoTask
<1>2. Typed' /\ GenIsCurrent'
  BY <1>0, <1>1, GenStays DEF PlanInv, Typed, IsPlan, IsPreparation, repo
<1>3. PreparesThePlan' /\ PreparationIsSound'
  BY <1>1 DEF PreparesThePlan, PreparationIsSound, Preparing
<1>4. Preparing /\ Staged' = Staged BY <1>0 DEF Preparing, Staged
<1>5. OnlyTheGroup' /\ AddedIsFingerprinted'
  <2>1. SUFFICES ASSUME InPeace'
                 PROVE  /\ Staged' \subseteq Group(plan, prepared)'
                        /\ added' => \A f \in Group(plan, prepared)' : index'[f] = plan'.fps[f]
    BY DEF OnlyTheGroup, AddedIsFingerprinted
  <2>2. preparation.pc = "answer" /\ prepared' = g /\ plan # NoPlan /\ ~disturbed /\ ~replaced
    BY <1>0, <2>1 DEF InPeace
  <2>3. g \in DOMAIN plan.groups /\ preparation.paths = plan.groups[g] /\ preparation.fps = plan.fps
    BY <1>4, <2>2 DEF PlanInv, PreparesThePlan
  <2>4. Staged \subseteq preparation.paths /\ (added => \A f \in preparation.paths : index[f] = preparation.fps[f])
    BY <1>4, <2>2 DEF PlanInv, PreparationIsSound, PreparedSoFar
  <2>5. Group(plan, prepared)' = plan.groups[g] BY <1>0, <2>2, <2>3 DEF Group
  <2> QED BY <1>0, <1>4, <2>3, <2>4, <2>5
<1>6. ASSUME plan # NoPlan, ~touched, ~replaced PROVE OnCourse'
  <2>1. OnCourse /\ preparation.pc = "answer" BY <1>0, <1>6 DEF PlanInv, OnCourse
  <2>2. g \in DOMAIN plan.groups /\ OnlyGroupStaged(g)
    BY <1>4, <1>6, <2>1 DEF PlanInv, PreparesThePlan, OnCourse
  <2>3. prepared' = g /\ OnlyGroupStaged(prepared)' BY <1>0, <2>1, <2>2 DEF OnlyGroupStaged, Group
  <2> QED BY <1>0, <1>1, <1>4, <2>1, <2>2, <2>3 DEF OnCourse, Planned, Preparing
<1> QED BY <1>0, <1>2, <1>3, <1>5, <1>6 DEF PlanInv

------------------------------
(* The other steps of the window, and those of other programs. *)

\* A commit takes the prepared group, and nothing else, into the head commit.
LEMMA CommitStep == PlanInv /\ Commit => PlanInv'
<1> SUFFICES ASSUME PlanInv, Commit PROVE PlanInv'
  OBVIOUS
<1>0. /\ ~Preparing /\ gen.pc = "idle" /\ head' = index /\ known' = {} /\ disturbed' = TRUE /\ prepared' = 0
      /\ \/ plan # NoPlan /\ prepared # 0 /\ plan' = plan /\ done' = done \cup {prepared}
         \/ plan' = NoPlan
      /\ UNCHANGED <<index, work, gen, preparation, outside, touched, added, replaced, refused>>
  BY DEF Commit, Refreshed, Dropped
<1>1. Typed' BY <1>0, NoPlanIsPlan DEF PlanInv, Typed, IsGen, IsPlan, IsPreparation
<1>2. GenIsCurrent' /\ PreparesThePlan' /\ PreparationIsSound' /\ OnlyTheGroup' /\ AddedIsFingerprinted'
  BY <1>0 DEF GenIsCurrent, PreparesThePlan, PreparationIsSound, OnlyTheGroup, AddedIsFingerprinted, InPeace, Preparing
<1>3. ASSUME plan' # NoPlan, ~touched, ~replaced PROVE OnCourse'
  <2>1. /\ plan' = plan /\ done' = done \cup {prepared}
        /\ OnCourse /\ prepared \in DOMAIN plan.groups /\ OnlyGroupStaged(prepared)
    BY <1>0, <1>3 DEF PlanInv, OnCourse
  <2> DEFINE g == plan.groups[prepared]
  <2>2. \A f \in Files : head'[f] = IF f \in g THEN plan.shown[f] ELSE head[f]
    BY <1>0, <2>1 DEF OnlyGroupStaged, Group
  <2>3. /\ \A i \in DOMAIN plan.groups : plan.groups[i] \subseteq Files
        /\ \A i \in DOMAIN plan.groups \ {prepared} : plan.groups[i] \cap g = {}
    BY <2>1 DEF PlanInv, Typed, IsPlan
  <2>4. \A i \in DOMAIN plan.groups : \A f \in plan.groups[i] :
          /\ index[f] = head'[f]
          /\ (i \in done') <=> (head'[f] = plan.shown[f])
    <3>1. SUFFICES ASSUME NEW i \in DOMAIN plan.groups, NEW f \in plan.groups[i]
                   PROVE  (i \in done') <=> (head'[f] = plan.shown[f])
      BY <1>0
    <3>2. CASE i = prepared BY <2>1, <2>2, <2>3, <3>1, <3>2
    <3>3. CASE i # prepared
      <4>1. f \in Files /\ f \notin g /\ head'[f] = head[f] BY <2>2, <2>3, <3>1, <3>3
      <4> QED BY <2>1, <3>1, <3>3, <4>1 DEF OnCourse
    <3> QED BY <3>2, <3>3
  <2>5. Staged' = {} BY <1>0 DEF Staged
  <2> QED BY <1>0, <2>1, <2>4, <2>5 DEF OnCourse, Planned, Preparing
<1> QED BY <1>0, <1>1, <1>2, <1>3 DEF PlanInv

\* The plan is dropped with the first step outside it.
LEMMA StageHereStep == PlanInv /\ StageHere => PlanInv'
<1> SUFFICES ASSUME PlanInv, StageHere PROVE PlanInv'
  OBVIOUS
<1>0. /\ ~Preparing /\ plan' = NoPlan /\ prepared' = 0 /\ GenTouched
      /\ UNCHANGED <<head, work, preparation>>
  BY DEF StageHere
<1>1. index' \in Content BY DEF StageHere, PlanInv, Typed, Content
<1>2. Typed' /\ GenIsCurrent'
  BY <1>0, <1>1, NoPlanIsPlan, GenTouchedFacts DEF PlanInv, Typed, IsPlan, IsPreparation
<1> QED BY <1>0, <1>2 DEF PlanInv, PreparesThePlan, PreparationIsSound, OnlyTheGroup, AddedIsFingerprinted, InPeace, Preparing

\* No plan has nothing to hold.
LEMMA DismissStep == PlanInv /\ Dismiss => PlanInv'
<1> SUFFICES ASSUME PlanInv, Dismiss PROVE PlanInv'
  OBVIOUS
<1>0. plan' = NoPlan /\ prepared' = 0 /\ UNCHANGED <<head, index, work, gen, preparation, history>>
  BY DEF Dismiss, Dropped, repo
<1>1. Typed' /\ GenIsCurrent'
  BY <1>0, NoPlanIsPlan, GenStays DEF PlanInv, Typed, IsPlan, IsPreparation, repo
<1>2. PreparationIsSound'
  BY <1>0 DEF PlanInv, PreparationIsSound, PreparedSoFar, Preparing, SameFingerprint, FingerprintOf, Staged, Unstaged, history
<1> QED BY <1>0, <1>1, <1>2 DEF PlanInv, PreparesThePlan, OnlyTheGroup, AddedIsFingerprinted, InPeace

\* The window learns what is staged.
LEMMA RefreshStep == PlanInv /\ Refresh => PlanInv'
<1> SUFFICES ASSUME PlanInv, Refresh PROVE PlanInv'
  OBVIOUS
<1>0. known' = Staged /\ UNCHANGED <<head, index, work, gen, plan, prepared, done, preparation, history>>
  BY DEF Refresh, repo
<1>1. Typed' /\ GenIsCurrent' BY <1>0, GenStays DEF PlanInv, Typed, IsPlan, IsPreparation, repo
<1>2. PreparationIsSound' /\ PreparesThePlan'
  BY <1>0 DEF PlanInv, PreparationIsSound, PreparedSoFar, PreparesThePlan, Preparing, SameFingerprint, FingerprintOf,
       Staged, Unstaged, history
<1>3. OnlyTheGroup' /\ AddedIsFingerprinted'
  BY <1>0 DEF PlanInv, OnlyTheGroup, AddedIsFingerprinted, InPeace, Preparing, Staged, Group, history
<1>4. plan' # NoPlan /\ ~touched' /\ ~replaced' => OnCourse'
  BY <1>0 DEF PlanInv, OnCourse, OnlyGroupStaged, Planned, Preparing, Staged, Unstaged, Group, history
<1> QED BY <1>1, <1>2, <1>3, <1>4 DEF PlanInv

\* Whatever other programs do is taken note of.
LEMMA OutsideStep == PlanInv /\ Outside => PlanInv'
<1> SUFFICES ASSUME PlanInv, Outside PROVE PlanInv'
  OBVIOUS
<1>0. touched' = TRUE /\ disturbed' = TRUE /\ GenTouched /\ UNCHANGED <<window, preparation, added, replaced, refused>>
  BY DEF Outside
<1>1. head' \in Content /\ index' \in Content /\ work' \in Content
  BY DEF Outside, PlanInv, Typed, Content
<1>2. Typed' /\ GenIsCurrent'
  BY <1>0, <1>1, GenTouchedFacts DEF PlanInv, Typed, IsPlan, IsPreparation, window
<1> QED BY <1>0, <1>2 DEF PlanInv, PreparesThePlan, PreparationIsSound, OnlyTheGroup, AddedIsFingerprinted, InPeace,
             Preparing, window

------------------------------
(* The theorem. *)

\* There is no plan at first.
LEMMA PlanInitInv == PlanInit => PlanInv
<1> SUFFICES ASSUME PlanInit PROVE PlanInv
  OBVIOUS
<1>1. gen = NoGen /\ plan = NoPlan /\ preparation = NoTask /\ prepared = 0 /\ added = FALSE
  BY DEF PlanInit
<1>2. IsGen /\ GenIsCurrent
  <2>1. gen = [pc |-> "idle", paths |-> {}, blocked |-> FALSE, patch |-> <<>>, left |-> {},
               touched |-> FALSE, plan |-> NoPlan] /\ NoPlan.groups = <<>>
    BY <1>1 DEF NoGen, NoPlan
  <2> QED BY <2>1, NoPlanIsPlan DEF IsGen, GenIsCurrent
<1>3. IsPreparation /\ ~Preparing
  <2>1. preparation = [pc |-> "idle", group |-> 0, paths |-> {}, expected |-> {},
                       fps |-> NoPlan.fps, staged |-> {}, changed |-> {}]
    BY <1>1 DEF NoTask
  <2> QED BY <2>1 DEF IsPreparation, Preparing
<1>4. 0..1 \subseteq Version /\ 0 \in Version BY PlanAssumption DEF Version
<1>5. head \in Content /\ index \in Content /\ work \in Content BY <1>4 DEF PlanInit, Content
<1> QED BY <1>1, <1>2, <1>3, <1>5, NoPlanIsPlan DEF PlanInv, Typed, PreparesThePlan, PreparationIsSound, OnlyTheGroup,
             AddedIsFingerprinted, InPeace, Preparing

\* A step that changes nothing of the plans keeps the invariant, too.
LEMMA PlanStutter == PlanInv /\ UNCHANGED planVars => PlanInv'
<1> SUFFICES ASSUME PlanInv, UNCHANGED planVars PROVE PlanInv'
  OBVIOUS
<1>1. IsGen' /\ GenIsCurrent' BY GenStays DEF planVars, PlanInv, Typed
<1> QED BY <1>1, GenStep DEF planVars

\* Whatever the user, the model and other programs do, a prepared group is alone in the index,
\* what was staged anew is what the plan was made for, and a plan that nobody disturbs is
\* carried out group by group: no preparation is refused, and what is committed is what the
\* model was shown.
THEOREM PlansHold == PlanSpec => []PlanHolds
<1>1. PlanInv /\ [PlanNext]_planVars => PlanInv'
  BY PlanStutter, BeginGenerateStep, AbandonedStep, ReadStatusStep, ReadPatchStep, RecheckStep, HashFileStep, ShowStep,
     PrepareStep, CheckStatusStep, CheckFingerprintStep, UnstageStep, AddStep, PrepareEndsStep, CommitStep,
     StageHereStep, DismissStep, RefreshStep, OutsideStep DEF PlanNext, CancelGenerate
<1>2. PlanInv => PlanHolds BY DEF PlanInv, PlanHolds, UntouchedPlanHolds, OnCourse
<1> QED BY <1>1, <1>2, PlanInitInv, PTL DEF PlanSpec
------------------------------
(* Moving, copying and deleting files. *)

Disks == SUBSET (AllPlaces \X Tokens)
Pair == [from : AllPlaces, to : AllPlaces]

\* What is on record of a command, to undo or redo it.
Entry == [kind : Kinds \cup {"system-trash-only"}, plan : Seq(Pair), before : Disks, after : Disks,
          alone : BOOLEAN, foreign : BOOLEAN]

\* A command at work.
Working == [kind : Kinds, way : {"do", "undo", "redo"}, plan : Seq(Pair), done : Nat,
            stage : {"run", "copied", "back", "copiedBack"}, entry : Entry \cup {NoTransfer},
            before : Disks, surprised : SUBSET AllPlaces, failed : BOOLEAN, partial : BOOLEAN]

Changing(pair) == pair.from # pair.to
Renames(job) == job.kind \in {"rename", "move"}
Between(job) == job.stage \in {"copied", "copiedBack"}

\* No two items of a plan of copies come to the same place, or to a place that is copied.
Distinct(items) ==
  \A i, j \in DOMAIN items : items[i].to # items[j].from /\ (i # j => items[i].to # items[j].to)

\* The same of a plan of renames, except for items that stay where they are.
DistinctRenames(items) ==
  \A i, j \in DOMAIN items : Changing(items[i]) =>
    /\ items[i].to # items[j].from
    /\ Changing(items[j]) /\ i # j => items[i].to # items[j].to

\* Nothing moves.
InPlace(items) == \A i \in DOMAIN items : items[i].from = items[i].to

\* A step on record that nobody disturbed: what the disks before and after it have to do with
\* each other.
Spans(e) ==
  /\ e.kind \in {"rename", "move"} =>
       /\ \A i \in DOMAIN e.plan : Changing(e.plan[i]) =>
            /\ LiesAt(e.before, e.plan[i].to) = {} /\ LiesAt(e.after, e.plan[i].from) = {}
            /\ LiesAt(e.after, e.plan[i].to) = LiesAt(e.before, e.plan[i].from)
       /\ \A x \in AllPlaces : (\A i \in DOMAIN e.plan : Changing(e.plan[i]) => x \notin {e.plan[i].from, e.plan[i].to}) =>
            LiesAt(e.after, x) = LiesAt(e.before, x)
  /\ e.kind = "copy" =>
       /\ \A i \in DOMAIN e.plan : /\ LiesAt(e.before, e.plan[i].to) = {}
                                   /\ LiesAt(e.after, e.plan[i].to) = LiesAt(e.before, e.plan[i].from)
       /\ \A x \in AllPlaces : (\A i \in DOMAIN e.plan : x # e.plan[i].to) => LiesAt(e.after, x) = LiesAt(e.before, x)
  /\ e.kind = "trash" =>
       /\ \A i \in DOMAIN e.plan : LiesAt(e.after, e.plan[i].to) = {}
       /\ \A x \in AllPlaces : (\A i \in DOMAIN e.plan : x # e.plan[i].to) => LiesAt(e.after, x) = LiesAt(e.before, x)

EntryInv(e) ==
  /\ e \in Entry /\ e.kind # "restore"
  /\ e.kind = "copy" => Distinct(e.plan)
  /\ e.kind = "trash" => InPlace(e.plan) /\ \A i \in DOMAIN e.plan : LiesAt(e.before, e.plan[i].to) # {}
  /\ e.alone /\ ~ e.foreign => Spans(e)

\* Where a command is in its plan.
Placed(job) ==
  /\ job.done <= Len(job.plan)
  /\ job.stage # "run" => job.done < Len(job.plan)
  /\ Between(job) => job.kind = "move"
  /\ job.stage = "copied" => Changing(job.plan[job.done + 1])
  /\ job.stage = "copiedBack" => job.done > 0 /\ Changing(job.plan[job.done])
  /\ job.kind = "trash" => job.stage = "run" /\ ~ job.partial
  /\ job.kind # "trash" /\ job.stage \in {"run", "copied"} => ~ job.failed /\ ~ job.partial

\* What its plan is like, from the checks before it began.
WellPlanned(job) ==
  /\ Renames(job) => /\ DistinctRenames(job.plan)
                     /\ \A i \in DOMAIN job.plan : Changing(job.plan[i]) => LiesAt(job.before, job.plan[i].to) = {}
  /\ job.kind = "copy" => Distinct(job.plan)
  /\ job.kind \in {"trash", "restore"} => InPlace(job.plan)
  /\ job.kind = "trash" /\ job.way = "do" => \A i \in DOMAIN job.plan : LiesAt(job.before, job.plan[i].to) # {}

\* The step that is undone or redone.
Applies(job) ==
  /\ job.way = "do" => job.kind # "restore"
  /\ job.way # "do" =>
       /\ EntryInv(job.entry) /\ job.entry.kind # "system-trash-only"
       /\ job.entry.kind \in {"rename", "move"} =>
            job.kind = "rename" /\ job.plan = IF job.way = "undo" THEN Backwards(job.entry.plan) ELSE job.entry.plan
       /\ job.entry.kind = "copy" /\ job.way = "undo" =>
            job.kind = "trash" /\ (~ job.failed => job.plan = [i \in DOMAIN job.entry.plan |->
                                                        [from |-> job.entry.plan[i].to, to |-> job.entry.plan[i].to]])
       /\ job.entry.kind = "copy" /\ job.way = "redo" => job.kind = "copy" /\ job.plan = job.entry.plan
       /\ job.entry.kind = "trash" /\ job.way = "undo" => job.kind = "restore" /\ job.plan = Backwards(job.entry.plan)
       /\ job.entry.kind = "trash" /\ job.way = "redo" => job.kind = "trash" /\ (~ job.failed => job.plan = job.entry.plan)

\* The items that have begun, and those whose places they came from are clear.
Begun(job) == IF job.stage = "copied" THEN job.done + 1 ELSE job.done
Cleared(job) == IF job.stage = "copiedBack" THEN job.done - 1 ELSE job.done

\* Where items come to is free, unless somebody else put something there since; and so, of the
\* items done, is where they were.
Fresh(d, job) ==
  Renames(job) =>
    /\ \A i \in DOMAIN job.plan : /\ job.stage \in {"run", "copied"} /\ Changing(job.plan[i])
                                  /\ i > Begun(job)
                                  => LiesAt(d, job.plan[i].to) = {} \/ job.plan[i].to \in job.surprised
    /\ \A i \in DOMAIN job.plan : /\ Changing(job.plan[i])
                                  /\ i <= Cleared(job)
                                  => LiesAt(d, job.plan[i].from) = {} \/ job.plan[i].from \in job.surprised
    /\ \A i, j \in DOMAIN job.plan : /\ i < j /\ j <= job.done /\ job.plan[i].from = job.plan[j].from
                                     /\ Changing(job.plan[i]) /\ Changing(job.plan[j])
                                     => job.plan[i].from \in job.surprised

\* A command that nobody disturbed has done its items and nothing else.
TracksMoves(d, job) ==
  /\ \A i \in DOMAIN job.plan : i <= job.done /\ Changing(job.plan[i]) =>
       /\ LiesAt(d, job.plan[i].to) = LiesAt(job.before, job.plan[i].from)
       /\ LiesAt(d, job.plan[i].from) = IF job.stage = "copiedBack" /\ i = job.done
                                          THEN LiesAt(job.before, job.plan[i].from) ELSE {}
  /\ \A x \in AllPlaces :
       /\ \A i \in DOMAIN job.plan : i <= job.done /\ Changing(job.plan[i]) => x \notin {job.plan[i].from, job.plan[i].to}
       /\ job.stage = "copied" => x # job.plan[job.done + 1].to
       => LiesAt(d, x) = LiesAt(job.before, x)

\* What lies at the places of the items of a command that moves nothing.
Outcome(job, i) == CASE job.kind = "copy" -> LiesAt(job.before, job.plan[i].from)
                     [] job.kind = "trash" -> {}
                     [] job.kind = "restore" -> LiesAt(job.entry.before, job.plan[i].to)
TracksOthers(d, job) ==
  /\ \A i \in DOMAIN job.plan : i <= job.done =>
       /\ LiesAt(d, job.plan[i].to) = Outcome(job, i)
       /\ job.kind # "trash" => LiesAt(job.before, job.plan[i].to) = {}
  /\ \A x \in AllPlaces : (\A i \in DOMAIN job.plan : i <= job.done => x # job.plan[i].to) => LiesAt(d, x) = LiesAt(job.before, x)
  /\ job.kind = "restore" => \A i, j \in DOMAIN job.plan : i < j /\ j <= job.done => job.plan[i].to # job.plan[j].to

Tracks(d, job) == IF Renames(job) THEN TracksMoves(d, job) ELSE TracksOthers(d, job)

Undisturbed(job) == job.surprised = {} /\ ~ job.partial /\ (job.kind = "trash" \/ ~ job.failed)

\* The two places of the item that is copied from one device to another, while it is at both.
Source(job) == Item(job).from
Target(job) == Item(job).to
Linked(job) == Between(job) /\ Source(job) \notin job.surprised /\ Target(job) \notin job.surprised

JobInv(d, job) ==
  /\ Placed(job) /\ WellPlanned(job) /\ Applies(job) /\ Fresh(d, job)
  /\ Undisturbed(job) => Tracks(d, job)
  /\ Linked(job) => LiesAt(d, Source(job)) = LiesAt(d, Target(job))

Busy == {r \in Roots : jobs[r] # NoTransfer}

JobsInv == \A r \in Busy : JobInv(disk, jobs[r])

StepsInv ==
  \A r \in Roots : /\ \A i \in DOMAIN steps[r].undo : EntryInv(steps[r].undo[i])
                   /\ \A i \in DOMAIN steps[r].redo : EntryInv(steps[r].redo[i]) /\ steps[r].redo[i].kind # "system-trash-only"

\* The links between places are a forest: each of them keeps two sets of places apart.
ForestInv ==
  \A r \in Busy : Linked(jobs[r]) =>
    \E side \in SUBSET AllPlaces :
      /\ Source(jobs[r]) \notin side /\ Target(jobs[r]) \in side
      /\ \A s \in Busy \ {r} : Linked(jobs[s]) => (Source(jobs[s]) \in side <=> Target(jobs[s]) \in side)

\* What a command takes away again if it fails.
Made(job) == IF job.kind \in {"copy", "restore"} THEN {job.plan[i].to : i \in 1..job.done} \ job.surprised ELSE {}

\* At places that are loose nothing is safe: a command may remove it and does not tell.  Of two
\* that are linked both are, or none.
LooseFor(job, loose) ==
  /\ Made(job) \subseteq loose
  /\ Linked(job) => (Source(job) \in loose <=> Target(job) \in loose)
  /\ Between(job) /\ Target(job) \in job.surprised => Source(job) \in loose \cup job.surprised
  /\ Between(job) /\ Source(job) \in job.surprised => Target(job) \in loose \cup job.surprised

\* Everything is in the trash or at a place that is not loose.
Held(d, bin, t, loose) == t \in bin \/ \E x \in AllPlaces \ loose : t \in LiesAt(d, x)
KeptWith(d, bin, exempt, loose) == \A t \in Tokens \ exempt : Held(d, bin, t, loose)
KeptInv ==
  \E loose \in SUBSET AllPlaces : /\ \A r \in Busy : LooseFor(jobs[r], loose)
                                 /\ KeptWith(disk, trash, excused, loose)

TransfersTyped ==
  /\ disk \in Disks /\ trash \subseteq Tokens
  /\ DOMAIN jobs = Roots /\ jobs = [r \in Roots |-> jobs[r]] /\ \A r \in Busy : jobs[r] \in Working
  /\ used \in [commands : Nat, errors : Nat, strangers : Nat]
  /\ clipboard # NoTransfer => clipboard.paths \in Selections
  /\ steps \in [Roots -> [undo : Seq(Entry), redo : Seq(Entry)]]

TransfersInv == TransfersTyped /\ JobsInv /\ StepsInv /\ ForestInv /\ KeptInv /\ faults \subseteq {"cut"}

------------------------------
(* What the steps of a command do to the disk and to the command. *)

\* Nothing changes but what is at these places.
Spares(d, e, places) == d \in Disks /\ e \in Disks /\ \A x \in AllPlaces : x \notin places => LiesAt(e, x) = LiesAt(d, x)

\* Something is put at a place.
PutAt(d, e, q, item) == Spares(d, e, {q}) /\ LiesAt(e, q) = item

\* What is at p goes to q.
Renamed(d, e, p, q) ==
  /\ d \in Disks /\ e \in Disks
  /\ p # q => LiesAt(d, p) # {}
  /\ \A x \in AllPlaces : LiesAt(e, x) = IF p = q THEN LiesAt(d, x) ELSE IF x = q THEN LiesAt(d, p)
                                          ELSE IF x = p THEN {} ELSE LiesAt(d, x)

\* The command is at an item that goes from p to q.
AtItem(job, p, q) ==
  /\ job \in Working /\ p = Item(job).from /\ q = Item(job).to
  /\ IF Rollback(job) THEN job.done > 0 ELSE job.done < Len(job.plan)

\* The command goes on; what it is to do stays.
SameTask(job, new) ==
  /\ new.kind = job.kind /\ new.way = job.way /\ new.plan = job.plan /\ new.entry = job.entry
  /\ new.before = job.before /\ new.surprised = job.surprised
GoesOn(job, new, count, stage, fails, part) ==
  /\ new \in Working /\ SameTask(job, new)
  /\ new.done = count /\ new.stage = stage /\ new.failed = fails /\ new.partial = part

LEMMA LiesAtFacts ==
  ASSUME NEW d \in Disks, NEW x
  PROVE  LiesAt(d, x) \subseteq Tokens /\ \A t : t \in LiesAt(d, x) <=> <<x, t>> \in d
<1>1. \A y \in d : \E a \in AllPlaces, t \in Tokens : y = <<a, t>> BY DEF Disks
<1>2. ASSUME NEW t, t \in LiesAt(d, x)
      PROVE  <<x, t>> \in d /\ t \in Tokens
  <2>1. PICK y \in d : y[1] = x /\ y[2] = t BY <1>2 DEF LiesAt
  <2> QED BY <1>1, <2>1
<1>3. ASSUME NEW t, <<x, t>> \in d
      PROVE  t \in LiesAt(d, x)
  BY <1>3 DEF LiesAt
<1> QED BY <1>2, <1>3

\* Two disks on which the same lies everywhere are the same.
LEMMA SameDisk ==
  ASSUME NEW d \in Disks, NEW e \in Disks, \A x \in AllPlaces : LiesAt(d, x) = LiesAt(e, x)
  PROVE  d = e
<1>1. \A a \in AllPlaces, t \in Tokens : <<a, t>> \in d <=> <<a, t>> \in e BY LiesAtFacts
<1> QED BY <1>1 DEF Disks

\* What lies where after something is put at a place.
LEMMA PutFacts ==
  ASSUME NEW d \in Disks, NEW p \in AllPlaces, NEW item \in SUBSET Tokens
  PROVE  /\ Put(d, p, item) \in Disks
         /\ \A x : LiesAt(Put(d, p, item), x) = IF x = p THEN item ELSE LiesAt(d, x)
<1> DEFINE e == Put(d, p, item)
<1>1. e \in Disks BY DEF Disks, Put
<1>2. \A x, t : <<x, t>> \in e <=> IF x = p THEN t \in item ELSE <<x, t>> \in d BY DEF Put, Disks
<1> HIDE DEF e
<1>3. ASSUME NEW x
      PROVE  LiesAt(e, x) = IF x = p THEN item ELSE LiesAt(d, x)
  <2>1. \A t : t \in LiesAt(e, x) <=> <<x, t>> \in e BY <1>1, LiesAtFacts
  <2>2. \A t : t \in LiesAt(d, x) <=> <<x, t>> \in d BY LiesAtFacts
  <2> QED BY <1>2, <2>1, <2>2
<1> QED BY <1>1, <1>3 DEF e

LEMMA ExistsFacts ==
  ASSUME disk \in Disks, NEW p
  PROVE  Exists(p) <=> LiesAt(disk, p) # {}
<1>1. \A y \in disk : \E a \in AllPlaces, t \in Tokens : y = <<a, t>> BY DEF Disks
<1>2. \A t : t \in LiesAt(disk, p) <=> <<p, t>> \in disk BY LiesAtFacts
<1>3. ASSUME Exists(p)
      PROVE  LiesAt(disk, p) # {}
  <2>1. PICK y \in disk : y[1] = p BY <1>3 DEF Exists
  <2>2. <<p, y[2]>> \in disk BY <1>1, <2>1
  <2> QED BY <1>2, <2>2
<1>4. ASSUME LiesAt(disk, p) # {}
      PROVE  Exists(p)
  <2>1. PICK t : <<p, t>> \in disk BY <1>2, <1>4
  <2> QED BY <2>1 DEF Exists
<1> QED BY <1>3, <1>4

LEMMA PlanFacts ==
  ASSUME NEW items \in Seq(Pair)
  PROVE  /\ Len(items) \in Nat /\ DOMAIN items = 1..Len(items)
         /\ \A i \in DOMAIN items : items[i].from \in AllPlaces /\ items[i].to \in AllPlaces
         /\ Backwards(items) \in Seq(Pair) /\ DOMAIN Backwards(items) = DOMAIN items
         /\ \A i \in DOMAIN items : /\ Backwards(items)[i] = [from |-> items[i].to, to |-> items[i].from]
                                    /\ Backwards(items)[i].from = items[i].to /\ Backwards(items)[i].to = items[i].from
<1>1. Len(items) \in Nat /\ DOMAIN items = 1..Len(items) OBVIOUS
<1>2. \A i \in DOMAIN items : items[i] \in Pair OBVIOUS
<1>3. \A i \in DOMAIN items : items[i].from \in AllPlaces /\ items[i].to \in AllPlaces
  BY <1>2 DEF Pair
<1>4. Backwards(items) \in [1..Len(items) -> Pair] BY <1>1, <1>3 DEF Backwards, Pair
<1>5. ASSUME NEW i \in DOMAIN items
      PROVE  /\ Backwards(items)[i] = [from |-> items[i].to, to |-> items[i].from]
             /\ Backwards(items)[i].from = items[i].to /\ Backwards(items)[i].to = items[i].from
  <2>1. Backwards(items)[i] = [from |-> items[i].to, to |-> items[i].from] BY DEF Backwards
  <2> QED BY <2>1
<1>6. DOMAIN Backwards(items) = DOMAIN items BY DEF Backwards
<1> QED BY <1>1, <1>3, <1>4, <1>5, <1>6

\* The item a command is at.
LEMMA ItemFacts ==
  ASSUME NEW job \in Working, Placed(job),
         IF Rollback(job) THEN job.done > 0 ELSE job.done < Len(job.plan)
  PROVE  /\ job.plan \in Seq(Pair) /\ job.done \in Nat /\ Len(job.plan) \in Nat /\ DOMAIN job.plan = 1..Len(job.plan)
         /\ Rollback(job) => /\ job.done \in DOMAIN job.plan
                             /\ Item(job).from = job.plan[job.done].to /\ Item(job).to = job.plan[job.done].from
         /\ ~ Rollback(job) => job.done + 1 \in DOMAIN job.plan /\ Item(job) = job.plan[job.done + 1]
         /\ Item(job).from \in AllPlaces /\ Item(job).to \in AllPlaces
<1>1. job.plan \in Seq(Pair) /\ job.done \in Nat BY DEF Working
<1>2. Len(job.plan) \in Nat /\ DOMAIN job.plan = 1..Len(job.plan) BY <1>1, PlanFacts
<1>3. CASE Rollback(job)
  <2>1. job.done \in DOMAIN job.plan BY <1>1, <1>2, <1>3 DEF Placed
  <2>2. Item(job) = [from |-> job.plan[job.done].to, to |-> job.plan[job.done].from]
    BY <1>1, <1>3, <2>1, PlanFacts DEF Item
  <2> QED BY <1>1, <1>2, <1>3, <2>1, <2>2, PlanFacts
<1>4. CASE ~ Rollback(job)
  <2>1. job.done + 1 \in DOMAIN job.plan BY <1>1, <1>2, <1>4
  <2>2. Item(job) = job.plan[job.done + 1] BY <1>4 DEF Item
  <2> QED BY <1>1, <1>2, <1>4, <2>1, <2>2, PlanFacts
<1> QED BY <1>3, <1>4

\* Where the item lies in the plan, in whichever direction the command runs.
ItemIs(job, p, q) ==
  /\ ~ Rollback(job) => job.done + 1 \in DOMAIN job.plan /\ p = job.plan[job.done + 1].from /\ q = job.plan[job.done + 1].to
  /\ Rollback(job) => job.done \in DOMAIN job.plan /\ p = job.plan[job.done].to /\ q = job.plan[job.done].from

LEMMA ItemPlace ==
  ASSUME NEW d, NEW job, NEW p, NEW q, JobInv(d, job), AtItem(job, p, q)
  PROVE  ItemIs(job, p, q)
  BY ItemFacts DEF AtItem, JobInv, ItemIs

\* A command that another one, or another program, comes between: what it was sure of it is no
\* longer sure of at the places concerned.
LEMMA SurprisedJob ==
  ASSUME NEW d \in Disks, NEW e \in Disks, NEW job \in Working, JobInv(d, job),
         NEW places \in SUBSET AllPlaces, places # {},
         \A x \in AllPlaces \ places : LiesAt(e, x) = LiesAt(d, x),
         NEW new, new = [job EXCEPT !.surprised = @ \cup places]
  PROVE  /\ new \in Working /\ JobInv(e, new)
         /\ new.surprised = job.surprised \cup places
         /\ Between(new) = Between(job) /\ Item(new) = Item(job)
         /\ Source(new) = Source(job) /\ Target(new) = Target(job)
         /\ Made(new) \subseteq Made(job) \ places
<1>1. /\ new \in Working /\ new.surprised = job.surprised \cup places
      /\ new.kind = job.kind /\ new.way = job.way /\ new.plan = job.plan /\ new.done = job.done
      /\ new.stage = job.stage /\ new.entry = job.entry /\ new.before = job.before
      /\ new.failed = job.failed /\ new.partial = job.partial
  BY DEF Working
<1>2. Between(new) = Between(job) /\ Item(new) = Item(job) /\ Made(new) \subseteq Made(job) \ places
  <2>1. Item(new) = Item(job) BY <1>1 DEF Item, Rollback
  <2> QED BY <1>1, <2>1 DEF Between, Made
<1>3. Source(new) = Source(job) /\ Target(new) = Target(job) BY <1>2 DEF Source, Target
<1>4. Placed(new) /\ WellPlanned(new) /\ Applies(new)
  BY <1>1 DEF JobInv, Placed, WellPlanned, Applies, Between, Renames
<1>5. Fresh(e, new)
  <2>1. ASSUME NEW x \in AllPlaces, LiesAt(d, x) = {} \/ x \in job.surprised
        PROVE  LiesAt(e, x) = {} \/ x \in new.surprised
    BY <1>1, <2>1
  <2>2. \A i \in DOMAIN job.plan : job.plan[i].from \in AllPlaces /\ job.plan[i].to \in AllPlaces
    BY PlanFacts DEF Working
  <2>3. Fresh(d, job) BY DEF JobInv
  <2> QED BY <1>1, <2>1, <2>2, <2>3 DEF Fresh, Renames, Begun, Cleared
<1>6. ~ Undisturbed(new) BY <1>1 DEF Undisturbed
<1>7. ASSUME Linked(new)
      PROVE  LiesAt(e, Source(new)) = LiesAt(e, Target(new))
  <2>1. Between(job) BY <1>2, <1>7 DEF Linked
  <2>2. job.stage = "copied" => job.done < Len(job.plan) BY DEF JobInv, Placed
  <2>3. IF Rollback(job) THEN job.done > 0 ELSE job.done < Len(job.plan)
    BY <2>1 DEF JobInv, Placed, Between, Rollback
  <2>4. Source(job) \in AllPlaces /\ Target(job) \in AllPlaces
    BY <2>3, ItemFacts DEF JobInv, Source, Target
  <2>5. Linked(job) /\ Source(job) \notin places /\ Target(job) \notin places
    BY <1>1, <1>3, <1>7, <2>1 DEF Linked
  <2> QED BY <1>3, <2>4, <2>5 DEF JobInv
<1> QED BY <1>1, <1>2, <1>3, <1>4, <1>5, <1>6, <1>7 DEF JobInv

\* Where the item of a command is that is at both its places.
LEMMA BetweenFacts ==
  ASSUME NEW d, NEW job \in Working, JobInv(d, job), Between(job)
  PROVE  /\ IF Rollback(job) THEN job.done > 0 ELSE job.done < Len(job.plan)
         /\ Source(job) \in AllPlaces /\ Target(job) \in AllPlaces /\ Source(job) # Target(job)
         /\ job.kind = "move" /\ Made(job) = {}
<1>1. IF Rollback(job) THEN job.done > 0 ELSE job.done < Len(job.plan)
  BY DEF JobInv, Placed, Between, Rollback
<1>2. Source(job) \in AllPlaces /\ Target(job) \in AllPlaces
  BY <1>1, ItemFacts DEF JobInv, Source, Target
<1>3. Source(job) # Target(job)
  BY <1>1, ItemFacts DEF JobInv, Source, Target, Placed, Between, Changing, Rollback
<1> QED BY <1>1, <1>2, <1>3 DEF JobInv, Placed, Made

\* What a step does to the commands of others: r is the one that takes it, if it is a command.
Others(r, places) ==
  /\ DOMAIN jobs' = Roots /\ jobs' = [s \in Roots |-> jobs'[s]]
  /\ \A s \in Roots \ {r} : jobs'[s] = IF jobs[s] = NoTransfer THEN NoTransfer
                                       ELSE [jobs[s] EXCEPT !.surprised = @ \cup places]
  /\ places \in SUBSET AllPlaces /\ places # {}
  /\ disk' \in Disks /\ \A x \in AllPlaces \ places : LiesAt(disk', x) = LiesAt(disk, x)

LEMMA OtherJob ==
  ASSUME TransfersTyped, JobsInv, NEW r, NEW places, Others(r, places), NEW s \in Busy, s # r
  PROVE  /\ s \in Roots /\ jobs[s] \in Working /\ JobInv(disk, jobs[s])
         /\ jobs'[s] \in Working /\ JobInv(disk', jobs'[s])
         /\ jobs'[s].surprised = jobs[s].surprised \cup places
         /\ Between(jobs'[s]) = Between(jobs[s]) /\ Item(jobs'[s]) = Item(jobs[s])
         /\ Source(jobs'[s]) = Source(jobs[s]) /\ Target(jobs'[s]) = Target(jobs[s])
         /\ Made(jobs'[s]) \subseteq Made(jobs[s]) \ places
<1> DEFINE job == jobs[s]
           new == jobs'[s]
           e == disk'
<1>1. s \in Roots /\ new = [job EXCEPT !.surprised = @ \cup places] BY DEF Others, Busy
<1>2. disk \in Disks /\ job \in Working /\ JobInv(disk, job) BY DEF TransfersTyped, JobsInv
<1>3. /\ places \in SUBSET AllPlaces /\ places # {} /\ e \in Disks
      /\ \A x \in AllPlaces \ places : LiesAt(e, x) = LiesAt(disk, x)
  BY DEF Others
<1>4. /\ new \in Working /\ JobInv(e, new)
      /\ new.surprised = job.surprised \cup places
      /\ Between(new) = Between(job) /\ Item(new) = Item(job)
      /\ Source(new) = Source(job) /\ Target(new) = Target(job)
      /\ Made(new) \subseteq Made(job) \ places
  <2> HIDE DEF job, new, e
  <2> QED BY <1>1, <1>2, <1>3, SurprisedJob
<1> QED BY <1>1, <1>2, <1>4

LEMMA BusyOthers ==
  ASSUME NEW r, NEW places, Others(r, places), NEW s \in Busy', s # r
  PROVE  s \in Busy
BY DEF Others, Busy

\* No step of one command spoils what holds of the others.
LEMMA OthersJobs ==
  ASSUME TransfersTyped, JobsInv, NEW r, NEW places, Others(r, places),
         r \in Busy' => jobs'[r] \in Working /\ JobInv(disk', jobs'[r])
  PROVE  /\ JobsInv' /\ DOMAIN jobs' = Roots /\ jobs' = [s \in Roots |-> jobs'[s]]
         /\ \A s \in Busy' : jobs'[s] \in Working
<1>1. ASSUME NEW s \in Busy', s # r
      PROVE  jobs'[s] \in Working /\ JobInv(disk', jobs'[s])
  BY <1>1, BusyOthers, OtherJob
<1> QED BY <1>1 DEF Others, JobsInv

\* Two places that others have linked are both loose afterwards, or neither; of one that the step
\* changes the other is.
KeepsLinks(r, places, after) ==
  \A s \in Busy \ {r} : Linked(jobs[s]) =>
    LET a == Source(jobs[s])
        b == Target(jobs[s]) IN
    /\ a \notin places /\ b \notin places => (a \in after <=> b \in after)
    /\ a \in places /\ b \notin places => b \in after
    /\ b \in places /\ a \notin places => a \in after

\* What is loose for the others afterwards.
LEMMA OthersLoose ==
  ASSUME TransfersTyped, JobsInv, NEW r, NEW places, Others(r, places),
         NEW loose \in SUBSET AllPlaces, \A s \in Busy : LooseFor(jobs[s], loose),
         NEW after \in SUBSET AllPlaces, loose \ places \subseteq after, KeepsLinks(r, places, after)
  PROVE  \A s \in Busy' \ {r} : LooseFor(jobs'[s], after)
<1> SUFFICES ASSUME NEW s \in Busy' \ {r}
             PROVE  LooseFor(jobs'[s], after)
  OBVIOUS
<1> DEFINE job == jobs[s]
           new == jobs'[s]
<1>1. s \in Busy /\ s # r BY BusyOthers
<1>2. LooseFor(job, loose) BY <1>1
<1>3. /\ new.surprised = job.surprised \cup places /\ Between(new) = Between(job)
      /\ Source(new) = Source(job) /\ Target(new) = Target(job) /\ Made(new) \subseteq Made(job) \ places
  BY <1>1, OtherJob
<1>4. Linked(job) =>
           LET a == Source(job)
               b == Target(job) IN
           /\ a \notin places /\ b \notin places => (a \in after <=> b \in after)
           /\ a \in places /\ b \notin places => b \in after
           /\ b \in places /\ a \notin places => a \in after
  BY <1>1 DEF KeepsLinks
<1> HIDE DEF job, new
<1>5. Made(new) \subseteq after BY <1>2, <1>3 DEF LooseFor
<1>6. ASSUME Linked(new)
      PROVE  Source(new) \in after <=> Target(new) \in after
  BY <1>3, <1>4, <1>6 DEF Linked
<1>7. ASSUME Between(new), Target(new) \in new.surprised
      PROVE  Source(new) \in after \cup new.surprised
  BY <1>2, <1>3, <1>4, <1>7 DEF LooseFor, Linked
<1>8. ASSUME Between(new), Source(new) \in new.surprised
      PROVE  Target(new) \in after \cup new.surprised
  BY <1>2, <1>3, <1>4, <1>8 DEF LooseFor, Linked
<1> QED BY <1>5, <1>6, <1>7, <1>8 DEF LooseFor, new

\* The links of the others stay apart, if the step adds none.
LEMMA OthersForest ==
  ASSUME TransfersTyped, JobsInv, ForestInv, NEW r, NEW places, Others(r, places),
         r \in Busy' => ~ Linked(jobs'[r])
  PROVE  ForestInv'
<1>1. ASSUME NEW s \in Busy', Linked(jobs'[s])
      PROVE  /\ s \in Busy \ {r} /\ Linked(jobs[s])
             /\ Source(jobs'[s]) = Source(jobs[s]) /\ Target(jobs'[s]) = Target(jobs[s])
  <2>1. s # r BY <1>1
  <2>2. s \in Busy BY <2>1, BusyOthers
  <2>3. /\ jobs'[s].surprised = jobs[s].surprised \cup places /\ Between(jobs'[s]) = Between(jobs[s])
        /\ Source(jobs'[s]) = Source(jobs[s]) /\ Target(jobs'[s]) = Target(jobs[s])
    BY <2>1, <2>2, OtherJob
  <2> QED BY <1>1, <2>1, <2>2, <2>3 DEF Linked
<1>2. ASSUME NEW s \in Busy', Linked(jobs'[s])
      PROVE  \E side \in SUBSET AllPlaces :
               /\ Source(jobs'[s]) \notin side /\ Target(jobs'[s]) \in side
               /\ \A o \in Busy' \ {s} : Linked(jobs'[o]) => (Source(jobs'[o]) \in side <=> Target(jobs'[o]) \in side)
  <2>1. PICK side \in SUBSET AllPlaces :
               /\ Source(jobs[s]) \notin side /\ Target(jobs[s]) \in side
               /\ \A o \in Busy \ {s} : Linked(jobs[o]) => (Source(jobs[o]) \in side <=> Target(jobs[o]) \in side)
    BY <1>1, <1>2 DEF ForestInv
  <2>2. \A o \in Busy' \ {s} : Linked(jobs'[o]) => (Source(jobs'[o]) \in side <=> Target(jobs'[o]) \in side)
    BY <1>1, <2>1
  <2> QED BY <1>1, <1>2, <2>1, <2>2
<1> QED BY <1>2 DEF ForestInv, AllPlaces, Places

\* What a step takes away (contents) is held elsewhere afterwards: in the trash, at a place that
\* is no longer loose (freed), or it is excused.
Keeps(r, places, loose, contents, freed, after) ==
  /\ loose \in SUBSET AllPlaces /\ \A s \in Busy : LooseFor(jobs[s], loose)
  /\ KeptWith(disk, trash, excused, loose)
  /\ freed \in SUBSET places /\ after = (loose \cup {x \in AllPlaces : LiesAt(disk, x) \in contents}) \ freed
  /\ \A x \in places : LiesAt(disk, x) \in contents \/ x \in loose
  /\ r \in Busy' => LooseFor(jobs'[r], after)
  /\ trash \subseteq trash'
  /\ \A t \in Tokens \ excused' : t \in excused => Held(disk', trash', t, after)
  /\ \A c \in contents : \A t \in (c \cap Tokens) \ excused' : Held(disk', trash', t, after)

\* Then nothing is lost by it.
LEMMA KeptStep ==
  ASSUME TransfersTyped, JobsInv, NEW r, NEW places, Others(r, places),
         NEW loose, NEW contents, NEW freed, NEW after, Keeps(r, places, loose, contents, freed, after)
  PROVE  KeptInv'
<1>0. /\ loose \in SUBSET AllPlaces /\ \A s \in Busy : LooseFor(jobs[s], loose)
      /\ KeptWith(disk, trash, excused, loose)
      /\ freed \in SUBSET places /\ after = (loose \cup {x \in AllPlaces : LiesAt(disk, x) \in contents}) \ freed
      /\ \A x \in places : LiesAt(disk, x) \in contents \/ x \in loose
      /\ r \in Busy' => LooseFor(jobs'[r], after)
      /\ trash \subseteq trash'
      /\ \A t \in Tokens \ excused' : t \in excused => Held(disk', trash', t, after)
      /\ \A c \in contents : \A t \in (c \cap Tokens) \ excused' : Held(disk', trash', t, after)
  BY DEF Keeps
<1>1. after \in SUBSET AllPlaces /\ loose \ places \subseteq after BY <1>0 DEF Others
<1>2. ASSUME NEW s \in Busy \ {r}, Linked(jobs[s]),
             NEW a, a = Source(jobs[s]), NEW b, b = Target(jobs[s])
      PROVE  /\ a \notin places /\ b \notin places => (a \in after <=> b \in after)
             /\ a \in places /\ b \notin places => b \in after
             /\ b \in places /\ a \notin places => a \in after
  <2>1. JobInv(disk, jobs[s]) /\ jobs[s] \in Working /\ LooseFor(jobs[s], loose)
    BY <1>0 DEF TransfersTyped, JobsInv
  <2>2. LiesAt(disk, a) = LiesAt(disk, b) /\ (a \in loose <=> b \in loose)
    BY <1>2, <2>1 DEF JobInv, LooseFor
  <2>3. a \in AllPlaces /\ b \in AllPlaces BY <1>2, <2>1, BetweenFacts DEF Linked
  <2> QED BY <1>0, <2>2, <2>3
<1>3. \A s \in Busy' \ {r} : LooseFor(jobs'[s], after)
  <2>1. KeepsLinks(r, places, after) BY <1>2 DEF KeepsLinks
  <2> QED BY <1>0, <1>1, <2>1, OthersLoose
<1>4. \A s \in Busy' : LooseFor(jobs'[s], after) BY <1>0, <1>3
<1>5. ASSUME NEW t \in Tokens \ excused'
      PROVE  Held(disk', trash', t, after)
  <2>1. CASE t \in excused BY <1>0, <2>1
  <2>2. CASE t \notin excused /\ t \in trash BY <1>0, <2>2 DEF Held
  <2>3. ASSUME NEW x \in AllPlaces \ loose, t \in LiesAt(disk, x)
        PROVE  Held(disk', trash', t, after)
    <3>1. CASE LiesAt(disk, x) \in contents BY <1>0, <2>3, <3>1
    <3>2. CASE LiesAt(disk, x) \notin contents
      <4>1. x \notin places /\ x \notin after BY <1>0, <2>3, <3>2
      <4>2. LiesAt(disk', x) = LiesAt(disk, x) BY <4>1 DEF Others
      <4> QED BY <2>3, <4>1, <4>2 DEF Held, AllPlaces, Places
    <3> QED BY <3>1, <3>2
  <2> QED BY <1>0, <2>1, <2>2, <2>3 DEF Held, KeptWith
<1>6. KeptWith(disk', trash', excused', after) BY <1>5 DEF KeptWith
<1> QED BY <1>1, <1>4, <1>6 DEF KeptInv

------------------------------
(* What a command does to itself. *)

LEMMA SameTaskFacts ==
  ASSUME NEW job \in Working, NEW new \in Working, SameTask(job, new), WellPlanned(job), Applies(job),
         job.failed => new.failed
  PROVE  WellPlanned(new) /\ Applies(new)
BY DEF SameTask, WellPlanned, Applies, Renames

LEMMA RenameForward ==
  ASSUME NEW d, NEW e, NEW job, NEW new, NEW p, NEW q, JobInv(d, job), AtItem(job, p, q), Renames(job), job.stage = "run",
         Renamed(d, e, p, q), GoesOn(job, new, job.done + 1, "run", job.failed, job.partial)
  PROVE  JobInv(e, new)
<1>0. ItemIs(job, p, q) BY ItemPlace
<1> SUFFICES ASSUME d \in Disks, e \in Disks, job \in Working, JobInv(d, job), Renames(job), job.stage = "run",
                    job.done < Len(job.plan), p = job.plan[job.done + 1].from, q = job.plan[job.done + 1].to,
                    p # q => LiesAt(d, p) # {},
                    \A x \in AllPlaces : LiesAt(e, x) = IF p = q THEN LiesAt(d, x) ELSE IF x = q THEN LiesAt(d, p)
                                                        ELSE IF x = p THEN {} ELSE LiesAt(d, x),
                    new \in Working, SameTask(job, new), new.done = job.done + 1, new.stage = "run",
                    new.failed = job.failed, new.partial = job.partial
             PROVE  JobInv(e, new)
  BY <1>0 DEF ItemIs, AtItem, Rollback, GoesOn, PutAt, Spares, Renamed, Renames, JobInv, Placed, Between, Changing
<1> DEFINE k == job.done + 1
           n == job.plan
<1>1. /\ n \in Seq(Pair) /\ job.done \in Nat /\ DOMAIN n = 1..Len(n) /\ Len(n) \in Nat /\ k \in DOMAIN n
      /\ \A i \in DOMAIN n : n[i].from \in AllPlaces /\ n[i].to \in AllPlaces
  BY PlanFacts DEF Working
<1>2. WellPlanned(new) /\ Applies(new) BY SameTaskFacts DEF JobInv
<1>3. Placed(new) BY <1>1 DEF JobInv, Placed, SameTask, Between, Renames
<1>4. /\ DistinctRenames(n) /\ Fresh(d, job)
      /\ Begun(job) = job.done /\ Cleared(job) = job.done /\ Begun(new) = k /\ Cleared(new) = k
  BY DEF JobInv, WellPlanned, Begun, Cleared
<1>5. /\ \A i \in DOMAIN n : Changing(n[i]) /\ i > job.done => LiesAt(d, n[i].to) = {} \/ n[i].to \in job.surprised
      /\ \A i \in DOMAIN n : Changing(n[i]) /\ i <= job.done => LiesAt(d, n[i].from) = {} \/ n[i].from \in job.surprised
  BY <1>4 DEF Fresh
<1> HIDE DEF n, k
<1>6. Fresh(e, new)
  <2>1. ASSUME NEW i \in DOMAIN n, i > k, Changing(n[i])
        PROVE  LiesAt(e, n[i].to) = {} \/ n[i].to \in job.surprised
    <3>0. i > job.done BY <1>1, <2>1 DEF k
    <3>1. LiesAt(d, n[i].to) = {} \/ n[i].to \in job.surprised BY <1>5, <2>1, <3>0
    <3>2. p # q => n[i].to # q BY <1>1, <1>4, <2>1 DEF DistinctRenames, Changing, n, k
    <3> QED BY <1>1, <3>1, <3>2
  <2>2. ASSUME NEW i \in DOMAIN n, i <= k, Changing(n[i])
        PROVE  LiesAt(e, n[i].from) = {} \/ n[i].from \in job.surprised
    <3>0. i < k => i <= job.done BY <1>1, <2>2 DEF k
    <3>1. i < k => LiesAt(d, n[i].from) = {} \/ n[i].from \in job.surprised BY <1>5, <2>2, <3>0
    <3>2. p # q => n[i].from # q BY <1>1, <1>4, <2>2 DEF DistinctRenames, Changing, n, k
    <3>3. i = k => n[i].from = p /\ p # q BY <2>2 DEF Changing, n, k
    <3>4. i = k \/ i < k BY <1>1, <2>2 DEF k
    <3> QED BY <1>1, <3>1, <3>2, <3>3, <3>4
  <2>3. ASSUME NEW i \in DOMAIN n, NEW j \in DOMAIN n, i < j, j <= k, n[i].from = n[j].from, Changing(n[i]), Changing(n[j])
        PROVE  n[i].from \in job.surprised
    <3>1. j <= job.done => n[i].from \in job.surprised BY <1>1, <1>4, <2>3 DEF Fresh, n, k
    <3>2. j = k => n[i].from = p /\ LiesAt(d, p) # {} BY <2>3 DEF Changing, n, k
    <3>3. i <= job.done => LiesAt(d, n[i].from) = {} \/ n[i].from \in job.surprised
      BY <1>1, <1>5, <2>3 DEF k
    <3>4. i <= job.done /\ (j = k \/ j <= job.done) BY <1>1, <2>3 DEF k
    <3> QED BY <3>1, <3>2, <3>3, <3>4
  <2> QED BY <1>4, <2>1, <2>2, <2>3 DEF Fresh, SameTask, n, k
<1>7. ASSUME Undisturbed(new)
      PROVE  Tracks(e, new)
  <2>1. Undisturbed(job) /\ Tracks(d, job) /\ job.surprised = {}
    BY <1>7 DEF JobInv, Undisturbed, SameTask
  <2>2. p # q => LiesAt(d, p) = LiesAt(job.before, p)
    <3>1. p \in AllPlaces BY <1>1 DEF n, k
    <3>2. ASSUME p # q, NEW i \in DOMAIN n, i <= job.done, Changing(n[i])
          PROVE  p \notin {n[i].from, n[i].to}
      <4>1. p # n[i].to BY <1>1, <1>4, <3>2 DEF DistinctRenames, n, k
      <4>2. LiesAt(d, n[i].from) = {} BY <2>1, <3>2 DEF Tracks, TracksMoves, n
      <4> QED BY <3>2, <4>1, <4>2
    <3> QED BY <2>1, <3>1, <3>2 DEF Tracks, TracksMoves, n
  <2>3. ASSUME NEW i \in DOMAIN n, i <= k, Changing(n[i])
        PROVE  LiesAt(e, n[i].to) = LiesAt(job.before, n[i].from) /\ LiesAt(e, n[i].from) = {}
    <3>1. i <= job.done => LiesAt(d, n[i].to) = LiesAt(job.before, n[i].from) /\ LiesAt(d, n[i].from) = {}
      BY <2>1, <2>3 DEF Tracks, TracksMoves, n, k
    <3>2. i = k => n[i].from = p /\ n[i].to = q /\ p # q BY <2>3 DEF Changing, n, k
    <3>3. i # k /\ p # q => n[i].to # q /\ n[i].to # p /\ n[i].from # q
      BY <1>1, <1>4, <2>3 DEF DistinctRenames, Changing, n, k
    <3>4. i <= job.done \/ i = k BY <1>1, <2>3 DEF k
    <3> QED BY <1>1, <2>2, <3>1, <3>2, <3>3, <3>4
  <2>4. ASSUME NEW x \in AllPlaces, \A i \in DOMAIN n : i <= k /\ Changing(n[i]) => x \notin {n[i].from, n[i].to}
        PROVE  LiesAt(e, x) = LiesAt(job.before, x)
    <3>1. p # q => x # p /\ x # q BY <1>1, <2>4 DEF Changing, n, k
    <3>2. \A i \in DOMAIN n : i <= job.done => i <= k BY <1>1 DEF k
    <3>3. LiesAt(d, x) = LiesAt(job.before, x) BY <2>1, <2>4, <3>2 DEF Tracks, TracksMoves, n
    <3> QED BY <3>1, <3>3
  <2>5. new.done = k /\ new.plan = n /\ new.before = job.before /\ new.stage = "run" /\ new.kind = job.kind
    BY DEF SameTask, n, k
  <2>6. Renames(new) BY <2>5 DEF Renames
  <2> QED BY <2>3, <2>4, <2>5, <2>6 DEF Tracks, TracksMoves
<1>8. ~ Linked(new) BY DEF Linked, Between
<1> QED BY <1>2, <1>3, <1>6, <1>7, <1>8 DEF JobInv

LEMMA RenameBack ==
  ASSUME NEW d, NEW e, NEW job, NEW new, NEW p, NEW q, JobInv(d, job), AtItem(job, p, q), Renames(job), job.stage = "back",
         Renamed(d, e, p, q), GoesOn(job, new, job.done - 1, "back", job.failed, job.partial)
  PROVE  JobInv(e, new)
<1>0. ItemIs(job, p, q) BY ItemPlace
<1> SUFFICES ASSUME d \in Disks, e \in Disks, job \in Working, JobInv(d, job), Renames(job), job.stage = "back",
                    job.done > 0, p = job.plan[job.done].to, q = job.plan[job.done].from,
                    p # q => LiesAt(d, p) # {},
                    \A x \in AllPlaces : LiesAt(e, x) = IF p = q THEN LiesAt(d, x) ELSE IF x = q THEN LiesAt(d, p)
                                                        ELSE IF x = p THEN {} ELSE LiesAt(d, x),
                    new \in Working, SameTask(job, new), new.done = job.done - 1, new.stage = "back",
                    new.failed = job.failed, new.partial = job.partial
             PROVE  JobInv(e, new)
  BY <1>0 DEF ItemIs, AtItem, Rollback, GoesOn, PutAt, Spares, Renamed, Renames, JobInv, Placed, Between, Changing
<1> DEFINE k == job.done
           n == job.plan
<1>1. /\ n \in Seq(Pair) /\ k \in Nat /\ DOMAIN n = 1..Len(n) /\ Len(n) \in Nat /\ k \in DOMAIN n /\ k < Len(n)
      /\ \A i \in DOMAIN n : n[i].from \in AllPlaces /\ n[i].to \in AllPlaces
  BY PlanFacts DEF Working, JobInv, Placed
<1>2. WellPlanned(new) /\ Applies(new) BY SameTaskFacts DEF JobInv
<1>3. Placed(new) BY <1>1 DEF JobInv, Placed, SameTask, Between, Renames
<1>4. /\ DistinctRenames(n) /\ Fresh(d, job) /\ Cleared(job) = k /\ Cleared(new) = k - 1
      /\ \A i \in DOMAIN n : Changing(n[i]) => LiesAt(job.before, n[i].to) = {}
  BY DEF JobInv, WellPlanned, Begun, Cleared
<1>5. /\ \A i \in DOMAIN n : Changing(n[i]) /\ i <= k => LiesAt(d, n[i].from) = {} \/ n[i].from \in job.surprised
      /\ \A i, j \in DOMAIN n : i < j /\ j <= k /\ n[i].from = n[j].from /\ Changing(n[i]) /\ Changing(n[j])
                                => n[i].from \in job.surprised
  BY <1>4 DEF Fresh
<1>6. n[k].to = p /\ n[k].from = q /\ (Changing(n[k]) <=> p # q) BY DEF Changing
<1>7. \A i \in DOMAIN n : i < k /\ Changing(n[i]) /\ p # q =>
        n[i].to # p /\ n[i].to # q /\ n[i].from # p /\ (n[i].from = q => q \in job.surprised)
  BY <1>1, <1>4, <1>5, <1>6 DEF DistinctRenames
<1> HIDE DEF n, k
<1>8. Fresh(e, new)
  <2>1. ASSUME NEW i \in DOMAIN n, i <= k - 1, Changing(n[i])
        PROVE  LiesAt(e, n[i].from) = {} \/ n[i].from \in job.surprised
    <3>1. i < k /\ i <= k BY <1>1, <2>1
    <3>2. LiesAt(d, n[i].from) = {} \/ n[i].from \in job.surprised BY <1>5, <2>1, <3>1
    <3> QED BY <1>1, <1>7, <2>1, <3>1, <3>2
  <2>2. ASSUME NEW i \in DOMAIN n, NEW j \in DOMAIN n, i < j, j <= k - 1, n[i].from = n[j].from, Changing(n[i]), Changing(n[j])
        PROVE  n[i].from \in job.surprised
    <3>1. j <= k BY <1>1, <2>2
    <3> QED BY <1>5, <2>2, <3>1
  <2>3. new.plan = n /\ new.done = k - 1 /\ new.stage = "back" /\ new.surprised = job.surprised
    BY DEF SameTask, n, k
  <2> QED BY <1>4, <2>1, <2>2, <2>3 DEF Fresh
<1>9. ASSUME Undisturbed(new)
      PROVE  Tracks(e, new)
  <2>1. Undisturbed(job) /\ Tracks(d, job) /\ job.surprised = {}
    BY <1>9 DEF JobInv, Undisturbed, SameTask
  <2>2. /\ \A i \in DOMAIN n : i <= k /\ Changing(n[i]) =>
             LiesAt(d, n[i].to) = LiesAt(job.before, n[i].from) /\ LiesAt(d, n[i].from) = {}
        /\ \A x \in AllPlaces : (\A i \in DOMAIN n : i <= k /\ Changing(n[i]) => x \notin {n[i].from, n[i].to})
             => LiesAt(d, x) = LiesAt(job.before, x)
    BY <2>1 DEF Tracks, TracksMoves, n, k
  <2>3. ASSUME NEW i \in DOMAIN n, i <= k - 1, Changing(n[i])
        PROVE  LiesAt(e, n[i].to) = LiesAt(job.before, n[i].from) /\ LiesAt(e, n[i].from) = {}
    <3>1. i < k /\ i <= k BY <1>1, <2>3
    <3>2. LiesAt(d, n[i].to) = LiesAt(job.before, n[i].from) /\ LiesAt(d, n[i].from) = {}
      BY <2>2, <2>3, <3>1
    <3> QED BY <1>1, <1>7, <2>1, <2>3, <3>1, <3>2
  <2>4. ASSUME NEW x \in AllPlaces, \A i \in DOMAIN n : i <= k - 1 /\ Changing(n[i]) => x \notin {n[i].from, n[i].to}
        PROVE  LiesAt(e, x) = LiesAt(job.before, x)
    <3>1. \A i \in DOMAIN n : i <= k => i = k \/ i <= k - 1 BY <1>1
    <3>2. k <= k BY <1>1
    <3>3. CASE p # q /\ x = q
      <4>1. LiesAt(d, p) = LiesAt(job.before, q) BY <1>1, <1>6, <2>2, <3>2, <3>3
      <4> QED BY <3>3, <4>1
    <3>4. CASE p # q /\ x = p
      <4>1. LiesAt(job.before, p) = {} BY <1>1, <1>4, <1>6, <3>4
      <4>2. LiesAt(e, p) = {} BY <3>4
      <4> QED BY <3>4, <4>1, <4>2
    <3>5. CASE p = q \/ x \notin {p, q}
      <4>1. \A i \in DOMAIN n : i <= k /\ Changing(n[i]) => x \notin {n[i].from, n[i].to}
        BY <1>6, <2>4, <3>1, <3>5
      <4>2. LiesAt(e, x) = LiesAt(d, x) BY <3>5
      <4> QED BY <2>2, <4>1, <4>2
    <3> QED BY <3>3, <3>4, <3>5
  <2>5. new.done = k - 1 /\ new.plan = n /\ new.before = job.before /\ new.stage = "back" /\ new.kind = job.kind
    BY DEF SameTask, n, k
  <2>6. Renames(new) BY <2>5 DEF Renames
  <2> QED BY <2>3, <2>4, <2>5, <2>6 DEF Tracks, TracksMoves
<1>10. ~ Linked(new) BY DEF Linked, Between
<1> QED BY <1>2, <1>3, <1>8, <1>9, <1>10 DEF JobInv

\* An item is copied from one device to another: it is at both its places.
LEMMA AcrossForward ==
  ASSUME NEW d, NEW e, NEW job, NEW new, NEW p, NEW q, JobInv(d, job), AtItem(job, p, q), job.kind = "move", job.stage = "run",
         p # q, PutAt(d, e, q, LiesAt(d, p)), GoesOn(job, new, job.done, "copied", job.failed, job.partial)
  PROVE  JobInv(e, new)
<1>0. ItemIs(job, p, q) BY ItemPlace
<1> SUFFICES ASSUME d \in Disks, e \in Disks, job \in Working, JobInv(d, job), job.kind = "move", job.stage = "run",
                    job.done < Len(job.plan), p = job.plan[job.done + 1].from, q = job.plan[job.done + 1].to, p # q,
                    \A x \in AllPlaces : LiesAt(e, x) = IF x = q THEN LiesAt(d, p) ELSE LiesAt(d, x),
                    new \in Working, SameTask(job, new), new.done = job.done, new.stage = "copied",
                    new.failed = job.failed, new.partial = job.partial
             PROVE  JobInv(e, new)
  BY <1>0 DEF ItemIs, AtItem, Rollback, GoesOn, PutAt, Spares, Renamed, Renames, JobInv, Placed, Between, Changing
<1> DEFINE k == job.done + 1
           n == job.plan
<1>1. /\ n \in Seq(Pair) /\ job.done \in Nat /\ DOMAIN n = 1..Len(n) /\ Len(n) \in Nat /\ k \in DOMAIN n
      /\ \A i \in DOMAIN n : n[i].from \in AllPlaces /\ n[i].to \in AllPlaces
  BY PlanFacts DEF Working
<1>2. WellPlanned(new) /\ Applies(new) BY SameTaskFacts DEF JobInv
<1>3. Placed(new) BY <1>1 DEF JobInv, Placed, SameTask, Between, Changing
<1>4. /\ Renames(job) /\ DistinctRenames(n) /\ Fresh(d, job)
      /\ Begun(job) = job.done /\ Cleared(job) = job.done /\ Begun(new) = k /\ Cleared(new) = job.done
  BY DEF JobInv, WellPlanned, Begun, Cleared, Renames
<1>5. /\ \A i \in DOMAIN n : Changing(n[i]) /\ i > job.done => LiesAt(d, n[i].to) = {} \/ n[i].to \in job.surprised
      /\ \A i \in DOMAIN n : Changing(n[i]) /\ i <= job.done => LiesAt(d, n[i].from) = {} \/ n[i].from \in job.surprised
      /\ \A i, j \in DOMAIN n : i < j /\ j <= job.done /\ n[i].from = n[j].from /\ Changing(n[i]) /\ Changing(n[j])
                                => n[i].from \in job.surprised
  BY <1>4 DEF Fresh
<1>6. n[k].to = q /\ n[k].from = p /\ Changing(n[k]) BY DEF Changing
<1>7. \A i \in DOMAIN n : Changing(n[i]) => n[i].from # q /\ (i # k => n[i].to # q)
  BY <1>1, <1>4, <1>6 DEF DistinctRenames
<1>8. new.plan = n /\ new.done = job.done /\ new.stage = "copied" /\ new.surprised = job.surprised
      /\ new.before = job.before /\ new.kind = "move" /\ k = job.done + 1
  BY DEF SameTask
<1> HIDE DEF n, k
<1>9. Fresh(e, new)
  <2>1. ASSUME NEW i \in DOMAIN n, i > k, Changing(n[i])
        PROVE  LiesAt(e, n[i].to) = {} \/ n[i].to \in job.surprised
    <3>1. i > job.done /\ i # k BY <1>1, <2>1 DEF k
    <3>2. LiesAt(d, n[i].to) = {} \/ n[i].to \in job.surprised BY <1>5, <2>1, <3>1
    <3> QED BY <1>1, <1>7, <2>1, <3>1, <3>2
  <2>2. ASSUME NEW i \in DOMAIN n, i <= job.done, Changing(n[i])
        PROVE  LiesAt(e, n[i].from) = {} \/ n[i].from \in job.surprised
    BY <1>1, <1>5, <1>7, <2>2
  <2> QED BY <1>4, <1>5, <1>8, <2>1, <2>2 DEF Fresh
<1>10. ASSUME Undisturbed(new)
       PROVE  Tracks(e, new)
  <2>1. Undisturbed(job) /\ Tracks(d, job) BY <1>10 DEF JobInv, Undisturbed, SameTask
  <2>2. /\ \A i \in DOMAIN n : i <= job.done /\ Changing(n[i]) =>
             LiesAt(d, n[i].to) = LiesAt(job.before, n[i].from) /\ LiesAt(d, n[i].from) = {}
        /\ \A x \in AllPlaces : (\A i \in DOMAIN n : i <= job.done /\ Changing(n[i]) => x \notin {n[i].from, n[i].to})
             => LiesAt(d, x) = LiesAt(job.before, x)
    BY <1>4, <2>1 DEF Tracks, TracksMoves, n
  <2>3. ASSUME NEW i \in DOMAIN n, i <= job.done, Changing(n[i])
        PROVE  LiesAt(e, n[i].to) = LiesAt(job.before, n[i].from) /\ LiesAt(e, n[i].from) = {}
    <3>1. i # k BY <1>1, <2>3 DEF k
    <3>2. LiesAt(d, n[i].to) = LiesAt(job.before, n[i].from) /\ LiesAt(d, n[i].from) = {}
      BY <2>2, <2>3
    <3> QED BY <1>1, <1>7, <2>3, <3>1, <3>2
  <2>4. ASSUME NEW x \in AllPlaces, \A i \in DOMAIN n : i <= job.done /\ Changing(n[i]) => x \notin {n[i].from, n[i].to},
               x # n[k].to
        PROVE  LiesAt(e, x) = LiesAt(job.before, x)
    BY <1>6, <2>2, <2>4
  <2> QED BY <1>8, <2>3, <2>4 DEF Tracks, TracksMoves, Renames
<1>11. LiesAt(e, Source(new)) = LiesAt(e, Target(new))
  <2>1. ~ Rollback(new) BY <1>8 DEF Rollback
  <2>2. Source(new) = p /\ Target(new) = q BY <1>6, <1>8, <2>1 DEF Source, Target, Item
  <2> QED BY <1>1, <1>6, <2>2
<1> QED BY <1>2, <1>3, <1>9, <1>10, <1>11 DEF JobInv

LEMMA AcrossBack ==
  ASSUME NEW d, NEW e, NEW job, NEW new, NEW p, NEW q, JobInv(d, job), AtItem(job, p, q), job.kind = "move", job.stage = "back",
         p # q, PutAt(d, e, q, LiesAt(d, p)), GoesOn(job, new, job.done, "copiedBack", job.failed, job.partial)
  PROVE  JobInv(e, new)
<1>0. ItemIs(job, p, q) BY ItemPlace
<1> SUFFICES ASSUME d \in Disks, e \in Disks, job \in Working, JobInv(d, job), job.kind = "move", job.stage = "back",
                    job.done > 0, p = job.plan[job.done].to, q = job.plan[job.done].from, p # q,
                    \A x \in AllPlaces : LiesAt(e, x) = IF x = q THEN LiesAt(d, p) ELSE LiesAt(d, x),
                    new \in Working, SameTask(job, new), new.done = job.done, new.stage = "copiedBack",
                    new.failed = job.failed, new.partial = job.partial
             PROVE  JobInv(e, new)
  BY <1>0 DEF ItemIs, AtItem, Rollback, GoesOn, PutAt, Spares, Renamed, Renames, JobInv, Placed, Between, Changing
<1> DEFINE k == job.done
           n == job.plan
<1>1. /\ n \in Seq(Pair) /\ k \in Nat /\ DOMAIN n = 1..Len(n) /\ Len(n) \in Nat /\ k \in DOMAIN n /\ k < Len(n)
      /\ \A i \in DOMAIN n : n[i].from \in AllPlaces /\ n[i].to \in AllPlaces
  BY PlanFacts DEF Working, JobInv, Placed
<1>2. WellPlanned(new) /\ Applies(new) BY SameTaskFacts DEF JobInv
<1>3. Placed(new) BY <1>1 DEF JobInv, Placed, SameTask, Between, Changing
<1>4. /\ Renames(job) /\ DistinctRenames(n) /\ Fresh(d, job) /\ Cleared(job) = k /\ Cleared(new) = k - 1
  BY DEF JobInv, WellPlanned, Begun, Cleared, Renames
<1>5. /\ \A i \in DOMAIN n : Changing(n[i]) /\ i <= k => LiesAt(d, n[i].from) = {} \/ n[i].from \in job.surprised
      /\ \A i, j \in DOMAIN n : i < j /\ j <= k /\ n[i].from = n[j].from /\ Changing(n[i]) /\ Changing(n[j])
                                => n[i].from \in job.surprised
  BY <1>4 DEF Fresh
<1>6. n[k].to = p /\ n[k].from = q /\ Changing(n[k]) BY DEF Changing
<1>7. \A i \in DOMAIN n : i < k /\ Changing(n[i]) => n[i].to # q /\ n[i].from # p /\ (n[i].from = q => q \in job.surprised)
  BY <1>1, <1>4, <1>5, <1>6 DEF DistinctRenames
<1>8. new.plan = n /\ new.done = k /\ new.stage = "copiedBack" /\ new.surprised = job.surprised
      /\ new.before = job.before /\ new.kind = "move"
  BY DEF SameTask
<1> HIDE DEF n, k
<1>9. Fresh(e, new)
  <2>1. ASSUME NEW i \in DOMAIN n, i <= k - 1, Changing(n[i])
        PROVE  LiesAt(e, n[i].from) = {} \/ n[i].from \in job.surprised
    <3>1. i < k /\ i <= k BY <1>1, <2>1
    <3>2. LiesAt(d, n[i].from) = {} \/ n[i].from \in job.surprised BY <1>5, <2>1, <3>1
    <3> QED BY <1>1, <1>7, <2>1, <3>1, <3>2
  <2> QED BY <1>4, <1>5, <1>8, <2>1 DEF Fresh
<1>10. ASSUME Undisturbed(new)
       PROVE  Tracks(e, new)
  <2>1. Undisturbed(job) /\ Tracks(d, job) /\ job.surprised = {}
    BY <1>10 DEF JobInv, Undisturbed, SameTask
  <2>2. /\ \A i \in DOMAIN n : i <= k /\ Changing(n[i]) =>
             LiesAt(d, n[i].to) = LiesAt(job.before, n[i].from) /\ LiesAt(d, n[i].from) = {}
        /\ \A x \in AllPlaces : (\A i \in DOMAIN n : i <= k /\ Changing(n[i]) => x \notin {n[i].from, n[i].to})
             => LiesAt(d, x) = LiesAt(job.before, x)
    BY <1>4, <2>1 DEF Tracks, TracksMoves, n, k
  <2>3. ASSUME NEW i \in DOMAIN n, i <= k, Changing(n[i])
        PROVE  LiesAt(e, n[i].to) = LiesAt(job.before, n[i].from)
               /\ LiesAt(e, n[i].from) = IF i = k THEN LiesAt(job.before, n[i].from) ELSE {}
    <3>1. LiesAt(d, n[i].to) = LiesAt(job.before, n[i].from) /\ LiesAt(d, n[i].from) = {}
      BY <2>2, <2>3
    <3>2. i = k \/ i < k BY <1>1, <2>3
    <3>3. CASE i = k BY <1>1, <1>6, <3>1, <3>3
    <3>4. CASE i < k
      <4>1. i # k BY <1>1, <3>4
      <4>2. n[i].to # q /\ n[i].from # q BY <1>7, <2>1, <2>3, <3>4
      <4> QED BY <1>1, <3>1, <4>1, <4>2
    <3> QED BY <3>2, <3>3, <3>4
  <2>4. ASSUME NEW x \in AllPlaces, \A i \in DOMAIN n : i <= k /\ Changing(n[i]) => x \notin {n[i].from, n[i].to}
        PROVE  LiesAt(e, x) = LiesAt(job.before, x)
    <3>1. k <= k BY <1>1
    <3>2. x # q BY <1>1, <1>6, <2>4, <3>1
    <3> QED BY <2>2, <2>4, <3>2
  <2> QED BY <1>8, <2>3, <2>4 DEF Tracks, TracksMoves, Renames
<1>11. LiesAt(e, Source(new)) = LiesAt(e, Target(new))
  <2>1. Rollback(new) BY <1>8 DEF Rollback
  <2>2. Source(new) = p /\ Target(new) = q
    BY <1>1, <1>6, <1>8, <2>1 DEF Source, Target, Item, Backwards
  <2> QED BY <1>1, <1>6, <2>2
<1> QED BY <1>2, <1>3, <1>9, <1>10, <1>11 DEF JobInv

\* Then it is removed where it was.
LEMMA RemoveForward ==
  ASSUME NEW d, NEW e, NEW job, NEW new, NEW p, NEW q, JobInv(d, job), AtItem(job, p, q), job.stage = "copied",
         LiesAt(d, p) # {}, PutAt(d, e, p, {}), GoesOn(job, new, job.done + 1, "run", job.failed, job.partial)
  PROVE  JobInv(e, new)
<1>0. ItemIs(job, p, q) BY ItemPlace
<1> SUFFICES ASSUME d \in Disks, e \in Disks, job \in Working, JobInv(d, job), job.stage = "copied",
                    p = job.plan[job.done + 1].from, q = job.plan[job.done + 1].to, LiesAt(d, p) # {},
                    \A x \in AllPlaces : LiesAt(e, x) = IF x = p THEN {} ELSE LiesAt(d, x),
                    new \in Working, SameTask(job, new), new.done = job.done + 1, new.stage = "run",
                    new.failed = job.failed, new.partial = job.partial
             PROVE  JobInv(e, new)
  BY <1>0 DEF ItemIs, AtItem, Rollback, GoesOn, PutAt, Spares, Renamed, Renames, JobInv, Placed, Between, Changing
<1> DEFINE k == job.done + 1
           n == job.plan
<1>1. /\ n \in Seq(Pair) /\ job.done \in Nat /\ DOMAIN n = 1..Len(n) /\ Len(n) \in Nat /\ job.done < Len(n)
      /\ \A i \in DOMAIN n : n[i].from \in AllPlaces /\ n[i].to \in AllPlaces
  BY PlanFacts DEF Working, JobInv, Placed
<1>2. WellPlanned(new) /\ Applies(new) BY SameTaskFacts DEF JobInv
<1>3. Placed(new) BY <1>1 DEF JobInv, Placed, SameTask, Between, Changing
<1>4. /\ Renames(job) /\ DistinctRenames(n) /\ Fresh(d, job) /\ job.kind = "move"
      /\ Begun(job) = k /\ Cleared(job) = job.done /\ Begun(new) = k /\ Cleared(new) = k
  BY DEF JobInv, WellPlanned, Begun, Cleared, Renames, Placed, Between
<1>5. /\ \A i \in DOMAIN n : Changing(n[i]) /\ i > k => LiesAt(d, n[i].to) = {} \/ n[i].to \in job.surprised
      /\ \A i \in DOMAIN n : Changing(n[i]) /\ i <= job.done => LiesAt(d, n[i].from) = {} \/ n[i].from \in job.surprised
      /\ \A i, j \in DOMAIN n : i < j /\ j <= job.done /\ n[i].from = n[j].from /\ Changing(n[i]) /\ Changing(n[j])
                                => n[i].from \in job.surprised
  BY <1>4 DEF Fresh
<1>6. k \in DOMAIN n /\ n[k].from = p /\ Changing(n[k]) BY <1>1 DEF JobInv, Placed
<1>7. \A i \in DOMAIN n : Changing(n[i]) => n[i].to # p /\ n[i].from # q /\ (i # k => n[i].to # q)
  BY <1>1, <1>4, <1>6 DEF DistinctRenames
<1>8. new.plan = n /\ new.done = k /\ new.stage = "run" /\ new.surprised = job.surprised
      /\ new.before = job.before /\ new.kind = "move" /\ k = job.done + 1 /\ k \in Nat
  BY <1>1, <1>4 DEF SameTask
<1>9. Source(job) = p /\ Target(job) = q /\ p # q BY <1>6, <1>7 DEF Source, Target, Item, Rollback
<1>10. \A i \in DOMAIN n : i <= k => i = k \/ i <= job.done BY <1>1
<1> HIDE DEF n, k
<1>11. Fresh(e, new)
  <2>1. ASSUME NEW i \in DOMAIN n, i > k, Changing(n[i])
        PROVE  LiesAt(e, n[i].to) = {} \/ n[i].to \in job.surprised
    BY <1>1, <1>5, <2>1
  <2>2. ASSUME NEW i \in DOMAIN n, i <= k, Changing(n[i])
        PROVE  LiesAt(e, n[i].from) = {} \/ n[i].from \in job.surprised
    <3>1. i = k => LiesAt(e, n[i].from) = {} BY <1>1, <1>6
    <3>2. i <= job.done => LiesAt(d, n[i].from) = {} \/ n[i].from \in job.surprised BY <1>5, <2>2
    <3> QED BY <1>1, <1>10, <2>2, <3>1, <3>2
  <2>3. ASSUME NEW i \in DOMAIN n, NEW j \in DOMAIN n, i < j, j <= k, n[i].from = n[j].from, Changing(n[i]), Changing(n[j])
        PROVE  n[i].from \in job.surprised
    <3>1. i <= job.done BY <1>1, <2>3 DEF k
    <3>2. LiesAt(d, n[i].from) = {} \/ n[i].from \in job.surprised BY <1>5, <2>3, <3>1
    <3> QED BY <1>5, <1>6, <1>10, <2>3, <3>2
  <2> QED BY <1>4, <1>8, <2>1, <2>2, <2>3 DEF Fresh
<1>12. ASSUME Undisturbed(new)
       PROVE  Tracks(e, new)
  <2>1. Undisturbed(job) /\ Tracks(d, job) /\ job.surprised = {}
    BY <1>12 DEF JobInv, Undisturbed, SameTask
  <2>2. /\ \A i \in DOMAIN n : i <= job.done /\ Changing(n[i]) =>
             LiesAt(d, n[i].to) = LiesAt(job.before, n[i].from) /\ LiesAt(d, n[i].from) = {}
        /\ \A x \in AllPlaces : (\A i \in DOMAIN n : i <= job.done /\ Changing(n[i]) => x \notin {n[i].from, n[i].to}) /\ x # q
             => LiesAt(d, x) = LiesAt(job.before, x)
    BY <1>4, <2>1 DEF Tracks, TracksMoves, n, k
  <2>3. LiesAt(d, q) = LiesAt(job.before, p)
    <3>1. Linked(job) BY <2>1 DEF Linked, Between
    <3>2. LiesAt(d, p) = LiesAt(d, q) BY <1>9, <3>1 DEF JobInv
    <3>3. \A i \in DOMAIN n : i <= job.done /\ Changing(n[i]) => p \notin {n[i].from, n[i].to}
      BY <1>7, <2>2
    <3> QED BY <1>1, <1>6, <1>9, <2>2, <3>2, <3>3
  <2>4. ASSUME NEW i \in DOMAIN n, i <= k, Changing(n[i])
        PROVE  LiesAt(e, n[i].to) = LiesAt(job.before, n[i].from) /\ LiesAt(e, n[i].from) = {}
    <3>1. CASE i = k
      <4>1. LiesAt(e, q) = LiesAt(d, q) /\ LiesAt(e, p) = {} BY <1>1, <1>6, <1>9 DEF n, k
      <4> QED BY <1>6, <2>3, <3>1, <4>1 DEF n, k
    <3>2. CASE i <= job.done
      <4>1. LiesAt(d, n[i].to) = LiesAt(job.before, n[i].from) /\ LiesAt(d, n[i].from) = {}
        BY <2>2, <2>4, <3>2
      <4>2. n[i].to # p BY <1>7, <2>4
      <4> QED BY <1>1, <4>1, <4>2
    <3> QED BY <1>10, <2>4, <3>1, <3>2
  <2>5. ASSUME NEW x \in AllPlaces, \A i \in DOMAIN n : i <= k /\ Changing(n[i]) => x \notin {n[i].from, n[i].to}
        PROVE  LiesAt(e, x) = LiesAt(job.before, x)
    <3>1. k <= k /\ \A i \in DOMAIN n : i <= job.done => i <= k BY <1>1, <1>8
    <3>2. x # p /\ x # q BY <1>6, <2>5, <3>1 DEF n, k
    <3> QED BY <2>2, <2>5, <3>1, <3>2
  <2> QED BY <1>8, <2>4, <2>5 DEF Tracks, TracksMoves, Renames
<1>13. ~ Linked(new) BY DEF Linked, Between
<1> QED BY <1>2, <1>3, <1>11, <1>12, <1>13 DEF JobInv

LEMMA RemoveBack ==
  ASSUME NEW d, NEW e, NEW job, NEW new, NEW p, NEW q, JobInv(d, job), AtItem(job, p, q), job.stage = "copiedBack",
         PutAt(d, e, p, {}), GoesOn(job, new, job.done - 1, "back", job.failed, job.partial)
  PROVE  JobInv(e, new)
<1>0. ItemIs(job, p, q) BY ItemPlace
<1> SUFFICES ASSUME d \in Disks, e \in Disks, job \in Working, JobInv(d, job), job.stage = "copiedBack",
                    p = job.plan[job.done].to, q = job.plan[job.done].from,
                    \A x \in AllPlaces : LiesAt(e, x) = IF x = p THEN {} ELSE LiesAt(d, x),
                    new \in Working, SameTask(job, new), new.done = job.done - 1, new.stage = "back",
                    new.failed = job.failed, new.partial = job.partial
             PROVE  JobInv(e, new)
  BY <1>0 DEF ItemIs, AtItem, Rollback, GoesOn, PutAt, Spares, Renamed, Renames, JobInv, Placed, Between, Changing
<1> DEFINE k == job.done
           n == job.plan
<1>1. /\ n \in Seq(Pair) /\ k \in Nat /\ DOMAIN n = 1..Len(n) /\ Len(n) \in Nat /\ k \in DOMAIN n /\ k < Len(n)
      /\ \A i \in DOMAIN n : n[i].from \in AllPlaces /\ n[i].to \in AllPlaces
  BY PlanFacts DEF Working, JobInv, Placed
<1>2. WellPlanned(new) /\ Applies(new) BY SameTaskFacts DEF JobInv
<1>3. Placed(new) BY <1>1 DEF JobInv, Placed, SameTask, Between, Changing
<1>4. /\ Renames(job) /\ DistinctRenames(n) /\ Fresh(d, job) /\ job.kind = "move"
      /\ Cleared(job) = k - 1 /\ Cleared(new) = k - 1
      /\ \A i \in DOMAIN n : Changing(n[i]) => LiesAt(job.before, n[i].to) = {}
  BY DEF JobInv, WellPlanned, Cleared, Renames, Placed, Between
<1>5. /\ \A i \in DOMAIN n : Changing(n[i]) /\ i <= k - 1 => LiesAt(d, n[i].from) = {} \/ n[i].from \in job.surprised
      /\ \A i, j \in DOMAIN n : i < j /\ j <= k /\ n[i].from = n[j].from /\ Changing(n[i]) /\ Changing(n[j])
                                => n[i].from \in job.surprised
  BY <1>4 DEF Fresh
<1>6. n[k].to = p /\ n[k].from = q /\ Changing(n[k]) /\ p # q BY DEF Changing, JobInv, Placed
<1>7. \A i \in DOMAIN n : Changing(n[i]) => n[i].from # p /\ (i # k => n[i].to # p)
  BY <1>1, <1>4, <1>6 DEF DistinctRenames
<1>8. new.plan = n /\ new.done = k - 1 /\ new.stage = "back" /\ new.surprised = job.surprised
      /\ new.before = job.before /\ new.kind = "move"
  BY <1>4 DEF SameTask
<1>9. \A i \in DOMAIN n : i <= k - 1 => i # k /\ i <= k BY <1>1
<1>10. \A i \in DOMAIN n : i <= k => i = k \/ i <= k - 1 BY <1>1
<1> HIDE DEF n, k
<1>11. Fresh(e, new)
  <2>1. ASSUME NEW i \in DOMAIN n, i <= k - 1, Changing(n[i])
        PROVE  LiesAt(e, n[i].from) = {} \/ n[i].from \in job.surprised
    BY <1>1, <1>5, <2>1
  <2>2. ASSUME NEW i \in DOMAIN n, NEW j \in DOMAIN n, i < j, j <= k - 1, n[i].from = n[j].from, Changing(n[i]), Changing(n[j])
        PROVE  n[i].from \in job.surprised
    BY <1>5, <1>9, <2>2
  <2> QED BY <1>4, <1>8, <2>1, <2>2 DEF Fresh
<1>12. ASSUME Undisturbed(new)
       PROVE  Tracks(e, new)
  <2>1. Undisturbed(job) /\ Tracks(d, job) BY <1>12 DEF JobInv, Undisturbed, SameTask
  <2>2. /\ \A i \in DOMAIN n : i <= k /\ Changing(n[i]) =>
             /\ LiesAt(d, n[i].to) = LiesAt(job.before, n[i].from)
             /\ LiesAt(d, n[i].from) = IF i = k THEN LiesAt(job.before, n[i].from) ELSE {}
        /\ \A x \in AllPlaces : (\A i \in DOMAIN n : i <= k /\ Changing(n[i]) => x \notin {n[i].from, n[i].to})
             => LiesAt(d, x) = LiesAt(job.before, x)
    BY <1>4, <2>1 DEF Tracks, TracksMoves, n, k
  <2>3. ASSUME NEW i \in DOMAIN n, i <= k - 1, Changing(n[i])
        PROVE  LiesAt(e, n[i].to) = LiesAt(job.before, n[i].from) /\ LiesAt(e, n[i].from) = {}
    <3>1. i # k /\ i <= k BY <1>9, <2>3
    <3>2. LiesAt(d, n[i].to) = LiesAt(job.before, n[i].from) /\ LiesAt(d, n[i].from) = {}
      BY <2>2, <2>3, <3>1
    <3>3. n[i].to # p BY <1>7, <2>3, <3>1
    <3> QED BY <1>1, <3>2, <3>3
  <2>4. ASSUME NEW x \in AllPlaces, \A i \in DOMAIN n : i <= k - 1 /\ Changing(n[i]) => x \notin {n[i].from, n[i].to}
        PROVE  LiesAt(e, x) = LiesAt(job.before, x)
    <3>1. CASE x = p BY <1>1, <1>4, <1>6, <3>1
    <3>2. CASE x = q
      <4>1. k <= k BY <1>1
      <4>2. LiesAt(d, q) = LiesAt(job.before, q) BY <1>1, <1>6, <2>2, <4>1
      <4> QED BY <1>1, <1>6, <3>2, <4>2
    <3>3. CASE x # p /\ x # q
      <4>1. \A i \in DOMAIN n : i <= k /\ Changing(n[i]) => x \notin {n[i].from, n[i].to}
        BY <1>6, <1>10, <2>4, <3>3
      <4> QED BY <2>2, <3>3, <4>1
    <3> QED BY <3>1, <3>2, <3>3
  <2> QED BY <1>8, <2>3, <2>4 DEF Tracks, TracksMoves, Renames
<1>13. ~ Linked(new) BY DEF Linked, Between
<1> QED BY <1>2, <1>3, <1>11, <1>12, <1>13 DEF JobInv

LEMMA TracksSame ==
  ASSUME NEW d, NEW e, NEW job \in Working, NEW new, SameTask(job, new), new.done = job.done, Tracks(d, job),
         job.stage \in {"run", "back"}, new.stage \in {"run", "back"},
         \A x \in AllPlaces : LiesAt(e, x) = LiesAt(d, x)
  PROVE  Tracks(e, new)
<1> DEFINE n == job.plan
<1>1. /\ n \in Seq(Pair) /\ \A i \in DOMAIN n : n[i].from \in AllPlaces /\ n[i].to \in AllPlaces
  BY PlanFacts DEF Working
<1>2. /\ new.plan = n /\ new.done = job.done /\ new.before = job.before
      /\ new.kind = job.kind /\ new.entry = job.entry /\ Renames(new) = Renames(job)
  BY DEF SameTask, Renames
<1>3. CASE Renames(job)
  <2>1. TracksMoves(d, job) BY <1>3 DEF Tracks
  <2>2. TracksMoves(e, new)
    <3>1. ASSUME NEW i \in DOMAIN n, i <= job.done, Changing(n[i])
          PROVE  LiesAt(e, n[i].to) = LiesAt(job.before, n[i].from) /\ LiesAt(e, n[i].from) = {}
      <4>1. LiesAt(d, n[i].to) = LiesAt(job.before, n[i].from) /\ LiesAt(d, n[i].from) = {}
        BY <2>1, <3>1 DEF TracksMoves
      <4> QED BY <1>1, <4>1
    <3>2. ASSUME NEW x \in AllPlaces, \A i \in DOMAIN n : i <= job.done /\ Changing(n[i]) => x \notin {n[i].from, n[i].to}
          PROVE  LiesAt(e, x) = LiesAt(job.before, x)
      BY <2>1, <3>2 DEF TracksMoves
    <3> HIDE DEF n
    <3> QED BY <1>2, <3>1, <3>2 DEF TracksMoves
  <2> QED BY <1>2, <1>3, <2>2 DEF Tracks
<1>4. CASE ~ Renames(job)
  <2>1. TracksOthers(d, job) BY <1>4 DEF Tracks
  <2>2. \A i : Outcome(new, i) = Outcome(job, i) BY <1>2 DEF Outcome
  <2>3. TracksOthers(e, new)
    <3>1. ASSUME NEW i \in DOMAIN n, i <= job.done
          PROVE  /\ LiesAt(e, n[i].to) = Outcome(new, i)
                 /\ new.kind # "trash" => LiesAt(new.before, n[i].to) = {}
      BY <1>1, <1>2, <2>1, <2>2, <3>1 DEF TracksOthers
    <3>2. ASSUME NEW x \in AllPlaces, \A i \in DOMAIN n : i <= job.done => x # n[i].to
          PROVE  LiesAt(e, x) = LiesAt(new.before, x)
      BY <1>2, <2>1, <3>2 DEF TracksOthers
    <3>3. new.kind = "restore" => \A i, j \in DOMAIN n : i < j /\ j <= job.done => n[i].to # n[j].to
      BY <1>2, <2>1 DEF TracksOthers
    <3> HIDE DEF n
    <3> QED BY <1>2, <3>1, <3>2, <3>3 DEF TracksOthers
  <2> QED BY <1>2, <1>4, <2>3 DEF Tracks
<1> QED BY <1>3, <1>4

\* An item fails: the items done are to be done back.  A part of a folder may be left there.
\* Nothing of the item is done, or a part of it, and then the command knows.
Partly(job, d, e, p, q, part) == (e = d /\ part = job.partial) \/ (part /\ p # q)

LEMMA FailForward ==
  ASSUME NEW d, NEW e, NEW job, NEW new, NEW p, NEW q, JobInv(d, job), AtItem(job, p, q), job.kind # "trash", job.stage = "run",
         Spares(d, e, {q}), NEW part, Partly(job, d, e, p, q, part),
         GoesOn(job, new, job.done, "back", job.failed, part)
  PROVE  JobInv(e, new)
<1>0. ItemIs(job, p, q) BY ItemPlace
<1> SUFFICES ASSUME d \in Disks, e \in Disks, job \in Working, JobInv(d, job), job.kind # "trash", job.stage = "run",
                    job.done < Len(job.plan), q = job.plan[job.done + 1].to,
                    \A x \in AllPlaces : x # q => LiesAt(e, x) = LiesAt(d, x),
                    new \in Working, SameTask(job, new), new.done = job.done, new.stage = "back", new.failed = job.failed,
                    \/ \A x \in AllPlaces : LiesAt(e, x) = LiesAt(d, x) /\ new.partial = job.partial
                    \/ new.partial /\ Changing(job.plan[job.done + 1])
             PROVE  JobInv(e, new)
  BY <1>0 DEF Partly, ItemIs, AtItem, Rollback, GoesOn, PutAt, Spares, Renamed, Renames, JobInv, Placed, Between, Changing
<1> DEFINE k == job.done + 1
           n == job.plan
<1>1. /\ n \in Seq(Pair) /\ job.done \in Nat /\ DOMAIN n = 1..Len(n) /\ Len(n) \in Nat /\ k \in DOMAIN n
      /\ \A i \in DOMAIN n : n[i].from \in AllPlaces /\ n[i].to \in AllPlaces
  BY PlanFacts DEF Working
<1>2. WellPlanned(new) /\ Applies(new) BY SameTaskFacts DEF JobInv
<1>3. Placed(new) BY <1>1 DEF JobInv, Placed, SameTask, Between
<1>4. Fresh(d, job) /\ Cleared(job) = job.done /\ Cleared(new) = job.done BY DEF JobInv, Cleared
<1>5. /\ new.plan = n /\ new.done = job.done /\ new.surprised = job.surprised /\ new.before = job.before
      /\ new.kind = job.kind /\ new.stage = "back" /\ new.entry = job.entry
  BY DEF SameTask
<1> HIDE DEF n, k
<1>6. Fresh(e, new)
  <2>1. CASE Renames(job)
    <3>1. DistinctRenames(n) BY <2>1 DEF JobInv, WellPlanned, n
    <3>2. ASSUME NEW i \in DOMAIN n, i <= job.done, Changing(n[i])
          PROVE  LiesAt(e, n[i].from) = {} \/ n[i].from \in job.surprised
      <4>1. LiesAt(d, n[i].from) = {} \/ n[i].from \in job.surprised
        BY <1>4, <2>1, <3>2 DEF Fresh, n
      <4>2. n[i].from = q => ~ Changing(n[k]) BY <1>1, <3>1, <3>2 DEF DistinctRenames, n, k
      <4>3. LiesAt(e, n[i].from) = LiesAt(d, n[i].from) BY <1>1, <4>2 DEF n, k
      <4> QED BY <4>1, <4>3
    <3>3. \A i, j \in DOMAIN n : i < j /\ j <= job.done /\ n[i].from = n[j].from /\ Changing(n[i]) /\ Changing(n[j])
                                 => n[i].from \in job.surprised
      BY <1>4, <2>1 DEF Fresh, n
    <3> QED BY <1>4, <1>5, <3>2, <3>3 DEF Fresh
  <2>2. CASE ~ Renames(job) BY <1>5, <2>2 DEF Fresh, Renames
  <2> QED BY <2>1, <2>2
<1>7. ASSUME Undisturbed(new)
      PROVE  Tracks(e, new)
  <2>1. Undisturbed(job) /\ \A x \in AllPlaces : LiesAt(e, x) = LiesAt(d, x)
    BY <1>3, <1>5, <1>7 DEF JobInv, Placed, Undisturbed
  <2> QED BY <1>5, <2>1, TracksSame DEF JobInv
<1>8. ~ Linked(new) BY DEF Linked, Between
<1> QED BY <1>2, <1>3, <1>6, <1>7, <1>8 DEF JobInv

\* An item cannot be done back.
LEMMA FailBack ==
  ASSUME NEW d, NEW e, NEW job, NEW new, NEW p, NEW q, JobInv(d, job), AtItem(job, p, q), job.kind # "trash", job.stage = "back",
         Spares(d, e, {q}), e = d \/ p # q, NEW part, NEW count, count < job.done, Renames(job) => count = job.done - 1,
         GoesOn(job, new, count, "back", TRUE, part)
  PROVE  JobInv(e, new)
<1>0. ItemIs(job, p, q) BY ItemPlace
<1> SUFFICES ASSUME d \in Disks, e \in Disks, job \in Working, JobInv(d, job), job.kind # "trash", job.stage = "back",
                    job.done > 0, q = job.plan[job.done].from,
                    \A x \in AllPlaces : x # q => LiesAt(e, x) = LiesAt(d, x),
                    \A x \in AllPlaces : LiesAt(e, x) # LiesAt(d, x) => Changing(job.plan[job.done]),
                    new \in Working, SameTask(job, new), new.done < job.done, Renames(job) => new.done = job.done - 1,
                    new.stage = "back", new.failed
             PROVE  JobInv(e, new)
  BY <1>0 DEF ItemIs, AtItem, Rollback, GoesOn, PutAt, Spares, Renamed, Renames, JobInv, Placed, Between, Changing
<1> DEFINE k == job.done
           n == job.plan
<1>1. /\ n \in Seq(Pair) /\ k \in Nat /\ DOMAIN n = 1..Len(n) /\ Len(n) \in Nat /\ k \in DOMAIN n /\ new.done \in Nat
      /\ \A i \in DOMAIN n : n[i].from \in AllPlaces /\ n[i].to \in AllPlaces
  BY PlanFacts DEF Working, JobInv, Placed
<1>2. WellPlanned(new) /\ Applies(new) BY SameTaskFacts DEF JobInv
<1>3. Placed(new) BY <1>1 DEF JobInv, Placed, SameTask, Between
<1>4. Fresh(d, job) /\ Cleared(job) = k /\ Cleared(new) = new.done BY DEF JobInv, Cleared
<1>5. /\ new.plan = n /\ new.surprised = job.surprised /\ new.kind = job.kind BY DEF SameTask
<1> HIDE DEF n, k
<1>6. Fresh(e, new)
  <2>1. CASE Renames(job)
    <3>1. /\ \A i \in DOMAIN n : Changing(n[i]) /\ i <= k => LiesAt(d, n[i].from) = {} \/ n[i].from \in job.surprised
          /\ \A i, j \in DOMAIN n : i < j /\ j <= k /\ n[i].from = n[j].from /\ Changing(n[i]) /\ Changing(n[j])
                                    => n[i].from \in job.surprised
      BY <1>4, <2>1 DEF Fresh, n, k
    <3>2. \A i \in DOMAIN n : i <= new.done => i < k /\ i <= k BY <1>1, <2>1 DEF k
    <3>3. ASSUME NEW i \in DOMAIN n, i <= new.done, Changing(n[i])
          PROVE  LiesAt(e, n[i].from) = {} \/ n[i].from \in job.surprised
      <4>1. LiesAt(d, n[i].from) = {} \/ n[i].from \in job.surprised BY <3>1, <3>2, <3>3
      <4>2. n[i].from = q => n[i].from \in job.surprised \/ ~ Changing(n[k])
        BY <1>1, <3>1, <3>2, <3>3 DEF n, k
      <4>3. LiesAt(e, n[i].from) = LiesAt(d, n[i].from) \/ n[i].from \in job.surprised
        BY <1>1, <4>2 DEF n, k
      <4> QED BY <4>1, <4>3
    <3> QED BY <1>4, <1>5, <3>1, <3>2, <3>3 DEF Fresh
  <2>2. CASE ~ Renames(job) BY <1>5, <2>2 DEF Fresh, Renames
  <2> QED BY <2>1, <2>2
<1>7. ~ Undisturbed(new) BY <1>5 DEF Undisturbed
<1>8. ~ Linked(new) BY DEF Linked, Between
<1> QED BY <1>2, <1>3, <1>6, <1>7, <1>8 DEF JobInv

\* The source of what was copied across cannot be removed: the copy is.
LEMMA FailRemoveForward ==
  ASSUME NEW d, NEW e, NEW job, NEW new, NEW p, NEW q, JobInv(d, job), AtItem(job, p, q), job.stage = "copied",
         Spares(d, e, {p, q}), LiesAt(e, q) = {}, LiesAt(e, p) \subseteq LiesAt(d, p),
         NEW part, LiesAt(e, p) # LiesAt(d, p) => part, job.partial => part,
         GoesOn(job, new, job.done, "back", job.failed, part)
  PROVE  JobInv(e, new)
<1>0. ItemIs(job, p, q) BY ItemPlace
<1> PICK left : left = LiesAt(e, p)
  OBVIOUS
<1> SUFFICES ASSUME d \in Disks, e \in Disks, job \in Working, JobInv(d, job), job.stage = "copied",
                    p = job.plan[job.done + 1].from, q = job.plan[job.done + 1].to,
                    left \subseteq LiesAt(d, p),
                    \A x \in AllPlaces : LiesAt(e, x) = IF x = q THEN {} ELSE IF x = p THEN left ELSE LiesAt(d, x),
                    new \in Working, SameTask(job, new), new.done = job.done, new.stage = "back",
                    new.failed = job.failed, left # LiesAt(d, p) => new.partial, job.partial => new.partial
             PROVE  JobInv(e, new)
  BY <1>0 DEF ItemIs, AtItem, Rollback, GoesOn, PutAt, Spares, Renamed, Renames, JobInv, Placed, Between, Changing
<1> DEFINE k == job.done + 1
           n == job.plan
<1>1. /\ n \in Seq(Pair) /\ job.done \in Nat /\ DOMAIN n = 1..Len(n) /\ Len(n) \in Nat /\ job.done < Len(n) /\ k \in DOMAIN n
      /\ \A i \in DOMAIN n : n[i].from \in AllPlaces /\ n[i].to \in AllPlaces
  BY PlanFacts DEF Working, JobInv, Placed
<1>2. WellPlanned(new) /\ Applies(new) BY SameTaskFacts DEF JobInv
<1>3. Placed(new) BY <1>1 DEF JobInv, Placed, SameTask, Between, Changing
<1>4. /\ Renames(job) /\ DistinctRenames(n) /\ Fresh(d, job) /\ job.kind = "move"
      /\ Cleared(job) = job.done /\ Cleared(new) = job.done
      /\ \A i \in DOMAIN n : Changing(n[i]) => LiesAt(job.before, n[i].to) = {}
  BY DEF JobInv, WellPlanned, Cleared, Renames, Placed, Between
<1>5. /\ \A i \in DOMAIN n : Changing(n[i]) /\ i <= job.done => LiesAt(d, n[i].from) = {} \/ n[i].from \in job.surprised
      /\ \A i, j \in DOMAIN n : i < j /\ j <= job.done /\ n[i].from = n[j].from /\ Changing(n[i]) /\ Changing(n[j])
                                => n[i].from \in job.surprised
  BY <1>4 DEF Fresh
<1>6. n[k].from = p /\ n[k].to = q /\ Changing(n[k]) /\ p # q BY <1>1 DEF JobInv, Placed, Changing
<1>7. \A i \in DOMAIN n : Changing(n[i]) => n[i].to # p /\ n[i].from # q /\ (i # k => n[i].to # q)
  BY <1>1, <1>4, <1>6 DEF DistinctRenames
<1>8. new.plan = n /\ new.done = job.done /\ new.stage = "back" /\ new.surprised = job.surprised
      /\ new.before = job.before /\ new.kind = "move"
  BY <1>4 DEF SameTask
<1>9. \A i \in DOMAIN n : i <= job.done => i # k BY <1>1
<1> HIDE DEF n, k
<1>10. Fresh(e, new)
  <2>1. ASSUME NEW i \in DOMAIN n, i <= job.done, Changing(n[i])
        PROVE  LiesAt(e, n[i].from) = {} \/ n[i].from \in job.surprised
    <3>1. LiesAt(d, n[i].from) = {} \/ n[i].from \in job.surprised BY <1>5, <2>1
    <3>2. LiesAt(e, n[i].from) \subseteq LiesAt(d, n[i].from) BY <1>1, <1>6
    <3> QED BY <3>1, <3>2
  <2> QED BY <1>4, <1>5, <1>8, <2>1 DEF Fresh
<1>11. ASSUME Undisturbed(new)
       PROVE  Tracks(e, new)
  <2>1. Undisturbed(job) /\ Tracks(d, job) /\ left = LiesAt(d, p)
    BY <1>11 DEF JobInv, Undisturbed, SameTask, Placed
  <2>2. /\ \A i \in DOMAIN n : i <= job.done /\ Changing(n[i]) =>
             LiesAt(d, n[i].to) = LiesAt(job.before, n[i].from) /\ LiesAt(d, n[i].from) = {}
        /\ \A x \in AllPlaces : (\A i \in DOMAIN n : i <= job.done /\ Changing(n[i]) => x \notin {n[i].from, n[i].to}) /\ x # q
             => LiesAt(d, x) = LiesAt(job.before, x)
    BY <1>4, <2>1 DEF Tracks, TracksMoves, n
  <2>3. ASSUME NEW i \in DOMAIN n, i <= job.done, Changing(n[i])
        PROVE  LiesAt(e, n[i].to) = LiesAt(job.before, n[i].from) /\ LiesAt(e, n[i].from) = {}
    <3>1. n[i].to # q /\ n[i].to # p /\ n[i].from # q BY <1>7, <1>9, <2>3
    <3>2. LiesAt(d, n[i].to) = LiesAt(job.before, n[i].from) /\ LiesAt(d, n[i].from) = {}
      BY <2>2, <2>3
    <3>3. LiesAt(e, n[i].to) = LiesAt(d, n[i].to) BY <1>1, <3>1
    <3>4. LiesAt(e, n[i].from) = {} BY <1>1, <2>1, <3>1, <3>2
    <3> QED BY <3>2, <3>3, <3>4
  <2>4. ASSUME NEW x \in AllPlaces, \A i \in DOMAIN n : i <= job.done /\ Changing(n[i]) => x \notin {n[i].from, n[i].to}
        PROVE  LiesAt(e, x) = LiesAt(job.before, x)
    <3>1. CASE x = q BY <1>1, <1>4, <1>6, <3>1
    <3>2. CASE x # q BY <2>1, <2>2, <2>4, <3>2
    <3> QED BY <3>1, <3>2
  <2> QED BY <1>8, <2>3, <2>4 DEF Tracks, TracksMoves, Renames
<1>12. ~ Linked(new) BY DEF Linked, Between
<1> QED BY <1>2, <1>3, <1>10, <1>11, <1>12 DEF JobInv

LEMMA FailRemoveBack ==
  ASSUME NEW d, NEW e, NEW job, NEW new, NEW p, NEW q, JobInv(d, job), AtItem(job, p, q), job.stage = "copiedBack",
         Spares(d, e, {p, q}), LiesAt(e, q) = {}, NEW part, GoesOn(job, new, job.done - 1, "back", TRUE, part)
  PROVE  JobInv(e, new)
<1>0. ItemIs(job, p, q) BY ItemPlace
<1> SUFFICES ASSUME d \in Disks, e \in Disks, job \in Working, JobInv(d, job), job.stage = "copiedBack",
                    p = job.plan[job.done].to, q = job.plan[job.done].from,
                    \A x \in AllPlaces : x \notin {p, q} => LiesAt(e, x) = LiesAt(d, x),
                    LiesAt(e, q) = {},
                    new \in Working, SameTask(job, new), new.done = job.done - 1, new.stage = "back", new.failed
             PROVE  JobInv(e, new)
  BY <1>0 DEF ItemIs, AtItem, Rollback, GoesOn, PutAt, Spares, Renamed, Renames, JobInv, Placed, Between, Changing
<1> DEFINE k == job.done
           n == job.plan
<1>1. /\ n \in Seq(Pair) /\ k \in Nat /\ DOMAIN n = 1..Len(n) /\ Len(n) \in Nat /\ k \in DOMAIN n /\ k < Len(n)
      /\ \A i \in DOMAIN n : n[i].from \in AllPlaces /\ n[i].to \in AllPlaces
  BY PlanFacts DEF Working, JobInv, Placed
<1>2. WellPlanned(new) /\ Applies(new) BY SameTaskFacts DEF JobInv
<1>3. Placed(new) BY <1>1 DEF JobInv, Placed, SameTask, Between, Changing
<1>4. /\ Renames(job) /\ DistinctRenames(n) /\ Fresh(d, job) /\ Cleared(job) = k - 1 /\ Cleared(new) = k - 1
  BY DEF JobInv, WellPlanned, Cleared, Renames, Placed, Between
<1>5. /\ \A i \in DOMAIN n : Changing(n[i]) /\ i <= k - 1 => LiesAt(d, n[i].from) = {} \/ n[i].from \in job.surprised
      /\ \A i, j \in DOMAIN n : i < j /\ j <= k /\ n[i].from = n[j].from /\ Changing(n[i]) /\ Changing(n[j])
                                => n[i].from \in job.surprised
  BY <1>4 DEF Fresh
<1>6. n[k].to = p /\ Changing(n[k]) BY DEF Changing, JobInv, Placed
<1>7. \A i \in DOMAIN n : n[i].from # p BY <1>1, <1>4, <1>6 DEF DistinctRenames
<1>8. new.plan = n /\ new.done = k - 1 /\ new.stage = "back" /\ new.surprised = job.surprised /\ new.kind = job.kind
  BY <1>4 DEF SameTask
<1>9. \A i \in DOMAIN n : i <= k - 1 => i <= k BY <1>1
<1> HIDE DEF n, k
<1>10. Fresh(e, new)
  <2>1. ASSUME NEW i \in DOMAIN n, i <= k - 1, Changing(n[i])
        PROVE  LiesAt(e, n[i].from) = {} \/ n[i].from \in job.surprised
    <3>1. LiesAt(d, n[i].from) = {} \/ n[i].from \in job.surprised BY <1>5, <2>1
    <3>2. LiesAt(e, n[i].from) = LiesAt(d, n[i].from) \/ LiesAt(e, n[i].from) = {} BY <1>1, <1>7
    <3> QED BY <3>1, <3>2
  <2> QED BY <1>4, <1>5, <1>8, <1>9, <2>1 DEF Fresh
<1>11. ~ Undisturbed(new)
  <2>1. new.kind # "trash" BY <1>8 DEF JobInv, Placed, Between
  <2> QED BY <2>1 DEF Undisturbed
<1>12. ~ Linked(new) BY DEF Linked, Between
<1> QED BY <1>2, <1>3, <1>10, <1>11, <1>12 DEF JobInv

LEMMA RestoredFacts ==
  ASSUME NEW job \in Working, Applies(job), job.kind = "restore"
  PROVE  /\ job.way = "undo" /\ job.entry.kind = "trash" /\ EntryInv(job.entry) /\ job.plan = Backwards(job.entry.plan)
         /\ \A i \in DOMAIN job.plan : LiesAt(job.entry.before, job.plan[i].to) # {}
<1>1. job.way \in {"undo", "redo"} /\ EntryInv(job.entry) BY DEF Applies, Working
<1>2. job.entry \in Entry /\ job.entry.kind \in {"rename", "move", "copy", "trash"}
  BY <1>1 DEF Applies, EntryInv, Entry, Kinds
<1>3. job.way = "undo" /\ job.entry.kind = "trash" /\ job.plan = Backwards(job.entry.plan)
  BY <1>1, <1>2 DEF Applies
<1>4. job.entry.plan \in Seq(Pair) BY <1>2 DEF Entry
<1>5. \A i \in DOMAIN job.entry.plan : /\ LiesAt(job.entry.before, job.entry.plan[i].to) # {}
                                       /\ job.entry.plan[i].from = job.entry.plan[i].to
  BY <1>1, <1>3 DEF EntryInv, InPlace
<1>6. /\ DOMAIN Backwards(job.entry.plan) = DOMAIN job.entry.plan
      /\ \A i \in DOMAIN job.entry.plan :
            Backwards(job.entry.plan)[i].to = job.entry.plan[i].from
  BY <1>4, PlanFacts
<1>7. ASSUME NEW i \in DOMAIN job.plan
      PROVE  i \in DOMAIN job.entry.plan /\ job.plan[i].to = job.entry.plan[i].to
  <2>1. i \in DOMAIN job.entry.plan BY <1>3, <1>6
  <2>2. job.plan[i].to = job.entry.plan[i].from BY <1>3, <1>6, <2>1
  <2> QED BY <1>5, <2>1, <2>2
<1>8. \A i \in DOMAIN job.plan : LiesAt(job.entry.before, job.plan[i].to) # {} BY <1>5, <1>7
<1> QED BY <1>1, <1>3, <1>8

\* An item of a command that moves nothing is done.
LEMMA PlaceForward ==
  ASSUME NEW d, NEW e, NEW job, NEW new, NEW p, NEW q, JobInv(d, job), AtItem(job, p, q), ~ Renames(job), job.stage = "run",
         job.kind # "trash" => LiesAt(d, q) = {}, NEW item,
         item = CASE job.kind = "copy" -> LiesAt(d, p)
                  [] job.kind = "trash" -> {}
                  [] job.kind = "restore" -> LiesAt(job.entry.before, q),
         PutAt(d, e, q, item), GoesOn(job, new, job.done + 1, "run", job.failed, job.partial)
  PROVE  JobInv(e, new)
<1>0. ItemIs(job, p, q) BY ItemPlace
<1> SUFFICES ASSUME d \in Disks, e \in Disks, job \in Working, JobInv(d, job), ~ Renames(job), job.stage = "run",
                    job.done < Len(job.plan), p = job.plan[job.done + 1].from, q = job.plan[job.done + 1].to,
                    job.kind # "trash" => LiesAt(d, q) = {},
                    LiesAt(e, q) = CASE job.kind = "copy" -> LiesAt(d, p)
                                     [] job.kind = "trash" -> {}
                                     [] job.kind = "restore" -> LiesAt(job.entry.before, q),
                    \A x \in AllPlaces : x # q => LiesAt(e, x) = LiesAt(d, x),
                    new \in Working, SameTask(job, new), new.done = job.done + 1, new.stage = "run",
                    new.failed = job.failed, new.partial = job.partial
             PROVE  JobInv(e, new)
  BY <1>0 DEF ItemIs, AtItem, Rollback, GoesOn, PutAt, Spares, Renamed, Renames, JobInv, Placed, Between, Changing
<1> DEFINE k == job.done + 1
           n == job.plan
<1>1. /\ n \in Seq(Pair) /\ job.done \in Nat /\ DOMAIN n = 1..Len(n) /\ Len(n) \in Nat /\ k \in DOMAIN n
      /\ \A i \in DOMAIN n : n[i].from \in AllPlaces /\ n[i].to \in AllPlaces
  BY PlanFacts DEF Working
<1>2. WellPlanned(new) /\ Applies(new) BY SameTaskFacts DEF JobInv
<1>3. Placed(new) BY <1>1 DEF JobInv, Placed, SameTask, Between
<1>4. /\ new.plan = n /\ new.done = k /\ new.before = job.before
      /\ new.kind = job.kind /\ new.entry = job.entry /\ ~ Renames(new)
  BY DEF SameTask, Renames
<1>5. job.kind \in {"copy", "trash", "restore"} BY DEF Working, Kinds, Renames
<1>6. \A i \in DOMAIN n : i <= k <=> i = k \/ i <= job.done BY <1>1
<1>7. \A i \in DOMAIN n : i <= job.done => i # k BY <1>1
<1>8. n[k].from = p /\ n[k].to = q OBVIOUS
<1>9. job.kind = "copy" => Distinct(n) BY DEF JobInv, WellPlanned
<1> HIDE DEF n, k
<1>10. ASSUME Undisturbed(new)
       PROVE  TracksOthers(e, new)
  <2>1. TracksOthers(d, job) BY <1>10 DEF JobInv, Undisturbed, SameTask, Tracks
  <2>2. /\ \A i \in DOMAIN n : i <= job.done =>
             /\ LiesAt(d, n[i].to) = Outcome(job, i)
             /\ job.kind # "trash" => LiesAt(job.before, n[i].to) = {}
        /\ \A x \in AllPlaces : (\A i \in DOMAIN n : i <= job.done => x # n[i].to) => LiesAt(d, x) = LiesAt(job.before, x)
    BY <2>1 DEF TracksOthers, n
  <2>3. \A i : Outcome(new, i) = Outcome(job, i) BY <1>4 DEF Outcome, n
  <2>4. LiesAt(e, q) = Outcome(job, k)
    <3>1. CASE job.kind = "copy"
      <4>1. \A i \in DOMAIN n : p # n[i].to BY <1>1, <1>8, <1>9, <3>1 DEF Distinct
      <4>2. LiesAt(d, p) = LiesAt(job.before, p) BY <1>1, <1>8, <2>2, <4>1
      <4> QED BY <1>8, <3>1, <4>2 DEF Outcome, n
    <3>2. CASE job.kind \in {"trash", "restore"} BY <1>8, <3>2 DEF Outcome, n
    <3> QED BY <1>5, <3>1, <3>2
  <2>5. ASSUME NEW i \in DOMAIN n, i <= k
        PROVE  /\ LiesAt(e, n[i].to) = Outcome(new, i)
               /\ job.kind # "trash" => LiesAt(job.before, n[i].to) = {}
    <3>1. CASE n[i].to # q
      <4>1. i <= job.done BY <1>6, <1>8, <2>5, <3>1
      <4>2. LiesAt(e, n[i].to) = LiesAt(d, n[i].to) BY <1>1, <3>1
      <4> QED BY <2>2, <2>3, <4>1, <4>2
    <3>2. CASE n[i].to = q /\ i = k
      <4>1. job.kind # "trash" => LiesAt(job.before, q) = {}
        <5>1. SUFFICES ASSUME job.kind # "trash"
                       PROVE  LiesAt(job.before, q) = {}
          OBVIOUS
        <5>2. CASE \A j \in DOMAIN n : j <= job.done => q # n[j].to BY <1>1, <1>8, <2>2, <5>1, <5>2
        <5>3. CASE ~ \A j \in DOMAIN n : j <= job.done => q # n[j].to BY <2>2, <5>1, <5>3
        <5> QED BY <5>2, <5>3
      <4> QED BY <2>3, <2>4, <3>2, <4>1
    <3>3. CASE n[i].to = q /\ i # k
      <4>1. i <= job.done BY <1>6, <2>5, <3>3
      <4>2. job.kind # "copy" BY <1>1, <1>8, <1>9, <3>3 DEF Distinct
      <4>3. Outcome(job, i) = Outcome(job, k) BY <1>5, <1>8, <3>3, <4>2 DEF Outcome, n
      <4> QED BY <2>2, <2>3, <2>4, <3>3, <4>1, <4>3
    <3> QED BY <3>1, <3>2, <3>3
  <2>6. ASSUME NEW x \in AllPlaces, \A i \in DOMAIN n : i <= k => x # n[i].to
        PROVE  LiesAt(e, x) = LiesAt(job.before, x)
    <3>1. x # q /\ \A i \in DOMAIN n : i <= job.done => x # n[i].to BY <1>1, <1>6, <1>8, <2>6
    <3> QED BY <2>2, <3>1
  <2>7. ASSUME job.kind = "restore", NEW i \in DOMAIN n, NEW j \in DOMAIN n, i < j, j <= k
        PROVE  n[i].to # n[j].to
    <3>1. CASE j <= job.done BY <2>1, <2>7, <3>1 DEF TracksOthers, n
    <3>2. CASE j = k
      <4>1. i <= job.done BY <1>1, <2>7, <3>2 DEF k
      <4>2. LiesAt(d, n[i].to) = LiesAt(job.entry.before, n[i].to)
        BY <2>2, <2>7, <4>1 DEF Outcome, n
      <4>3. LiesAt(job.entry.before, n[i].to) # {} BY <2>7, RestoredFacts DEF JobInv, n
      <4>4. LiesAt(d, q) = {} BY <2>7
      <4> QED BY <1>8, <3>2, <4>2, <4>3, <4>4
    <3> QED BY <1>6, <2>7, <3>1, <3>2
  <2> QED BY <1>4, <2>5, <2>6, <2>7 DEF TracksOthers
<1>11. ~ Linked(new) /\ Fresh(e, new) BY <1>4 DEF Linked, Between, Fresh
<1> QED BY <1>2, <1>3, <1>4, <1>10, <1>11 DEF JobInv, Tracks

\* What was made is removed again.
LEMMA MadeBack ==
  ASSUME NEW d, NEW e, NEW job, NEW new, NEW p, NEW q, JobInv(d, job), AtItem(job, q, p), job.kind \in {"copy", "restore"},
         job.stage = "back", PutAt(d, e, q, {}), GoesOn(job, new, job.done - 1, "back", job.failed, job.partial)
  PROVE  JobInv(e, new)
<1>0. ItemIs(job, q, p) BY ItemPlace
<1> SUFFICES ASSUME d \in Disks, e \in Disks, job \in Working, JobInv(d, job), job.kind \in {"copy", "restore"},
                    job.stage = "back", job.done > 0, q = job.plan[job.done].to,
                    \A x \in AllPlaces : LiesAt(e, x) = IF x = q THEN {} ELSE LiesAt(d, x),
                    new \in Working, SameTask(job, new), new.done = job.done - 1, new.stage = "back",
                    new.failed = job.failed, new.partial = job.partial
             PROVE  JobInv(e, new)
  BY <1>0 DEF ItemIs, AtItem, Rollback, GoesOn, PutAt, Spares, Renamed, Renames, JobInv, Placed, Between, Changing
<1> DEFINE k == job.done
           n == job.plan
<1>1. /\ n \in Seq(Pair) /\ k \in Nat /\ DOMAIN n = 1..Len(n) /\ Len(n) \in Nat /\ k \in DOMAIN n /\ k < Len(n)
      /\ \A i \in DOMAIN n : n[i].from \in AllPlaces /\ n[i].to \in AllPlaces
  BY PlanFacts DEF Working, JobInv, Placed
<1>2. WellPlanned(new) /\ Applies(new) BY SameTaskFacts DEF JobInv
<1>3. Placed(new) BY <1>1 DEF JobInv, Placed, SameTask, Between
<1>4. /\ new.plan = n /\ new.done = k - 1 /\ new.before = job.before
      /\ new.kind = job.kind /\ new.entry = job.entry /\ ~ Renames(new) /\ ~ Renames(job)
  BY DEF SameTask, Renames
<1>5. \A i \in DOMAIN n : i <= k => i = k \/ i <= k - 1 BY <1>1
<1>6. \A i \in DOMAIN n : i <= k - 1 => i < k /\ i <= k BY <1>1
<1>7. n[k].to = q /\ k <= k /\ (job.kind = "copy" => Distinct(n)) BY <1>1 DEF JobInv, WellPlanned
<1> HIDE DEF n, k
<1>8. ASSUME Undisturbed(new)
      PROVE  TracksOthers(e, new)
  <2>1. TracksOthers(d, job) BY <1>4, <1>8 DEF JobInv, Undisturbed, SameTask, Tracks
  <2>2. /\ \A i \in DOMAIN n : i <= k => LiesAt(d, n[i].to) = Outcome(job, i) /\ LiesAt(job.before, n[i].to) = {}
        /\ \A x \in AllPlaces : (\A i \in DOMAIN n : i <= k => x # n[i].to) => LiesAt(d, x) = LiesAt(job.before, x)
    BY <2>1 DEF TracksOthers, n, k
  <2>3. /\ \A i : Outcome(new, i) = Outcome(job, i)
        /\ \A i \in DOMAIN n : i < k => n[i].to # q
    <3>1. \A i : Outcome(new, i) = Outcome(job, i) BY <1>4 DEF Outcome, n
    <3>2. ASSUME NEW i \in DOMAIN n, i < k
          PROVE  n[i].to # q
      <4>1. job.kind = "restore" => n[i].to # n[k].to
        BY <1>1, <1>7, <2>1, <3>2 DEF TracksOthers, n, k
      <4>2. job.kind = "copy" => n[i].to # n[k].to BY <1>1, <1>7, <3>2 DEF Distinct
      <4> QED BY <1>7, <4>1, <4>2
    <3> QED BY <3>1, <3>2
  <2>4. ASSUME NEW i \in DOMAIN n, i <= k - 1
        PROVE  LiesAt(e, n[i].to) = Outcome(new, i) /\ LiesAt(job.before, n[i].to) = {}
    <3>1. n[i].to # q /\ i <= k BY <1>6, <2>3, <2>4
    <3> QED BY <1>1, <2>2, <2>3, <3>1
  <2>5. ASSUME NEW x \in AllPlaces, \A i \in DOMAIN n : i <= k - 1 => x # n[i].to
        PROVE  LiesAt(e, x) = LiesAt(job.before, x)
    <3>1. CASE x = q BY <1>1, <1>7, <2>2, <3>1
    <3>2. CASE x # q
      <4>1. \A i \in DOMAIN n : i <= k => x # n[i].to BY <1>5, <1>7, <2>5, <3>2
      <4> QED BY <2>2, <3>2, <4>1
    <3> QED BY <3>1, <3>2
  <2>6. job.kind = "restore" => \A i, j \in DOMAIN n : i < j /\ j <= k - 1 => n[i].to # n[j].to
    BY <1>6, <2>1 DEF TracksOthers, n, k
  <2> QED BY <1>4, <2>4, <2>5, <2>6 DEF TracksOthers
<1>9. ~ Linked(new) /\ Fresh(e, new) BY <1>4 DEF Linked, Between, Fresh
<1> QED BY <1>2, <1>3, <1>4, <1>8, <1>9 DEF JobInv, Tracks

------------------------------
(* Each step keeps all of it. *)

LEMMA UseFacts ==
  ASSUME TransfersTyped, NEW what \in {"commands", "errors", "strangers"}, NEW max, Use(what, max)
  PROVE  used' \in [commands : Nat, errors : Nat, strangers : Nat] /\ used[what] < max
BY DEF TransfersTyped, Use

LEMMA OthersFacts ==
  ASSUME TransfersTyped, NEW r \in Roots, NEW places \in SUBSET AllPlaces, places # {}, NEW new,
         jobs' = [Surprised(places, r) EXCEPT ![r] = new],
         Spares(disk, disk', places)
  PROVE  Others(r, places) /\ jobs'[r] = new
<1>1. DOMAIN Surprised(places, r) = Roots BY DEF Surprised
<1>2. \A s \in Roots \ {r} : jobs'[s] = IF jobs[s] = NoTransfer THEN NoTransfer
                                        ELSE [jobs[s] EXCEPT !.surprised = @ \cup places]
  BY DEF Surprised
<1>3. DOMAIN jobs' = Roots /\ jobs' = [s \in Roots |-> jobs'[s]] /\ jobs'[r] = new BY DEF Surprised
<1> QED BY <1>2, <1>3 DEF Others, Spares

LEMMA AdvancedFacts ==
  ASSUME TransfersTyped, NEW r \in Busy, NEW places \in SUBSET AllPlaces, places # {}, Advanced(r, places),
         Spares(disk, disk', places), Rollback(jobs[r]) => jobs[r].done > 0
  PROVE  /\ Others(r, places)
         /\ ~ Rollback(jobs[r]) => GoesOn(jobs[r], jobs'[r], jobs[r].done + 1, "run", jobs[r].failed, jobs[r].partial)
         /\ Rollback(jobs[r]) => GoesOn(jobs[r], jobs'[r], jobs[r].done - 1, "back", jobs[r].failed, jobs[r].partial)
<1> DEFINE n == IF Rollback(jobs[r]) THEN jobs[r].done - 1 ELSE jobs[r].done + 1
           s == IF Rollback(jobs[r]) THEN "back" ELSE "run"
           new == [jobs[r] EXCEPT !.done = n, !.stage = s]
<1>1. r \in Roots /\ jobs[r] \in Working /\ r \in DOMAIN jobs BY DEF Busy, TransfersTyped
<1>2. Surprised(places, r)[r] = jobs[r] /\ DOMAIN Surprised(places, r) = Roots BY <1>1 DEF Surprised
<1>3. jobs' = [Surprised(places, r) EXCEPT ![r] = new]
  <2>1. jobs' = [Surprised(places, r) EXCEPT ![r].done = n, ![r].stage = s]
    BY <1>1, <1>2 DEF Advanced
  <2> QED BY <1>1, <1>2, <2>1
<1>4. Others(r, places) /\ jobs'[r] = new
  <2> HIDE DEF new
  <2> QED BY <1>1, <1>3, OthersFacts
<1>5. n \in Nat /\ s \in {"run", "back"} BY <1>1 DEF Working
<1> HIDE DEF n, s
<1>6. GoesOn(jobs[r], new, n, s, jobs[r].failed, jobs[r].partial)
  BY <1>1, <1>5 DEF Working, SameTask, GoesOn
<1> QED BY <1>4, <1>6 DEF n, s

\* A step that changes the disk and leaves the client, the records and the properties alone.
LEMMA DiskStep ==
  ASSUME TransfersInv, NEW r, NEW places, Others(r, places),
         r \in Busy' => jobs'[r] \in Working /\ JobInv(disk', jobs'[r]),
         ForestInv' \/ (r \in Busy' => ~ Linked(jobs'[r])),
         KeptInv', UNCHANGED <<clipboard, steps, faults>>, trash' \subseteq Tokens,
         used' \in [commands : Nat, errors : Nat, strangers : Nat]
  PROVE  TransfersInv'
<1>1. /\ JobsInv' /\ DOMAIN jobs' = Roots /\ jobs' = [s \in Roots |-> jobs'[s]]
      /\ \A s \in Busy' : jobs'[s] \in Working
  BY OthersJobs DEF TransfersInv
<1>2. ForestInv' BY OthersForest DEF TransfersInv
<1>3. StepsInv' BY DEF TransfersInv, StepsInv
<1>4. TransfersTyped'
  <2>1. /\ clipboard # NoTransfer => clipboard.paths \in Selections
        /\ steps \in [Roots -> [undo : Seq(Entry), redo : Seq(Entry)]]
    BY DEF TransfersInv, TransfersTyped
  <2> QED BY <1>1, <2>1 DEF TransfersTyped, Others
<1> QED BY <1>1, <1>2, <1>3, <1>4 DEF TransfersInv

LEMMA CreateStep ==
  ASSUME TransfersInv, NEW p \in Places, StrangerCreates(p)
  PROVE  TransfersInv'
<1> DEFINE token == Stranger(used.strangers + 1)
           places == {p}
<1>1. TransfersTyped /\ JobsInv /\ disk \in Disks /\ p \in AllPlaces /\ NoTransfer \notin Roots
  BY TransfersAssumption DEF TransfersInv, TransfersTyped, AllPlaces
<1>2. LiesAt(disk, p) = {} BY <1>1, ExistsFacts DEF StrangerCreates
<1>3. used' \in [commands : Nat, errors : Nat, strangers : Nat] /\ used.strangers < MaxStrangers
  BY <1>1, UseFacts DEF StrangerCreates
<1>4. token \in Tokens
  <2>1. used.strangers + 1 \in 1..MaxStrangers BY <1>1, <1>3, TransfersAssumption DEF TransfersTyped
  <2>2. token \in Strangers BY <2>1 DEF Strangers
  <2> HIDE DEF token
  <2>3. Strangers \subseteq Tokens
    <3> DEFINE own == UNION {Parts(r, b) : r \in Filled, b \in Bases}
    <3>1. Tokens = own \cup Strangers BY DEF Tokens
    <3> HIDE DEF own
    <3> QED BY <3>1
  <2> QED BY <2>2, <2>3
<1> HIDE DEF token
<1>5. disk' = Put(disk, p, {token}) /\ excused' = excused \ {token} /\ trash' = trash
      /\ UNCHANGED <<clipboard, steps, faults>>
  BY DEF StrangerCreates, clientVars, token
<1>6. disk' \in Disks /\ \A x : LiesAt(disk', x) = IF x = p THEN {token} ELSE LiesAt(disk, x)
  BY <1>1, <1>4, <1>5, PutFacts
<1>7. Others(NoTransfer, places) /\ NoTransfer \notin Busy'
  BY <1>1, <1>6 DEF StrangerCreates, Surprised, Others, Busy
<1>8. KeptInv'
  <2>1. PICK loose \in SUBSET AllPlaces : /\ \A s \in Busy : LooseFor(jobs[s], loose)
                                          /\ KeptWith(disk, trash, excused, loose)
    BY DEF TransfersInv, KeptInv
  <2>2. PICK after : after = (loose \cup {x \in AllPlaces : LiesAt(disk, x) \in {{}}}) \ {p} OBVIOUS
  <2>3. \A t \in Tokens \ excused' : t \in excused => Held(disk', trash', t, after)
    BY <1>1, <1>5, <1>6, <2>2 DEF Held
  <2>4. Keeps(NoTransfer, {p}, loose, {{}}, {p}, after)
    BY <1>2, <1>5, <1>7, <2>1, <2>2, <2>3 DEF Keeps
  <2> QED BY <1>1, <1>7, <2>4, KeptStep
<1> QED BY <1>3, <1>5, <1>7, <1>8, DiskStep DEF TransfersInv, TransfersTyped

LEMMA RemoveStep ==
  ASSUME TransfersInv, NEW p \in Places, StrangerRemoves(p)
  PROVE  TransfersInv'
<1> DEFINE places == {p}
<1>1. TransfersTyped /\ JobsInv /\ disk \in Disks /\ p \in AllPlaces /\ NoTransfer \notin Roots
  BY TransfersAssumption DEF TransfersInv, TransfersTyped, AllPlaces
<1>2. used' \in [commands : Nat, errors : Nat, strangers : Nat]
  BY <1>1, UseFacts DEF StrangerRemoves
<1>3. disk' = Put(disk, p, {}) /\ excused' = excused \cup LiesAt(disk, p) /\ trash' = trash
      /\ UNCHANGED <<clipboard, steps, faults>>
  BY DEF StrangerRemoves, clientVars
<1>4. disk' \in Disks /\ \A x : LiesAt(disk', x) = IF x = p THEN {} ELSE LiesAt(disk, x)
  BY <1>1, <1>3, PutFacts
<1>5. Others(NoTransfer, places) /\ NoTransfer \notin Busy'
  BY <1>1, <1>4 DEF StrangerRemoves, Surprised, Others, Busy
<1>6. KeptInv'
  <2>1. PICK loose \in SUBSET AllPlaces : /\ \A s \in Busy : LooseFor(jobs[s], loose)
                                          /\ KeptWith(disk, trash, excused, loose)
    BY DEF TransfersInv, KeptInv
  <2>2. PICK contents, after : /\ contents = {LiesAt(disk, p)}
                               /\ after = (loose \cup {x \in AllPlaces : LiesAt(disk, x) \in contents}) \ {}
    OBVIOUS
  <2>3. \A c \in contents : \A t \in (c \cap Tokens) \ excused' : Held(disk', trash', t, after)
    BY <1>3, <2>2
  <2>4. Keeps(NoTransfer, {p}, loose, contents, {}, after) BY <1>3, <1>5, <2>1, <2>2, <2>3 DEF Keeps
  <2> QED BY <1>1, <1>5, <2>4, KeptStep
<1> QED BY <1>2, <1>3, <1>5, <1>6, DiskStep DEF TransfersInv, TransfersTyped

LEMMA WorksFacts ==
  ASSUME TransfersInv, NEW r \in Roots, NEW stages, Works(r, stages),
         NEW p, p = Item(jobs[r]).from, NEW q, q = Item(jobs[r]).to
  PROVE  /\ TransfersTyped /\ JobsInv /\ disk \in Disks /\ trash \subseteq Tokens
         /\ used \in [commands : Nat, errors : Nat, strangers : Nat]
         /\ r \in Busy /\ jobs[r] \in Working /\ JobInv(disk, jobs[r]) /\ jobs[r].stage \in stages
         /\ AtItem(jobs[r], p, q) /\ p \in AllPlaces /\ q \in AllPlaces
         /\ Rollback(jobs[r]) => jobs[r].done > 0
<1>1. /\ TransfersTyped /\ JobsInv /\ disk \in Disks /\ trash \subseteq Tokens
      /\ used \in [commands : Nat, errors : Nat, strangers : Nat]
      /\ r \in Busy /\ jobs[r].stage \in stages
      /\ IF Rollback(jobs[r]) THEN jobs[r].done > 0 ELSE jobs[r].done < Len(jobs[r].plan)
  BY DEF TransfersInv, TransfersTyped, Works, Busy
<1>2. jobs[r] \in Working /\ JobInv(disk, jobs[r]) BY <1>1 DEF TransfersTyped, JobsInv
<1>3. AtItem(jobs[r], p, q) /\ Placed(jobs[r]) BY <1>1, <1>2 DEF JobInv, AtItem
<1>4. p \in AllPlaces /\ q \in AllPlaces BY <1>1, <1>2, <1>3, ItemFacts
<1> QED BY <1>1, <1>2, <1>3, <1>4

\* Where an item is moved to is free, or somebody else put something there.
LEMMA TargetFacts ==
  ASSUME NEW d, NEW job, NEW p, NEW q, JobInv(d, job), AtItem(job, p, q), Renames(job), job.stage \in {"run", "back"}, p # q
  PROVE  LiesAt(d, q) = {} \/ q \in job.surprised
<1>1. Fresh(d, job) /\ Placed(job) BY DEF JobInv
<1>2. CASE job.stage = "run"
  <2>1. /\ job.done + 1 \in DOMAIN job.plan /\ Item(job) = job.plan[job.done + 1] /\ job.done \in Nat
        /\ job.done + 1 > Begun(job)
    BY <1>1, <1>2, ItemFacts DEF Rollback, Begun, AtItem
  <2>2. PICK i : i = job.done + 1 OBVIOUS
  <2>3. i \in DOMAIN job.plan /\ i > Begun(job) /\ job.plan[i].from = p /\ job.plan[i].to = q
    BY <2>1, <2>2 DEF AtItem
  <2>4. Changing(job.plan[i]) BY <2>3 DEF Changing
  <2> QED BY <1>1, <1>2, <2>3, <2>4 DEF Fresh
<1>3. CASE job.stage = "back"
  <2>1. /\ job.done \in DOMAIN job.plan /\ job.done \in Nat /\ job.done <= Cleared(job)
        /\ Item(job).from = job.plan[job.done].to /\ Item(job).to = job.plan[job.done].from
    BY <1>1, <1>3, ItemFacts DEF Rollback, Cleared, AtItem
  <2> QED BY <1>1, <2>1 DEF Fresh, Changing, AtItem
<1> QED BY <1>2, <1>3

LEMMA RenameStep ==
  ASSUME TransfersInv, NEW r \in Roots, RenameItem(r)
  PROVE  TransfersInv'
<1>0. /\ Works(r, {"run", "back"}) /\ Renames(jobs[r])
      /\ UNCHANGED <<trash, clipboard, steps, used, faults>>
  BY DEF RenameItem, Renames, clientVars
<1>1. PICK p, q : p = Item(jobs[r]).from /\ q = Item(jobs[r]).to OBVIOUS
<1>2. /\ TransfersTyped /\ JobsInv /\ disk \in Disks /\ trash \subseteq Tokens
      /\ used \in [commands : Nat, errors : Nat, strangers : Nat]
      /\ r \in Busy /\ jobs[r] \in Working /\ JobInv(disk, jobs[r]) /\ jobs[r].stage \in {"run", "back"}
      /\ AtItem(jobs[r], p, q) /\ p \in AllPlaces /\ q \in AllPlaces
      /\ Rollback(jobs[r]) => jobs[r].done > 0
  BY <1>0, <1>1, WorksFacts
<1>3. /\ p # q => LiesAt(disk, p) # {}
      /\ disk' = IF p = q THEN disk ELSE Put(Put(disk, p, {}), q, LiesAt(disk, p))
      /\ excused' = IF p = q THEN excused ELSE excused \cup Lost(r, q)
      /\ Advanced(r, {p, q})
  BY <1>1, <1>2, ExistsFacts DEF RenameItem
<1>4. Renamed(disk, disk', p, q)
  <2>1. LiesAt(disk, p) \in SUBSET Tokens BY <1>2, LiesAtFacts
  <2>2. CASE p = q BY <1>2, <1>3, <2>2 DEF Renamed
  <2>3. CASE p # q
    <3>1. PICK e : e = Put(disk, p, {}) OBVIOUS
    <3>2. e \in Disks /\ \A x : LiesAt(e, x) = IF x = p THEN {} ELSE LiesAt(disk, x)
      BY <1>2, <3>1, PutFacts
    <3>3. disk' = Put(e, q, LiesAt(disk, p)) BY <1>3, <2>3, <3>1
    <3>4. disk' \in Disks /\ \A x : LiesAt(disk', x) = IF x = q THEN LiesAt(disk, p) ELSE LiesAt(e, x)
      BY <1>2, <2>1, <3>2, <3>3, PutFacts
    <3> QED BY <1>2, <1>3, <2>3, <3>2, <3>4 DEF Renamed
  <2> QED BY <2>2, <2>3
<1>5. {p, q} \in SUBSET AllPlaces /\ {p, q} # {} /\ Spares(disk, disk', {p, q})
  BY <1>2, <1>4 DEF Renamed, Spares
<1>6. /\ Others(r, {p, q})
      /\ ~ Rollback(jobs[r]) => GoesOn(jobs[r], jobs'[r], jobs[r].done + 1, "run", jobs[r].failed, jobs[r].partial)
      /\ Rollback(jobs[r]) => GoesOn(jobs[r], jobs'[r], jobs[r].done - 1, "back", jobs[r].failed, jobs[r].partial)
  BY <1>2, <1>3, <1>5, AdvancedFacts
<1>7. /\ jobs'[r] \in Working /\ JobInv(disk', jobs'[r])
      /\ jobs'[r].stage \in {"run", "back"} /\ jobs'[r].kind = jobs[r].kind
  <2>1. CASE jobs[r].stage = "run"
    <3>1. GoesOn(jobs[r], jobs'[r], jobs[r].done + 1, "run", jobs[r].failed, jobs[r].partial)
      BY <1>6, <2>1 DEF Rollback
    <3>2. JobInv(disk', jobs'[r]) BY <1>0, <1>2, <1>4, <2>1, <3>1, RenameForward
    <3> QED BY <3>1, <3>2 DEF GoesOn, SameTask
  <2>2. CASE jobs[r].stage = "back"
    <3>1. GoesOn(jobs[r], jobs'[r], jobs[r].done - 1, "back", jobs[r].failed, jobs[r].partial)
      BY <1>6, <2>2 DEF Rollback
    <3>2. JobInv(disk', jobs'[r]) BY <1>0, <1>2, <1>4, <2>2, <3>1, RenameBack
    <3> QED BY <3>1, <3>2 DEF GoesOn, SameTask
  <2> QED BY <1>2, <2>1, <2>2
<1>8. Made(jobs'[r]) = {} /\ ~ Between(jobs'[r]) /\ ~ Linked(jobs'[r])
  BY <1>0, <1>7 DEF Made, Between, Linked, Renames
<1>9. KeptInv'
  <2>1. PICK loose \in SUBSET AllPlaces : /\ \A s \in Busy : LooseFor(jobs[s], loose)
                                          /\ KeptWith(disk, trash, excused, loose)
    BY DEF TransfersInv, KeptInv
  <2>2. PICK contents, after : /\ contents = {LiesAt(disk, p), LiesAt(disk, q)}
                               /\ after = (loose \cup {x \in AllPlaces : LiesAt(disk, x) \in contents}) \ {q}
    OBVIOUS
  <2>3. LooseFor(jobs'[r], after) BY <1>8 DEF LooseFor
  <2>4. excused \subseteq excused' BY <1>3
  <2>5. \A t \in LiesAt(disk, p) : Held(disk', trash', t, after)
    BY <1>2, <1>4, <2>2 DEF Held, Renamed
  <2>6. p # q => LiesAt(disk, q) \subseteq excused' BY <1>0, <1>2, <1>3, TargetFacts DEF Lost
  <2>7. Keeps(r, {p, q}, loose, contents, {q}, after)
    BY <1>0, <2>1, <2>2, <2>3, <2>4, <2>5, <2>6 DEF Keeps
  <2> QED BY <1>2, <1>6, <2>7, KeptStep
<1> QED BY <1>0, <1>2, <1>6, <1>7, <1>8, <1>9, DiskStep

LEMMA PutAtFacts ==
  ASSUME NEW d \in Disks, NEW q \in AllPlaces, NEW item \in SUBSET Tokens, NEW e, e = Put(d, q, item)
  PROVE  PutAt(d, e, q, item) /\ e \in Disks
BY PutFacts DEF PutAt, Spares

\* What a command will take away again if it fails grows and shrinks with the items done.
LEMMA MadeFacts ==
  ASSUME NEW job, NEW new, NEW p, NEW q, AtItem(job, p, q), NEW d, JobInv(d, job),
         NEW n, NEW stage, NEW fails, NEW part, GoesOn(job, new, n, stage, fails, part)
  PROVE  /\ ~ Rollback(job) /\ n = job.done + 1 => Made(new) \subseteq Made(job) \cup {q}
         /\ n \in Nat /\ n <= job.done => Made(new) \subseteq Made(job)
<1>1. /\ job.done \in Nat /\ job \in Working /\ Placed(job)
      /\ IF Rollback(job) THEN job.done > 0 ELSE job.done < Len(job.plan)
  BY DEF AtItem, Working, JobInv
<1>2. new.plan = job.plan /\ new.kind = job.kind /\ new.surprised = job.surprised /\ new.done = n
  BY DEF GoesOn, SameTask
<1>3. ~ Rollback(job) => q = job.plan[job.done + 1].to BY <1>1, ItemFacts DEF AtItem
<1>5. ASSUME ~ Rollback(job), n = job.done + 1
      PROVE  Made(new) \subseteq Made(job) \cup {q}
  <2>1. \A i \in 1..n : i \in 1..job.done \/ i = job.done + 1 BY <1>1, <1>5
  <2> QED BY <1>2, <1>3, <1>5, <2>1 DEF Made
<1>6. ASSUME n \in Nat, n <= job.done
      PROVE  Made(new) \subseteq Made(job)
  <2>1. \A i \in 1..n : i \in 1..job.done BY <1>1, <1>6
  <2> QED BY <1>2, <2>1 DEF Made
<1> QED BY <1>5, <1>6

LEMMA MadeItem ==
  ASSUME NEW job, NEW p, NEW q, AtItem(job, p, q), NEW d, JobInv(d, job),
         job.kind \in {"copy", "restore"}, Rollback(job), p \notin job.surprised
  PROVE  p \in Made(job)
<1>1. job.done \in Nat /\ job \in Working /\ Placed(job) /\ job.done > 0
  BY DEF AtItem, Working, JobInv
<1>2. p = job.plan[job.done].to /\ job.done \in 1..job.done BY <1>1, ItemFacts DEF AtItem
<1> QED BY <1>2 DEF Made

LEMMA CopyStep ==
  ASSUME TransfersInv, NEW r \in Roots, CopyItem(r)
  PROVE  TransfersInv'
<1>0. /\ Works(r, {"run"}) /\ jobs[r].kind = "copy" /\ ~ Renames(jobs[r])
      /\ UNCHANGED <<trash, clipboard, steps, used, excused, faults>>
  BY DEF CopyItem, Renames, clientVars
<1>1. PICK p, q : p = Item(jobs[r]).from /\ q = Item(jobs[r]).to OBVIOUS
<1>2. /\ TransfersTyped /\ JobsInv /\ disk \in Disks /\ trash \subseteq Tokens
      /\ used \in [commands : Nat, errors : Nat, strangers : Nat]
      /\ r \in Busy /\ jobs[r] \in Working /\ JobInv(disk, jobs[r]) /\ jobs[r].stage \in {"run"}
      /\ AtItem(jobs[r], p, q) /\ p \in AllPlaces /\ q \in AllPlaces
      /\ Rollback(jobs[r]) => jobs[r].done > 0
  BY <1>0, <1>1, WorksFacts
<1>3. PICK item \in SUBSET Tokens : item = LiesAt(disk, p) BY <1>2, LiesAtFacts
<1>4. LiesAt(disk, q) = {} /\ Advanced(r, {q}) /\ disk' = Put(disk, q, item)
  BY <1>1, <1>2, <1>3, ExistsFacts DEF CopyItem
<1>5. PutAt(disk, disk', q, item) /\ disk' \in Disks BY <1>2, <1>4, PutAtFacts
<1>6. {q} \in SUBSET AllPlaces /\ {q} # {} /\ Spares(disk, disk', {q}) BY <1>2, <1>5 DEF PutAt
<1>7. Others(r, {q}) /\ GoesOn(jobs[r], jobs'[r], jobs[r].done + 1, "run", jobs[r].failed, jobs[r].partial)
  BY <1>2, <1>4, <1>6, AdvancedFacts DEF Rollback
<1>8. /\ jobs'[r] \in Working /\ JobInv(disk', jobs'[r]) /\ ~ Between(jobs'[r]) /\ ~ Linked(jobs'[r])
  <2>1. item = CASE jobs[r].kind = "copy" -> LiesAt(disk, p)
                 [] jobs[r].kind = "trash" -> {}
                 [] jobs[r].kind = "restore" -> LiesAt(jobs[r].entry.before, q)
    BY <1>0, <1>3
  <2>2. JobInv(disk', jobs'[r]) BY <1>0, <1>2, <1>4, <1>5, <1>7, <2>1, PlaceForward
  <2> QED BY <1>7, <2>2 DEF GoesOn, Between, Linked
<1>9. KeptInv'
  <2>1. PICK loose \in SUBSET AllPlaces : /\ \A s \in Busy : LooseFor(jobs[s], loose)
                                          /\ KeptWith(disk, trash, excused, loose)
    BY DEF TransfersInv, KeptInv
  <2>2. PICK after : after = (loose \cup {x \in AllPlaces : LiesAt(disk, x) \in {{}}}) \ {} OBVIOUS
  <2>3. Made(jobs'[r]) \subseteq Made(jobs[r]) \cup {q} BY <1>2, <1>7, MadeFacts DEF Rollback
  <2>4. LooseFor(jobs'[r], after) BY <1>2, <1>4, <1>8, <2>1, <2>2, <2>3 DEF LooseFor
  <2>5. Keeps(r, {q}, loose, {{}}, {}, after) BY <1>0, <1>4, <2>1, <2>2, <2>4 DEF Keeps
  <2> QED BY <1>2, <1>7, <2>5, KeptStep
<1> QED BY <1>0, <1>2, <1>7, <1>8, <1>9, DiskStep

LEMMA RestoreStep ==
  ASSUME TransfersInv, NEW r \in Roots, RestoreItem(r)
  PROVE  TransfersInv'
<1>0. /\ Works(r, {"run"}) /\ jobs[r].kind = "restore" /\ ~ Renames(jobs[r])
      /\ UNCHANGED <<trash, clipboard, steps, used, excused, faults>>
  BY DEF RestoreItem, Renames, clientVars
<1>1. PICK p, q : p = Item(jobs[r]).from /\ q = Item(jobs[r]).to OBVIOUS
<1>2. /\ TransfersTyped /\ JobsInv /\ disk \in Disks /\ trash \subseteq Tokens
      /\ used \in [commands : Nat, errors : Nat, strangers : Nat]
      /\ r \in Busy /\ jobs[r] \in Working /\ JobInv(disk, jobs[r]) /\ jobs[r].stage \in {"run"}
      /\ AtItem(jobs[r], p, q) /\ p \in AllPlaces /\ q \in AllPlaces
      /\ Rollback(jobs[r]) => jobs[r].done > 0
  BY <1>0, <1>1, WorksFacts
<1>3. PICK item \in SUBSET Tokens : item = LiesAt(jobs[r].entry.before, q)
  <2>1. EntryInv(jobs[r].entry) BY <1>0, <1>2, RestoredFacts DEF JobInv
  <2>2. jobs[r].entry.before \in Disks BY <2>1 DEF EntryInv, Entry
  <2> QED BY <2>2, LiesAtFacts
<1>4. LiesAt(disk, q) = {} /\ Advanced(r, {q}) /\ disk' = Put(disk, q, item)
  BY <1>1, <1>2, <1>3, ExistsFacts DEF RestoreItem
<1>5. PutAt(disk, disk', q, item) /\ disk' \in Disks BY <1>2, <1>4, PutAtFacts
<1>6. {q} \in SUBSET AllPlaces /\ {q} # {} /\ Spares(disk, disk', {q}) BY <1>2, <1>5 DEF PutAt
<1>7. Others(r, {q}) /\ GoesOn(jobs[r], jobs'[r], jobs[r].done + 1, "run", jobs[r].failed, jobs[r].partial)
  BY <1>2, <1>4, <1>6, AdvancedFacts DEF Rollback
<1>8. /\ jobs'[r] \in Working /\ JobInv(disk', jobs'[r]) /\ ~ Between(jobs'[r]) /\ ~ Linked(jobs'[r])
  <2>1. item = CASE jobs[r].kind = "copy" -> LiesAt(disk, p)
                 [] jobs[r].kind = "trash" -> {}
                 [] jobs[r].kind = "restore" -> LiesAt(jobs[r].entry.before, q)
    BY <1>0, <1>3
  <2>2. JobInv(disk', jobs'[r]) BY <1>0, <1>2, <1>4, <1>5, <1>7, <2>1, PlaceForward
  <2> QED BY <1>7, <2>2 DEF GoesOn, Between, Linked
<1>9. KeptInv'
  <2>1. PICK loose \in SUBSET AllPlaces : /\ \A s \in Busy : LooseFor(jobs[s], loose)
                                          /\ KeptWith(disk, trash, excused, loose)
    BY DEF TransfersInv, KeptInv
  <2>2. PICK after : after = (loose \cup {x \in AllPlaces : LiesAt(disk, x) \in {{}}}) \ {} OBVIOUS
  <2>3. Made(jobs'[r]) \subseteq Made(jobs[r]) \cup {q} BY <1>2, <1>7, MadeFacts DEF Rollback
  <2>4. LooseFor(jobs'[r], after) BY <1>2, <1>4, <1>8, <2>1, <2>2, <2>3 DEF LooseFor
  <2>5. Keeps(r, {q}, loose, {{}}, {}, after) BY <1>0, <1>4, <2>1, <2>2, <2>4 DEF Keeps
  <2> QED BY <1>2, <1>7, <2>5, KeptStep
<1> QED BY <1>0, <1>2, <1>7, <1>8, <1>9, DiskStep

LEMMA TrashStep ==
  ASSUME TransfersInv, NEW r \in Roots, TrashItem(r)
  PROVE  TransfersInv'
<1>0. /\ Works(r, {"run"}) /\ jobs[r].kind = "trash" /\ ~ Renames(jobs[r])
      /\ UNCHANGED <<clipboard, steps, used, excused, faults>>
  BY DEF TrashItem, Renames, clientVars
<1>1. PICK p, q : p = Item(jobs[r]).from /\ q = Item(jobs[r]).to OBVIOUS
<1>2. /\ TransfersTyped /\ JobsInv /\ disk \in Disks /\ trash \subseteq Tokens
      /\ used \in [commands : Nat, errors : Nat, strangers : Nat]
      /\ r \in Busy /\ jobs[r] \in Working /\ JobInv(disk, jobs[r]) /\ jobs[r].stage \in {"run"}
      /\ AtItem(jobs[r], p, q) /\ p \in AllPlaces /\ q \in AllPlaces
      /\ Rollback(jobs[r]) => jobs[r].done > 0
  BY <1>0, <1>1, WorksFacts
<1>3. p = q
  <2>1. WellPlanned(jobs[r]) /\ Placed(jobs[r]) BY <1>2 DEF JobInv
  <2>2. jobs[r].done + 1 \in DOMAIN jobs[r].plan /\ Item(jobs[r]) = jobs[r].plan[jobs[r].done + 1]
    BY <1>2, <2>1, ItemFacts DEF AtItem, Rollback
  <2> QED BY <1>0, <1>1, <2>1, <2>2 DEF WellPlanned, InPlace
<1>4. Advanced(r, {q}) /\ disk' = Put(disk, q, {}) /\ trash' = trash \cup LiesAt(disk, q)
  BY <1>1, <1>3 DEF TrashItem
<1>5. PutAt(disk, disk', q, {}) /\ disk' \in Disks BY <1>2, <1>4, PutAtFacts
<1>6. {q} \in SUBSET AllPlaces /\ {q} # {} /\ Spares(disk, disk', {q}) /\ trash' \subseteq Tokens
  BY <1>2, <1>4, <1>5, LiesAtFacts DEF PutAt
<1>7. Others(r, {q}) /\ GoesOn(jobs[r], jobs'[r], jobs[r].done + 1, "run", jobs[r].failed, jobs[r].partial)
  BY <1>2, <1>4, <1>6, AdvancedFacts DEF Rollback
<1>8. /\ jobs'[r] \in Working /\ JobInv(disk', jobs'[r])
      /\ Made(jobs'[r]) = {} /\ ~ Between(jobs'[r]) /\ ~ Linked(jobs'[r])
  <2>1. PICK item : item = CASE jobs[r].kind = "copy" -> LiesAt(disk, p)
                             [] jobs[r].kind = "trash" -> {}
                             [] jobs[r].kind = "restore" -> LiesAt(jobs[r].entry.before, q)
    OBVIOUS
  <2>2. PutAt(disk, disk', q, item) BY <1>0, <1>5, <2>1
  <2>3. JobInv(disk', jobs'[r]) BY <1>0, <1>2, <1>7, <2>1, <2>2, PlaceForward
  <2> QED BY <1>0, <1>7, <2>3 DEF GoesOn, SameTask, Between, Linked, Made
<1>9. KeptInv'
  <2>1. PICK loose \in SUBSET AllPlaces : /\ \A s \in Busy : LooseFor(jobs[s], loose)
                                          /\ KeptWith(disk, trash, excused, loose)
    BY DEF TransfersInv, KeptInv
  <2>2. PICK contents, after : /\ contents = {LiesAt(disk, q)}
                               /\ after = (loose \cup {x \in AllPlaces : LiesAt(disk, x) \in contents}) \ {}
    OBVIOUS
  <2>3. LooseFor(jobs'[r], after) BY <1>8 DEF LooseFor
  <2>4. \A t \in LiesAt(disk, q) : Held(disk', trash', t, after) BY <1>4 DEF Held
  <2>5. Keeps(r, {q}, loose, contents, {}, after) BY <1>0, <1>4, <2>1, <2>2, <2>3, <2>4 DEF Keeps
  <2> QED BY <1>2, <1>7, <2>5, KeptStep
<1> QED BY <1>0, <1>2, <1>6, <1>7, <1>8, <1>9, DiskStep

LEMMA RemoveMadeStep ==
  ASSUME TransfersInv, NEW r \in Roots, RemoveMade(r)
  PROVE  TransfersInv'
<1>0. /\ Works(r, {"back"}) /\ jobs[r].kind \in {"copy", "restore"}
      /\ UNCHANGED <<trash, clipboard, steps, used, faults>>
  BY DEF RemoveMade, clientVars
<1>1. PICK p, q : p = Item(jobs[r]).from /\ q = Item(jobs[r]).to OBVIOUS
<1>2. /\ TransfersTyped /\ JobsInv /\ disk \in Disks /\ trash \subseteq Tokens
      /\ used \in [commands : Nat, errors : Nat, strangers : Nat]
      /\ r \in Busy /\ jobs[r] \in Working /\ JobInv(disk, jobs[r]) /\ jobs[r].stage \in {"back"}
      /\ AtItem(jobs[r], p, q) /\ p \in AllPlaces /\ q \in AllPlaces
      /\ Rollback(jobs[r]) => jobs[r].done > 0
  BY <1>0, <1>1, WorksFacts
<1>3. Rollback(jobs[r]) /\ jobs[r].stage = "back" BY <1>2 DEF Rollback
<1>4. Advanced(r, {p}) /\ disk' = Put(disk, p, {}) /\ excused' = excused \cup Lost(r, p)
  BY <1>1 DEF RemoveMade
<1>5. PutAt(disk, disk', p, {}) /\ disk' \in Disks BY <1>2, <1>4, PutAtFacts
<1>6. {p} \in SUBSET AllPlaces /\ {p} # {} /\ Spares(disk, disk', {p}) BY <1>2, <1>5 DEF PutAt
<1>7. Others(r, {p}) /\ GoesOn(jobs[r], jobs'[r], jobs[r].done - 1, "back", jobs[r].failed, jobs[r].partial)
  BY <1>2, <1>3, <1>4, <1>6, AdvancedFacts
<1>8. jobs'[r] \in Working /\ JobInv(disk', jobs'[r]) /\ ~ Between(jobs'[r]) /\ ~ Linked(jobs'[r])
  <2>1. JobInv(disk', jobs'[r]) BY <1>0, <1>2, <1>3, <1>5, <1>7, MadeBack
  <2> QED BY <1>7, <2>1 DEF GoesOn, Between, Linked
<1>9. KeptInv'
  <2>1. PICK loose \in SUBSET AllPlaces : /\ \A s \in Busy : LooseFor(jobs[s], loose)
                                          /\ KeptWith(disk, trash, excused, loose)
    BY DEF TransfersInv, KeptInv
  <2>2. PICK contents, after : /\ contents = (IF p \in jobs[r].surprised THEN {LiesAt(disk, p)} ELSE {})
                               /\ after = (loose \cup {x \in AllPlaces : LiesAt(disk, x) \in contents}) \ {}
    OBVIOUS
  <2>3. /\ Made(jobs'[r]) \subseteq Made(jobs[r]) /\ Made(jobs[r]) \subseteq loose
        /\ p \notin jobs[r].surprised => p \in Made(jobs[r])
    <3>0. jobs[r].done \in Nat /\ jobs[r].done > 0 BY <1>2, <1>3 DEF Working
    <3>1. PICK n : n = jobs[r].done - 1 OBVIOUS
    <3>a. n \in Nat /\ n <= jobs[r].done
      BY <3>0, <3>1
    <3>2. GoesOn(jobs[r], jobs'[r], n, "back", jobs[r].failed, jobs[r].partial) BY <1>7, <3>1
    <3>3. Made(jobs'[r]) \subseteq Made(jobs[r]) BY <1>2, <3>a, <3>2, MadeFacts
    <3>4. jobs[r].kind \in {"copy", "restore"} /\ Rollback(jobs[r]) /\ p \notin jobs[r].surprised => p \in Made(jobs[r])
      BY <1>2, MadeItem
    <3> QED BY <1>0, <1>2, <1>3, <2>1, <3>3, <3>4 DEF LooseFor
  <2>4. LooseFor(jobs'[r], after) BY <1>8, <2>1, <2>2, <2>3 DEF LooseFor
  <2>5. /\ p \in jobs[r].surprised => LiesAt(disk, p) \subseteq excused'
        /\ excused \subseteq excused'
    BY <1>4 DEF Lost
  <2>6. Keeps(r, {p}, loose, contents, {}, after) BY <1>0, <2>1, <2>2, <2>3, <2>4, <2>5 DEF Keeps
  <2> QED BY <1>2, <1>7, <2>6, KeptStep
<1> QED BY <1>0, <1>2, <1>7, <1>8, <1>9, DiskStep

\* A link that a command makes is the only one at the place it copies to.
LEMMA LinkForest ==
  ASSUME TransfersTyped, JobsInv, ForestInv, NEW r \in Roots, NEW p \in AllPlaces, NEW q \in AllPlaces, p # q,
         Others(r, {q}), Source(jobs'[r]) = p, Target(jobs'[r]) = q
  PROVE  ForestInv'
<1>1. ASSUME NEW s \in Busy', s # r, Linked(jobs'[s])
      PROVE  /\ s \in Busy \ {r} /\ Linked(jobs[s])
             /\ Source(jobs'[s]) = Source(jobs[s]) /\ Target(jobs'[s]) = Target(jobs[s])
             /\ Source(jobs'[s]) # q /\ Target(jobs'[s]) # q
  <2>1. s \in Busy BY <1>1, BusyOthers
  <2>2. /\ jobs'[s].surprised = jobs[s].surprised \cup {q} /\ Between(jobs'[s]) = Between(jobs[s])
        /\ Source(jobs'[s]) = Source(jobs[s]) /\ Target(jobs'[s]) = Target(jobs[s])
    BY <1>1, <2>1, OtherJob
  <2> QED BY <1>1, <2>1, <2>2 DEF Linked
<1>2. ASSUME NEW s \in Busy', Linked(jobs'[s])
      PROVE  \E side \in SUBSET AllPlaces :
               /\ Source(jobs'[s]) \notin side /\ Target(jobs'[s]) \in side
               /\ \A o \in Busy' \ {s} : Linked(jobs'[o]) => (Source(jobs'[o]) \in side <=> Target(jobs'[o]) \in side)
  <2>1. CASE s = r
    <3>1. {q} \in SUBSET AllPlaces /\ p \notin {q} OBVIOUS
    <3>2. \A o \in Busy' \ {s} : Linked(jobs'[o]) => (Source(jobs'[o]) \in {q} <=> Target(jobs'[o]) \in {q})
      BY <1>1, <2>1
    <3> QED BY <2>1, <3>1, <3>2
  <2>2. CASE s # r
    <3>1. PICK old \in SUBSET AllPlaces :
             /\ Source(jobs[s]) \notin old /\ Target(jobs[s]) \in old
             /\ \A o \in Busy \ {s} : Linked(jobs[o]) => (Source(jobs[o]) \in old <=> Target(jobs[o]) \in old)
      BY <1>1, <1>2, <2>2 DEF ForestInv
    <3>2. PICK side \in SUBSET AllPlaces : side = (IF p \in old THEN old \cup {q} ELSE old \ {q})
      OBVIOUS
    <3>3. Source(jobs'[s]) \notin side /\ Target(jobs'[s]) \in side BY <1>1, <1>2, <2>2, <3>1, <3>2
    <3>4. ASSUME NEW o \in Busy' \ {s}, Linked(jobs'[o])
          PROVE  Source(jobs'[o]) \in side <=> Target(jobs'[o]) \in side
      <4>1. CASE o = r BY <3>2, <4>1
      <4>2. CASE o # r BY <1>1, <3>1, <3>2, <3>4, <4>2
      <4> QED BY <4>1, <4>2
    <3> QED BY <3>3, <3>4
  <2> QED BY <2>1, <2>2
<1> QED BY <1>2 DEF ForestInv, AllPlaces, Places

LEMMA CopyAcrossStep ==
  ASSUME TransfersInv, NEW r \in Roots, CopyAcross(r)
  PROVE  TransfersInv'
<1>0. /\ Works(r, {"run", "back"}) /\ jobs[r].kind = "move"
      /\ UNCHANGED <<trash, clipboard, steps, used, excused, faults>>
  BY DEF CopyAcross, clientVars
<1>1. PICK p, q : p = Item(jobs[r]).from /\ q = Item(jobs[r]).to OBVIOUS
<1>2. /\ TransfersTyped /\ JobsInv /\ disk \in Disks /\ trash \subseteq Tokens
      /\ used \in [commands : Nat, errors : Nat, strangers : Nat]
      /\ r \in Busy /\ jobs[r] \in Working /\ JobInv(disk, jobs[r]) /\ jobs[r].stage \in {"run", "back"}
      /\ AtItem(jobs[r], p, q) /\ p \in AllPlaces /\ q \in AllPlaces
      /\ Rollback(jobs[r]) => jobs[r].done > 0
  BY <1>0, <1>1, WorksFacts
<1>3. PICK item \in SUBSET Tokens : item = LiesAt(disk, p) BY <1>2, LiesAtFacts
<1>4. /\ p # q /\ item # {} /\ LiesAt(disk, q) = {} /\ disk' = Put(disk, q, item)
      /\ jobs' = [Surprised({q}, r) EXCEPT ![r].stage = IF Rollback(jobs[r]) THEN "copiedBack" ELSE "copied"]
  BY <1>1, <1>2, <1>3, ExistsFacts DEF CopyAcross
<1>5. PutAt(disk, disk', q, item) /\ disk' \in Disks BY <1>2, <1>4, PutAtFacts
<1>6. {q} \in SUBSET AllPlaces /\ {q} # {} /\ Spares(disk, disk', {q}) BY <1>2, <1>5 DEF PutAt
<1>7. PICK stage : stage = IF Rollback(jobs[r]) THEN "copiedBack" ELSE "copied" OBVIOUS
<1>8. Others(r, {q}) /\ GoesOn(jobs[r], jobs'[r], jobs[r].done, stage, jobs[r].failed, jobs[r].partial)
  <2> DEFINE new == [jobs[r] EXCEPT !.stage = stage]
  <2>1. Surprised({q}, r)[r] = jobs[r] /\ DOMAIN Surprised({q}, r) = Roots BY <1>2 DEF Surprised
  <2>2. jobs' = [Surprised({q}, r) EXCEPT ![r] = new] BY <1>4, <1>7, <2>1
  <2>3. GoesOn(jobs[r], new, jobs[r].done, stage, jobs[r].failed, jobs[r].partial)
    BY <1>2, <1>7 DEF Working, SameTask, GoesOn
  <2> HIDE DEF new
  <2>4. Others(r, {q}) /\ jobs'[r] = new BY <1>2, <1>6, <2>2, OthersFacts
  <2> QED BY <2>3, <2>4
<1>9. jobs'[r] \in Working /\ JobInv(disk', jobs'[r])
  <2>1. CASE jobs[r].stage = "run"
    <3>1. stage = "copied" BY <1>7, <2>1 DEF Rollback
    <3>2. GoesOn(jobs[r], jobs'[r], jobs[r].done, "copied", jobs[r].failed, jobs[r].partial)
      BY <1>8, <3>1
    <3>3. PutAt(disk, disk', q, LiesAt(disk, p)) BY <1>3, <1>5
    <3>4. JobInv(disk', jobs'[r]) BY <1>0, <1>2, <1>4, <2>1, <3>2, <3>3, AcrossForward
    <3> QED BY <1>8, <3>4 DEF GoesOn
  <2>2. CASE jobs[r].stage = "back"
    <3>1. stage = "copiedBack" BY <1>7, <2>2 DEF Rollback
    <3>2. GoesOn(jobs[r], jobs'[r], jobs[r].done, "copiedBack", jobs[r].failed, jobs[r].partial)
      BY <1>8, <3>1
    <3>3. PutAt(disk, disk', q, LiesAt(disk, p)) BY <1>3, <1>5
    <3>4. JobInv(disk', jobs'[r]) BY <1>0, <1>2, <1>4, <2>2, <3>2, <3>3, AcrossBack
    <3> QED BY <1>8, <3>4 DEF GoesOn
  <2> QED BY <1>2, <2>1, <2>2
<1>10. Source(jobs'[r]) = p /\ Target(jobs'[r]) = q /\ Made(jobs'[r]) = {} /\ jobs'[r].surprised = jobs[r].surprised
  <2>1. Rollback(jobs'[r]) <=> Rollback(jobs[r]) BY <1>2, <1>7, <1>8 DEF GoesOn, Rollback
  <2>2. Item(jobs'[r]) = Item(jobs[r]) BY <1>8, <2>1 DEF GoesOn, SameTask, Item
  <2> QED BY <1>0, <1>1, <1>8, <2>2 DEF Source, Target, Made, GoesOn, SameTask
<1>11. ForestInv' BY <1>2, <1>4, <1>8, <1>10, LinkForest DEF TransfersInv
<1>12. KeptInv'
  <2>1. PICK loose \in SUBSET AllPlaces : /\ \A s \in Busy : LooseFor(jobs[s], loose)
                                          /\ KeptWith(disk, trash, excused, loose)
    BY DEF TransfersInv, KeptInv
  <2>2. CASE q \in jobs[r].surprised /\ p \notin jobs[r].surprised
    <3>1. PICK contents, after : /\ contents = {{}, item}
                                 /\ after = (loose \cup {x \in AllPlaces : LiesAt(disk, x) \in contents}) \ {q}
      OBVIOUS
    <3>2. p \in after BY <1>2, <1>3, <1>4, <3>1
    <3>3. LooseFor(jobs'[r], after) BY <1>10, <2>2, <3>2 DEF LooseFor, Linked
    <3>4. \A t \in item : Held(disk', trash', t, after) BY <1>2, <1>5, <3>1 DEF Held, PutAt
    <3>5. Keeps(r, {q}, loose, contents, {q}, after) BY <1>0, <1>4, <2>1, <3>1, <3>3, <3>4 DEF Keeps
    <3> QED BY <1>2, <1>8, <3>5, KeptStep
  <2>3. CASE ~ (q \in jobs[r].surprised /\ p \notin jobs[r].surprised)
    <3>1. PICK contents, freed, after :
             /\ contents = {{}} /\ freed = (IF p \notin jobs[r].surprised /\ p \notin loose THEN {q} ELSE {})
             /\ after = (loose \cup {x \in AllPlaces : LiesAt(disk, x) \in contents}) \ freed
      OBVIOUS
    <3>2. /\ q \in after <=> q \notin freed
          /\ p \in after <=> p \in loose
      BY <1>2, <1>3, <1>4, <3>1
    <3>3. LooseFor(jobs'[r], after) BY <1>10, <2>3, <3>1, <3>2 DEF LooseFor, Linked
    <3>4. Keeps(r, {q}, loose, contents, freed, after) BY <1>0, <1>4, <2>1, <3>1, <3>3 DEF Keeps
    <3> QED BY <1>2, <1>8, <3>4, KeptStep
  <2> QED BY <2>2, <2>3
<1> QED BY <1>0, <1>2, <1>8, <1>9, <1>11, <1>12, DiskStep

\* The source of what is at both places: whoever disturbed it, what was there is kept.
LEMMA RemoveSourceStep ==
  ASSUME TransfersInv, NEW r \in Roots, RemoveSource(r)
  PROVE  TransfersInv'
<1>0. /\ Works(r, {"copied", "copiedBack"})
      /\ UNCHANGED <<trash, clipboard, steps, used, faults>>
  BY DEF RemoveSource, clientVars
<1>1. PICK p, q : p = Item(jobs[r]).from /\ q = Item(jobs[r]).to OBVIOUS
<1>2. /\ TransfersTyped /\ JobsInv /\ disk \in Disks /\ trash \subseteq Tokens
      /\ used \in [commands : Nat, errors : Nat, strangers : Nat]
      /\ r \in Busy /\ jobs[r] \in Working /\ JobInv(disk, jobs[r]) /\ jobs[r].stage \in {"copied", "copiedBack"}
      /\ AtItem(jobs[r], p, q) /\ p \in AllPlaces /\ q \in AllPlaces
      /\ Rollback(jobs[r]) => jobs[r].done > 0
  BY <1>0, <1>1, WorksFacts
<1>3. /\ Between(jobs[r]) /\ p = Source(jobs[r]) /\ q = Target(jobs[r]) /\ p # q /\ jobs[r].kind = "move"
  <2>1. Between(jobs[r]) /\ p = Source(jobs[r]) /\ q = Target(jobs[r])
    BY <1>1, <1>2 DEF Between, Source, Target
  <2> QED BY <1>2, <2>1, BetweenFacts
<1>4. /\ LiesAt(disk, p) # {} /\ Advanced(r, {p}) /\ disk' = Put(disk, p, {}) /\ excused' = excused \cup Lost(r, p)
  BY <1>1, <1>2, ExistsFacts DEF RemoveSource
<1>5. PutAt(disk, disk', p, {}) /\ disk' \in Disks BY <1>2, <1>4, PutAtFacts
<1>6. {p} \in SUBSET AllPlaces /\ {p} # {} /\ Spares(disk, disk', {p}) BY <1>2, <1>5 DEF PutAt
<1>7. /\ Others(r, {p})
      /\ ~ Rollback(jobs[r]) => GoesOn(jobs[r], jobs'[r], jobs[r].done + 1, "run", jobs[r].failed, jobs[r].partial)
      /\ Rollback(jobs[r]) => GoesOn(jobs[r], jobs'[r], jobs[r].done - 1, "back", jobs[r].failed, jobs[r].partial)
  BY <1>2, <1>4, <1>6, AdvancedFacts
<1>8. /\ jobs'[r] \in Working /\ JobInv(disk', jobs'[r])
      /\ jobs'[r].stage \in {"run", "back"} /\ jobs'[r].kind = jobs[r].kind
  <2>1. CASE jobs[r].stage = "copied"
    <3>1. GoesOn(jobs[r], jobs'[r], jobs[r].done + 1, "run", jobs[r].failed, jobs[r].partial)
      BY <1>7, <2>1 DEF Rollback
    <3>2. JobInv(disk', jobs'[r]) BY <1>2, <1>4, <1>5, <2>1, <3>1, RemoveForward
    <3> QED BY <3>1, <3>2 DEF GoesOn, SameTask
  <2>2. CASE jobs[r].stage = "copiedBack"
    <3>1. GoesOn(jobs[r], jobs'[r], jobs[r].done - 1, "back", jobs[r].failed, jobs[r].partial)
      BY <1>7, <2>2 DEF Rollback
    <3>2. JobInv(disk', jobs'[r]) BY <1>2, <1>5, <2>2, <3>1, RemoveBack
    <3> QED BY <3>1, <3>2 DEF GoesOn, SameTask
  <2> QED BY <1>2, <2>1, <2>2
<1>9. Made(jobs'[r]) = {} /\ ~ Between(jobs'[r]) /\ ~ Linked(jobs'[r])
  BY <1>3, <1>8 DEF Made, Between, Linked
<1>10. KeptInv'
  <2>1. PICK loose \in SUBSET AllPlaces : /\ \A s \in Busy : LooseFor(jobs[s], loose)
                                          /\ KeptWith(disk, trash, excused, loose)
    BY DEF TransfersInv, KeptInv
  <2>2. LooseFor(jobs[r], loose) BY <1>2, <2>1
  <2>3. CASE p \in jobs[r].surprised
    <3>1. PICK contents, after : /\ contents = {LiesAt(disk, p)}
                                 /\ after = (loose \cup {x \in AllPlaces : LiesAt(disk, x) \in contents}) \ {}
      OBVIOUS
    <3>2. LooseFor(jobs'[r], after) BY <1>9 DEF LooseFor
    <3>3. LiesAt(disk, p) \subseteq excused' /\ excused \subseteq excused' BY <1>4, <2>3 DEF Lost
    <3>4. Keeps(r, {p}, loose, contents, {}, after) BY <1>0, <2>1, <3>1, <3>2, <3>3 DEF Keeps
    <3> QED BY <1>2, <1>7, <3>4, KeptStep
  <2>4. CASE p \notin jobs[r].surprised /\ p \in loose
    <3>1. PICK after : after = (loose \cup {x \in AllPlaces : LiesAt(disk, x) \in {}}) \ {} OBVIOUS
    <3>2. LooseFor(jobs'[r], after) BY <1>9 DEF LooseFor
    <3>3. excused \subseteq excused' BY <1>4
    <3>4. Keeps(r, {p}, loose, {}, {}, after) BY <1>0, <2>1, <2>4, <3>1, <3>2, <3>3 DEF Keeps
    <3> QED BY <1>2, <1>7, <3>4, KeptStep
  <2>5. CASE p \notin jobs[r].surprised /\ p \notin loose
    <3>1. Linked(jobs[r]) /\ q \notin loose /\ LiesAt(disk, q) = LiesAt(disk, p)
      BY <1>2, <1>3, <2>2, <2>5 DEF LooseFor, Linked, JobInv
    <3>2. PICK side \in SUBSET AllPlaces :
             /\ p \notin side /\ q \in side
             /\ \A s \in Busy \ {r} : Linked(jobs[s]) => (Source(jobs[s]) \in side <=> Target(jobs[s]) \in side)
      BY <1>2, <1>3, <3>1 DEF ForestInv, TransfersInv
    <3>3. PICK after : after = loose \cup {x \in AllPlaces : LiesAt(disk, x) = LiesAt(disk, p) /\ x \notin side}
      OBVIOUS
    <3>4. after \in SUBSET AllPlaces /\ loose \ {p} \subseteq after BY <3>3
    <3>5. ASSUME NEW s \in Busy \ {r}, Linked(jobs[s]),
                 NEW a, a = Source(jobs[s]), NEW b, b = Target(jobs[s])
          PROVE  /\ a \notin {p} /\ b \notin {p} => (a \in after <=> b \in after)
                 /\ a \in {p} /\ b \notin {p} => b \in after
                 /\ b \in {p} /\ a \notin {p} => a \in after
      <4>1. JobInv(disk, jobs[s]) /\ jobs[s] \in Working /\ LooseFor(jobs[s], loose)
        BY <1>2, <2>1 DEF TransfersTyped, JobsInv
      <4>2. LiesAt(disk, a) = LiesAt(disk, b) /\ (a \in loose <=> b \in loose) /\ (a \in side <=> b \in side)
        BY <3>2, <3>5, <4>1 DEF JobInv, LooseFor
      <4>3. a \in AllPlaces /\ b \in AllPlaces BY <3>5, <4>1, BetweenFacts DEF Linked
      <4> QED BY <3>2, <3>3, <4>2, <4>3
    <3>6. \A s \in Busy' \ {r} : LooseFor(jobs'[s], after)
      <4>1. KeepsLinks(r, {p}, after) BY <3>5 DEF KeepsLinks
      <4> QED BY <1>2, <1>7, <2>1, <3>4, <4>1, OthersLoose
    <3>7. LooseFor(jobs'[r], after) BY <1>9 DEF LooseFor
    <3>8. ASSUME NEW t \in Tokens \ excused'
          PROVE  Held(disk', trash', t, after)
      <4>1. t \notin excused /\ Held(disk, trash, t, loose) BY <1>4, <2>1, <3>8 DEF KeptWith
      <4>2. ASSUME t \in LiesAt(disk, p)
            PROVE  Held(disk', trash', t, after)
        <5>1. q \notin after /\ LiesAt(disk', q) = LiesAt(disk, q)
          BY <1>2, <1>3, <1>5, <3>1, <3>2, <3>3 DEF PutAt, Spares
        <5> QED BY <1>2, <3>1, <4>2, <5>1 DEF Held
      <4>3. ASSUME NEW x \in AllPlaces \ loose, t \in LiesAt(disk, x), LiesAt(disk, x) # LiesAt(disk, p)
            PROVE  Held(disk', trash', t, after)
        <5>1. x \notin after /\ LiesAt(disk', x) = LiesAt(disk, x)
          BY <1>5, <3>3, <4>3 DEF PutAt, Spares
        <5> QED BY <4>3, <5>1 DEF Held
      <4> QED BY <1>0, <4>1, <4>2, <4>3 DEF Held
    <3>9. KeptWith(disk', trash', excused', after) BY <3>8 DEF KeptWith
    <3> QED BY <3>4, <3>6, <3>7, <3>9 DEF KeptInv
  <2> QED BY <2>3, <2>4, <2>5
<1> QED BY <1>0, <1>2, <1>7, <1>8, <1>9, <1>10, DiskStep

LEMMA FailsFacts ==
  ASSUME TransfersInv, NEW r \in Roots, Fails(r)
  PROVE  /\ Works(r, {"run", "copied", "back", "copiedBack"})
         /\ used' \in [commands : Nat, errors : Nat, strangers : Nat]
<1>1. TransfersTyped /\ used \in [commands : Nat, errors : Nat, strangers : Nat]
  BY DEF TransfersInv, TransfersTyped
<1>2. Use("errors", MaxErrors) => used' \in [commands : Nat, errors : Nat, strangers : Nat]
  BY <1>1, UseFacts
<1> QED BY <1>1, <1>2 DEF Fails

\* What becomes of a command when an item fails.
LEMMA FailedJob ==
  ASSUME NEW job \in Working, IF Rollback(job) THEN job.done > 0 ELSE job.done < Len(job.plan),
         NEW part \in BOOLEAN, NEW new, new = [NextAfterFailure(job) EXCEPT !.partial = part]
  PROVE  /\ ~ Rollback(job) => GoesOn(job, new, job.done, "back", job.failed, part)
         /\ Rollback(job) => \E count \in Nat : /\ count < job.done /\ GoesOn(job, new, count, "back", TRUE, part)
                                                /\ job.kind # "copy" => count = job.done - 1
<1>1. job.done \in Nat BY DEF Working
<1>2. CASE ~ Rollback(job)
  <2>1. new = [[job EXCEPT !.stage = "back"] EXCEPT !.partial = part] BY <1>2 DEF NextAfterFailure
  <2> QED BY <1>2, <2>1 DEF Working, GoesOn, SameTask
<1>3. CASE Rollback(job)
  <2>1. PICK count : count = IF job.kind = "copy" /\ job.way = "redo" THEN 0 ELSE job.done - 1
    OBVIOUS
  <2>2. count \in Nat /\ count < job.done /\ (job.kind # "copy" => count = job.done - 1)
    BY <1>1, <1>3, <2>1
  <2>3. NextAfterFailure(job) = [job EXCEPT !.stage = "back", !.failed = TRUE, !.done = count]
    BY <1>3, <2>1 DEF NextAfterFailure, Working
  <2>4. GoesOn(job, new, count, "back", TRUE, part) BY <2>2, <2>3 DEF Working, GoesOn, SameTask
  <2> QED BY <1>3, <2>2, <2>4
<1> QED BY <1>2, <1>3

LEMMA FailRemoveStep ==
  ASSUME TransfersInv, NEW r \in Roots, FailRemove(r)
  PROVE  TransfersInv'
<1>0. /\ Works(r, {"copied", "copiedBack"}) /\ used' \in [commands : Nat, errors : Nat, strangers : Nat]
      /\ UNCHANGED <<trash, clipboard, steps, faults>>
  BY FailsFacts DEF FailRemove, clientVars, Works
<1>1. PICK p, q : p = Item(jobs[r]).from /\ q = Item(jobs[r]).to OBVIOUS
<1>2. /\ TransfersTyped /\ JobsInv /\ disk \in Disks /\ trash \subseteq Tokens
      /\ r \in Busy /\ jobs[r] \in Working /\ JobInv(disk, jobs[r]) /\ jobs[r].stage \in {"copied", "copiedBack"}
      /\ AtItem(jobs[r], p, q) /\ p \in AllPlaces /\ q \in AllPlaces
      /\ Rollback(jobs[r]) => jobs[r].done > 0
  BY <1>0, <1>1, WorksFacts
<1>3. /\ Between(jobs[r]) /\ p = Source(jobs[r]) /\ q = Target(jobs[r]) /\ p # q /\ jobs[r].kind = "move"
  <2>1. Between(jobs[r]) /\ p = Source(jobs[r]) /\ q = Target(jobs[r])
    BY <1>1, <1>2 DEF Between, Source, Target
  <2> QED BY <1>2, <2>1, BetweenFacts
<1>4. PICK left : /\ left \subseteq LiesAt(disk, p)
                  /\ disk' = Put(Put(disk, p, left), q, {})
                  /\ excused' = excused \cup (LiesAt(disk, p) \ left) \cup Lost(r, q) \cup Lost(r, p)
                  /\ jobs' = [Surprised({p, q}, r) EXCEPT ![r] = [NextAfterFailure(jobs[r]) EXCEPT !.partial = @ \/ left # LiesAt(disk, p)]]
  BY <1>1 DEF FailRemove
<1>5. Spares(disk, disk', {p, q}) /\ disk' \in Disks /\ LiesAt(disk', p) = left /\ LiesAt(disk', q) = {}
  <2>1. left \in SUBSET Tokens BY <1>2, <1>4, LiesAtFacts
  <2>2. PICK e : e = Put(disk, p, left) OBVIOUS
  <2>3. PutAt(disk, e, p, left) /\ e \in Disks BY <1>2, <2>1, <2>2, PutAtFacts
  <2>4. PutAt(e, disk', q, {}) /\ disk' \in Disks BY <1>2, <1>4, <2>2, <2>3, PutAtFacts
  <2> QED BY <1>2, <1>3, <2>3, <2>4 DEF PutAt, Spares
<1>6. PICK part \in BOOLEAN : part = (jobs[r].partial \/ left # LiesAt(disk, p)) BY <1>2 DEF Working
<1>7. PICK new : new = [NextAfterFailure(jobs[r]) EXCEPT !.partial = part] OBVIOUS
<1>8. Others(r, {p, q}) /\ jobs'[r] = new
  <2>1. NextAfterFailure(jobs[r]).partial = jobs[r].partial BY <1>2 DEF NextAfterFailure, Working
  <2>2. jobs' = [Surprised({p, q}, r) EXCEPT ![r] = new] BY <1>4, <1>6, <1>7, <2>1
  <2>3. {p, q} \in SUBSET AllPlaces /\ {p, q} # {} BY <1>2
  <2> QED BY <1>2, <1>5, <2>2, <2>3, OthersFacts
<1>9. IF Rollback(jobs[r]) THEN jobs[r].done > 0 ELSE jobs[r].done < Len(jobs[r].plan)
  BY <1>2 DEF AtItem
<1>10. /\ jobs'[r] \in Working /\ JobInv(disk', jobs'[r])
       /\ jobs'[r].stage = "back" /\ jobs'[r].kind = jobs[r].kind
  <2>1. CASE jobs[r].stage = "copied"
    <3>1. GoesOn(jobs[r], new, jobs[r].done, "back", jobs[r].failed, part)
      BY <1>2, <1>7, <1>9, <2>1, FailedJob DEF Rollback
    <3>2. JobInv(disk', new) BY <1>2, <1>4, <1>5, <1>6, <2>1, <3>1, FailRemoveForward
    <3> QED BY <1>8, <3>1, <3>2 DEF GoesOn, SameTask
  <2>2. CASE jobs[r].stage = "copiedBack"
    <3>1. GoesOn(jobs[r], new, jobs[r].done - 1, "back", TRUE, part)
      BY <1>2, <1>3, <1>7, <1>9, <2>2, FailedJob DEF Rollback
    <3>2. JobInv(disk', new) BY <1>2, <1>5, <2>2, <3>1, FailRemoveBack
    <3> QED BY <1>8, <3>1, <3>2 DEF GoesOn, SameTask
  <2> QED BY <1>2, <2>1, <2>2
<1>11. Made(jobs'[r]) = {} /\ ~ Between(jobs'[r]) /\ ~ Linked(jobs'[r])
  BY <1>3, <1>10 DEF Made, Between, Linked
<1>12. KeptInv'
  <2>1. PICK loose \in SUBSET AllPlaces : /\ \A s \in Busy : LooseFor(jobs[s], loose)
                                          /\ KeptWith(disk, trash, excused, loose)
    BY DEF TransfersInv, KeptInv
  <2>2. PICK contents, after : /\ contents = {LiesAt(disk, p)} \cup (IF q \in jobs[r].surprised THEN {LiesAt(disk, q)} ELSE {})
                               /\ after = (loose \cup {x \in AllPlaces : LiesAt(disk, x) \in contents}) \ {p}
    OBVIOUS
  <2>3. LooseFor(jobs'[r], after) BY <1>11 DEF LooseFor
  <2>4. LiesAt(disk, q) \in contents \/ q \in loose
    <3>1. LooseFor(jobs[r], loose) BY <1>2, <2>1
    <3>2. CASE q \in jobs[r].surprised BY <2>2, <3>2
    <3>3. CASE q \notin jobs[r].surprised /\ p \in jobs[r].surprised
      BY <1>3, <3>1, <3>3 DEF LooseFor
    <3>4. CASE q \notin jobs[r].surprised /\ p \notin jobs[r].surprised
      BY <1>2, <1>3, <2>2, <3>4 DEF JobInv, Linked
    <3> QED BY <3>2, <3>3, <3>4
  <2>5. \A t \in LiesAt(disk, p) : t \in excused' \/ Held(disk', trash', t, after)
    BY <1>2, <1>4, <1>5, <2>2 DEF Held
  <2>6. /\ excused \subseteq excused'
        /\ q \in jobs[r].surprised => LiesAt(disk, q) \subseteq excused'
    BY <1>4 DEF Lost
  <2>7. Keeps(r, {p, q}, loose, contents, {p}, after)
    BY <1>0, <2>1, <2>2, <2>3, <2>4, <2>5, <2>6 DEF Keeps
  <2> QED BY <1>2, <1>8, <2>7, KeptStep
<1> QED BY <1>0, <1>2, <1>8, <1>10, <1>11, <1>12, DiskStep

LEMMA FailCopyStep ==
  ASSUME TransfersInv, NEW r \in Roots, FailCopy(r)
  PROVE  TransfersInv'
<1>0. /\ Works(r, {"run", "back"}) /\ used' \in [commands : Nat, errors : Nat, strangers : Nat]
      /\ jobs[r].kind \in {"copy", "move"} /\ (jobs[r].kind = "copy" => jobs[r].stage = "run")
      /\ UNCHANGED <<trash, clipboard, steps, excused, faults>>
  BY FailsFacts DEF FailCopy, clientVars, Works, Across
<1>1. PICK p, q : p = Item(jobs[r]).from /\ q = Item(jobs[r]).to OBVIOUS
<1>2. /\ TransfersTyped /\ JobsInv /\ disk \in Disks /\ trash \subseteq Tokens
      /\ r \in Busy /\ jobs[r] \in Working /\ JobInv(disk, jobs[r]) /\ jobs[r].stage \in {"run", "back"}
      /\ AtItem(jobs[r], p, q) /\ p \in AllPlaces /\ q \in AllPlaces
      /\ Rollback(jobs[r]) => jobs[r].done > 0
  BY <1>0, <1>1, WorksFacts
<1>3. LiesAt(disk, p) # {} /\ LiesAt(disk, q) = {} /\ p # q BY <1>1, <1>2, ExistsFacts DEF FailCopy
<1>4. PICK item : /\ item \subseteq LiesAt(disk, p) /\ disk' = Put(disk, q, item)
                  /\ jobs' = [Surprised({q}, r) EXCEPT ![r] = [NextAfterFailure(jobs[r]) EXCEPT !.partial = TRUE]]
  BY <1>1 DEF FailCopy
<1>5. item \in SUBSET Tokens BY <1>2, <1>4, LiesAtFacts
<1>6. PutAt(disk, disk', q, item) /\ disk' \in Disks BY <1>2, <1>4, <1>5, PutAtFacts
<1>7. {q} \in SUBSET AllPlaces /\ {q} # {} /\ Spares(disk, disk', {q}) BY <1>2, <1>6 DEF PutAt
<1>8. PICK new : new = [NextAfterFailure(jobs[r]) EXCEPT !.partial = TRUE] OBVIOUS
<1>9. Others(r, {q}) /\ jobs'[r] = new
  <2>1. jobs' = [Surprised({q}, r) EXCEPT ![r] = new] BY <1>4, <1>8
  <2> QED BY <1>2, <1>7, <2>1, OthersFacts
<1>10. IF Rollback(jobs[r]) THEN jobs[r].done > 0 ELSE jobs[r].done < Len(jobs[r].plan)
  BY <1>2 DEF AtItem
<1>11. /\ jobs'[r] \in Working /\ JobInv(disk', jobs'[r]) /\ jobs'[r].stage = "back"
       /\ Made(jobs'[r]) \subseteq Made(jobs[r])
  <2>1. CASE jobs[r].stage = "run"
    <3>1. GoesOn(jobs[r], new, jobs[r].done, "back", jobs[r].failed, TRUE)
      BY <1>2, <1>8, <1>10, <2>1, FailedJob DEF Rollback
    <3>2. JobInv(disk', new)
      <4>1. PICK part : part = TRUE OBVIOUS
      <4>2. GoesOn(jobs[r], new, jobs[r].done, "back", jobs[r].failed, part) BY <3>1, <4>1
      <4>3. Partly(jobs[r], disk, disk', p, q, part) BY <1>3, <4>1 DEF Partly
      <4> QED BY <1>0, <1>2, <1>7, <2>1, <4>2, <4>3, FailForward
    <3>3. Made(new) \subseteq Made(jobs[r]) BY <3>1 DEF GoesOn, SameTask, Made
    <3> QED BY <1>9, <3>1, <3>2, <3>3 DEF GoesOn
  <2>2. CASE jobs[r].stage = "back"
    <3>0. jobs[r].kind = "move" BY <1>0, <2>2
    <3>1. PICK count \in Nat : /\ count < jobs[r].done /\ GoesOn(jobs[r], new, count, "back", TRUE, TRUE)
                               /\ count = jobs[r].done - 1
      BY <1>2, <1>8, <1>10, <2>2, <3>0, FailedJob DEF Rollback
    <3>2. JobInv(disk', new) BY <1>2, <1>3, <1>7, <2>2, <3>0, <3>1, FailBack
    <3>3. Made(new) \subseteq Made(jobs[r]) BY <3>0, <3>1 DEF GoesOn, SameTask, Made
    <3> QED BY <1>9, <3>1, <3>2, <3>3 DEF GoesOn
  <2> QED BY <1>2, <2>1, <2>2
<1>12. ~ Between(jobs'[r]) /\ ~ Linked(jobs'[r]) BY <1>11 DEF Between, Linked
<1>13. KeptInv'
  <2>1. PICK loose \in SUBSET AllPlaces : /\ \A s \in Busy : LooseFor(jobs[s], loose)
                                          /\ KeptWith(disk, trash, excused, loose)
    BY DEF TransfersInv, KeptInv
  <2>2. PICK after : after = (loose \cup {x \in AllPlaces : LiesAt(disk, x) \in {{}}}) \ {} OBVIOUS
  <2>3. LooseFor(jobs'[r], after) BY <1>2, <1>11, <1>12, <2>1, <2>2 DEF LooseFor
  <2>4. Keeps(r, {q}, loose, {{}}, {}, after) BY <1>0, <1>3, <2>1, <2>2, <2>3 DEF Keeps
  <2> QED BY <1>2, <1>9, <2>4, KeptStep
<1> QED BY <1>0, <1>2, <1>9, <1>11, <1>12, <1>13, DiskStep

\* The command may become this: it has nothing more to take away.
MayBecome(r, new) ==
  new # NoTransfer =>
    /\ new \in Working /\ JobInv(disk, new) /\ ~ Between(new)
    /\ Made(new) = {} \/ (r \in Busy /\ Made(new) \subseteq Made(jobs[r]))

\* A step of one command, or its begin or end, that leaves the disk alone.
LEMMA QuietStep ==
  ASSUME TransfersInv, NEW r \in Roots, NEW new, MayBecome(r, new), jobs' = [jobs EXCEPT ![r] = new],
         UNCHANGED <<disk, trash, excused>>, StepsInv',
         steps' \in [Roots -> [undo : Seq(Entry), redo : Seq(Entry)]],
         clipboard' # NoTransfer => clipboard'.paths \in Selections,
         used' \in [commands : Nat, errors : Nat, strangers : Nat], faults' \subseteq {"cut"}
  PROVE  TransfersInv'
<1>1. /\ DOMAIN jobs = Roots /\ jobs = [s \in Roots |-> jobs[s]] /\ disk \in Disks /\ trash \subseteq Tokens
      /\ \A s \in Busy : jobs[s] \in Working
  BY DEF TransfersInv, TransfersTyped
<1>2. /\ DOMAIN jobs' = Roots /\ jobs' = [s \in Roots |-> jobs'[s]]
      /\ jobs'[r] = new /\ \A s \in Roots : s # r => jobs'[s] = jobs[s]
  BY <1>1
<1>3. /\ \A s \in Busy' : s # r => s \in Busy /\ jobs'[s] = jobs[s]
      /\ r \in Busy' => new # NoTransfer
  BY <1>2 DEF Busy
<1>4. TransfersTyped'
  <2>1. \A s \in Busy' : jobs'[s] \in Working BY <1>1, <1>2, <1>3 DEF MayBecome
  <2> QED BY <1>1, <1>2, <2>1 DEF TransfersTyped
<1>5. JobsInv' BY <1>2, <1>3 DEF JobsInv, TransfersInv, MayBecome
<1>6. \A s \in Busy' : Linked(jobs'[s]) => s # r BY <1>2, <1>3 DEF Linked, MayBecome
<1>7. ForestInv'
  <2>1. ASSUME NEW s \in Busy', Linked(jobs'[s])
        PROVE  \E side \in SUBSET AllPlaces :
                 /\ Source(jobs'[s]) \notin side /\ Target(jobs'[s]) \in side
                 /\ \A o \in Busy' \ {s} : Linked(jobs'[o]) => (Source(jobs'[o]) \in side <=> Target(jobs'[o]) \in side)
    <3>1. s \in Busy /\ Linked(jobs[s]) /\ jobs'[s] = jobs[s] BY <1>3, <1>6, <2>1
    <3>2. PICK side \in SUBSET AllPlaces :
             /\ Source(jobs[s]) \notin side /\ Target(jobs[s]) \in side
             /\ \A o \in Busy \ {s} : Linked(jobs[o]) => (Source(jobs[o]) \in side <=> Target(jobs[o]) \in side)
      BY <3>1 DEF ForestInv, TransfersInv
    <3>3. \A o \in Busy' \ {s} : Linked(jobs'[o]) => (Source(jobs'[o]) \in side <=> Target(jobs'[o]) \in side)
      BY <1>3, <1>6, <3>2
    <3> QED BY <3>1, <3>2, <3>3
  <2> QED BY <2>1 DEF ForestInv
<1>8. KeptInv'
  <2>1. PICK loose \in SUBSET AllPlaces : /\ \A s \in Busy : LooseFor(jobs[s], loose)
                                          /\ KeptWith(disk, trash, excused, loose)
    BY DEF TransfersInv, KeptInv
  <2>2. KeptWith(disk', trash', excused', loose) BY <2>1
  <2>3. r \in Busy' => LooseFor(new, loose) BY <1>3, <2>1 DEF MayBecome, LooseFor, Linked
  <2>4. \A s \in Busy' : LooseFor(jobs'[s], loose) BY <1>2, <1>3, <2>1, <2>3
  <2> QED BY <2>2, <2>4 DEF KeptInv
<1> QED BY <1>4, <1>5, <1>7, <1>8 DEF TransfersInv

LEMMA FailItemStep ==
  ASSUME TransfersInv, NEW r \in Roots, FailItem(r)
  PROVE  TransfersInv'
<1>0. /\ Works(r, {"run", "back"}) /\ used' \in [commands : Nat, errors : Nat, strangers : Nat]
      /\ jobs[r].kind # "trash" /\ jobs' = [jobs EXCEPT ![r] = NextAfterFailure(jobs[r])]
      /\ UNCHANGED <<disk, trash, clipboard, steps, excused, faults>>
  BY FailsFacts DEF FailItem, clientVars, Works
<1>1. PICK p, q : p = Item(jobs[r]).from /\ q = Item(jobs[r]).to OBVIOUS
<1>2. /\ TransfersTyped /\ JobsInv /\ disk \in Disks /\ trash \subseteq Tokens
      /\ r \in Busy /\ jobs[r] \in Working /\ JobInv(disk, jobs[r]) /\ jobs[r].stage \in {"run", "back"}
      /\ AtItem(jobs[r], p, q) /\ p \in AllPlaces /\ q \in AllPlaces
      /\ Rollback(jobs[r]) => jobs[r].done > 0
  BY <1>0, <1>1, WorksFacts
<1>3. IF Rollback(jobs[r]) THEN jobs[r].done > 0 ELSE jobs[r].done < Len(jobs[r].plan)
  BY <1>2 DEF AtItem
<1>4. PICK part \in BOOLEAN : part = jobs[r].partial BY <1>2 DEF Working
<1>5. PICK new : new = [NextAfterFailure(jobs[r]) EXCEPT !.partial = part] OBVIOUS
<1>6. new = NextAfterFailure(jobs[r]) BY <1>2, <1>4, <1>5 DEF NextAfterFailure, Working
<1>7. Spares(disk, disk, {q}) BY <1>2 DEF Spares
<1>8. /\ new \in Working /\ JobInv(disk, new) /\ new.stage = "back" /\ Made(new) \subseteq Made(jobs[r])
  <2>1. CASE jobs[r].stage = "run"
    <3>1. GoesOn(jobs[r], new, jobs[r].done, "back", jobs[r].failed, part)
      BY <1>2, <1>3, <1>5, <2>1, FailedJob DEF Rollback
    <3>2. JobInv(disk, new)
      <4>1. Partly(jobs[r], disk, disk, p, q, part) BY <1>4 DEF Partly
      <4> QED BY <1>0, <1>2, <1>7, <2>1, <3>1, <4>1, FailForward
    <3> QED BY <3>1, <3>2 DEF GoesOn, SameTask, Made
  <2>2. CASE jobs[r].stage = "back"
    <3>1. PICK count \in Nat : /\ count < jobs[r].done /\ GoesOn(jobs[r], new, count, "back", TRUE, part)
                               /\ jobs[r].kind # "copy" => count = jobs[r].done - 1
      BY <1>2, <1>3, <1>5, <2>2, FailedJob DEF Rollback
    <3>2. Renames(jobs[r]) => count = jobs[r].done - 1 BY <3>1 DEF Renames
    <3>3. JobInv(disk, new) BY <1>0, <1>2, <1>7, <2>2, <3>1, <3>2, FailBack
    <3>4. count <= jobs[r].done BY <1>2, <3>1 DEF Working
    <3>5. Made(new) \subseteq Made(jobs[r]) BY <1>2, <3>1, <3>4, MadeFacts
    <3> QED BY <3>1, <3>3, <3>5 DEF GoesOn
  <2> QED BY <1>2, <2>1, <2>2
<1>9. MayBecome(r, new) BY <1>2, <1>8 DEF MayBecome, Between
<1>10. /\ StepsInv' /\ steps' \in [Roots -> [undo : Seq(Entry), redo : Seq(Entry)]]
       /\ clipboard' # NoTransfer => clipboard'.paths \in Selections
       /\ faults' \subseteq {"cut"}
  BY <1>0 DEF TransfersInv, TransfersTyped, StepsInv
<1> QED BY <1>0, <1>6, <1>9, <1>10, QuietStep

\* A plan that is cut short behind the items that are done.
Shortened(job, shorter) ==
  /\ shorter \in Seq(Pair) /\ job.done <= Len(shorter)
  /\ \A i \in DOMAIN shorter : \E j \in DOMAIN job.plan : shorter[i] = job.plan[j]
  /\ \A i \in DOMAIN shorter : i <= job.done => i \in DOMAIN job.plan /\ shorter[i] = job.plan[i]

LEMMA TrashPlan ==
  ASSUME NEW d, NEW job \in Working, JobInv(d, job), job.kind = "trash", NEW shorter, Shortened(job, shorter),
         NEW fails \in BOOLEAN, job.way = "do" \/ fails, NEW new, new = [job EXCEPT !.plan = shorter, !.failed = fails]
  PROVE  new \in Working /\ JobInv(d, new) /\ ~ Between(new) /\ Made(new) = {}
<1>1. /\ new.kind = "trash" /\ new.way = job.way /\ new.plan = shorter /\ new.done = job.done /\ new.stage = job.stage
      /\ new.entry = job.entry /\ new.before = job.before /\ new.surprised = job.surprised
      /\ new.failed = fails /\ new.partial = job.partial /\ new \in Working
  BY DEF Working, Shortened
<1>2. /\ job.plan \in Seq(Pair) /\ DOMAIN job.plan = 1..Len(job.plan) /\ DOMAIN shorter = 1..Len(shorter)
      /\ Len(shorter) \in Nat /\ Len(job.plan) \in Nat /\ job.done \in Nat
  BY PlanFacts DEF Working, Shortened
<1>3. Placed(new) BY <1>1, <1>2 DEF Placed, Shortened, JobInv, Between
<1>4. WellPlanned(new) BY <1>1 DEF WellPlanned, Shortened, JobInv, Renames, InPlace
<1>5. Applies(new) BY <1>1 DEF Applies, JobInv
<1>6. Fresh(d, new) /\ ~ Renames(new) /\ ~ Renames(job) /\ ~ Between(new) /\ ~ Linked(new) /\ Made(new) = {}
  BY <1>1 DEF Fresh, Renames, Between, Linked, Made, JobInv, Placed
<1>7. ASSUME Undisturbed(new)
      PROVE  Tracks(d, new)
  <2>1. TracksOthers(d, job) BY <1>1, <1>6, <1>7 DEF Undisturbed, JobInv, Tracks
  <2>2. ASSUME NEW i \in DOMAIN shorter, i <= job.done
        PROVE  LiesAt(d, shorter[i].to) = {}
    BY <2>1, <2>2 DEF TracksOthers, Outcome, Shortened
  <2>3. ASSUME NEW x \in AllPlaces, \A i \in DOMAIN shorter : i <= job.done => x # shorter[i].to
        PROVE  LiesAt(d, x) = LiesAt(job.before, x)
    <3>1. \A i \in DOMAIN job.plan : i <= job.done => i \in DOMAIN shorter /\ shorter[i] = job.plan[i]
      BY <1>2 DEF Shortened
    <3> QED BY <2>1, <2>3, <3>1 DEF TracksOthers
  <2>4. TracksOthers(d, new) BY <1>1, <2>2, <2>3 DEF TracksOthers, Outcome
  <2> QED BY <1>6, <2>4 DEF Tracks
<1> QED BY <1>1, <1>3, <1>4, <1>5, <1>6, <1>7 DEF JobInv

LEMMA CutShort ==
  ASSUME NEW S, NEW n \in Seq(S), NEW k \in Nat, k < Len(n)
  PROVE  /\ SubSeq(n, 1, k) \in Seq(S) /\ Len(SubSeq(n, 1, k)) = k /\ \A i \in 1..k : SubSeq(n, 1, k)[i] = n[i]
         /\ RemoveAt(n, k + 1) \in Seq(S) /\ Len(RemoveAt(n, k + 1)) = Len(n) - 1
         /\ \A i \in 1..k : RemoveAt(n, k + 1)[i] = n[i]
         /\ \A i \in (k + 1)..(Len(n) - 1) : RemoveAt(n, k + 1)[i] = n[i + 1]
<1>1. Len(n) \in Nat /\ \A i \in 1..Len(n) : n[i] \in S BY ElementOfSeq
<1>2. PICK front, back : front = SubSeq(n, 1, k) /\ back = SubSeq(n, k + 2, Len(n)) OBVIOUS
<1>3. front \in Seq(S) /\ Len(front) = k /\ \A i \in 1..k : front[i] = n[i]
  <2>1. \A i \in 1..k : n[i] \in S BY <1>1
  <2> QED BY <1>1, <1>2, <2>1, SubSeqProperties
<1>4. PICK m : m = Len(n) - (k + 1) OBVIOUS
<1>4a. m \in Nat
  BY <1>1, <1>4
<1>5. back \in Seq(S) /\ Len(back) = m /\ \A i \in 1..m : back[i] = n[k + 1 + i]
  <2>1. \A i \in (k + 2)..Len(n) : n[i] \in S BY <1>1
  <2>2. /\ back \in Seq(S) /\ Len(back) = IF k + 2 <= Len(n) THEN Len(n) - (k + 2) + 1 ELSE 0
        /\ \A i \in 1..(Len(n) - (k + 2) + 1) : back[i] = n[(k + 2) + i - 1]
    BY <1>1, <1>2, <2>1, SubSeqProperties
  <2>3. Len(back) = m /\ Len(n) - (k + 2) + 1 = m BY <1>1, <1>4, <1>4a, <2>2
  <2>4. \A i \in 1..m : (k + 2) + i - 1 = k + 1 + i BY <1>4a
  <2> QED BY <2>2, <2>3, <2>4
<1>6. PICK s : s = front \o back OBVIOUS
<1>7. s = RemoveAt(n, k + 1)
  <2>1. PICK j : j = k + 1 OBVIOUS
  <2>2. j - 1 = k /\ j + 1 = k + 2 BY <2>1
  <2>3. RemoveAt(n, j) = SubSeq(n, 1, j - 1) \o SubSeq(n, j + 1, Len(n)) BY DEF RemoveAt
  <2> QED BY <1>2, <1>6, <2>1, <2>2, <2>3
<1>8. s \in Seq(S) /\ Len(s) = k + m /\ \A i \in 1..(k + m) : s[i] = IF i <= k THEN front[i] ELSE back[i - k]
  <2>1. /\ s \in Seq(S) /\ Len(s) = Len(front) + Len(back)
        /\ \A i \in 1..(Len(front) + Len(back)) : s[i] = IF i <= Len(front) THEN front[i] ELSE back[i - Len(front)]
    BY <1>3, <1>5, <1>6, ConcatProperties
  <2> QED BY <1>3, <1>5, <2>1
<1>9. k + m = Len(n) - 1 BY <1>1, <1>4
<1>10. \A i \in 1..k : s[i] = n[i] BY <1>3, <1>8, <1>4a
<1>11. ASSUME NEW i \in (k + 1)..(Len(n) - 1)
       PROVE  s[i] = n[i + 1]
  <2>1. s[i] = back[i - k] /\ i - k \in 1..m BY <1>1, <1>4, <1>8, <1>4a
  <2>2. back[i - k] = n[k + 1 + (i - k)] /\ k + 1 + (i - k) = i + 1 BY <1>5, <2>1, <1>4a
  <2> QED BY <2>1, <2>2
<1> QED BY <1>2, <1>3, <1>7, <1>8, <1>9, <1>10, <1>11

LEMMA ShorterFacts ==
  ASSUME NEW job \in Working, job.done < Len(job.plan)
  PROVE  Shortened(job, RemoveAt(job.plan, job.done + 1)) /\ Shortened(job, SubSeq(job.plan, 1, job.done))
<1>1. PICK n, k : n = job.plan /\ k = job.done OBVIOUS
<1>2. n \in Seq(Pair) /\ DOMAIN n = 1..Len(n) /\ Len(n) \in Nat /\ k \in Nat /\ k < Len(n)
  BY <1>1, PlanFacts DEF Working
<1>3. PICK front, s : front = SubSeq(n, 1, k) /\ s = RemoveAt(n, k + 1) OBVIOUS
<1>4. /\ front \in Seq(Pair) /\ Len(front) = k /\ \A i \in 1..k : front[i] = n[i]
      /\ s \in Seq(Pair) /\ Len(s) = Len(n) - 1 /\ \A i \in 1..k : s[i] = n[i]
      /\ \A i \in (k + 1)..(Len(n) - 1) : s[i] = n[i + 1]
  BY <1>2, <1>3, CutShort
<1>5. DOMAIN front = 1..k /\ DOMAIN s = 1..(Len(n) - 1) BY <1>4, PlanFacts
<1>6. Shortened(job, front)
  <2>1. \A i \in DOMAIN front : i \in DOMAIN n /\ front[i] = n[i] BY <1>2, <1>4, <1>5
  <2>2. front \in Seq(Pair) /\ k <= Len(front) BY <1>2, <1>4
  <2> QED BY <1>1, <2>1, <2>2 DEF Shortened
<1>7. Shortened(job, s)
  <2>1. ASSUME NEW i \in DOMAIN s
        PROVE  \E j \in DOMAIN n : s[i] = n[j]
    <3>1. CASE i <= k BY <1>2, <1>4, <1>5, <3>1
    <3>2. CASE i > k
      <4>1. i + 1 \in DOMAIN n /\ s[i] = n[i + 1] BY <1>2, <1>4, <1>5, <3>2
      <4> QED BY <4>1
    <3> QED BY <1>2, <1>5, <3>1, <3>2
  <2>2. k <= Len(s) /\ \A i \in DOMAIN s : i <= k => i \in DOMAIN n /\ s[i] = n[i]
    BY <1>2, <1>4, <1>5
  <2> QED BY <1>1, <1>4, <2>1, <2>2 DEF Shortened
<1> QED BY <1>1, <1>3, <1>6, <1>7

\* What a step of a command leaves when it changes the command only.
Only(r, new) == jobs' = [jobs EXCEPT ![r] = new] /\ UNCHANGED <<disk, trash, clipboard, steps, excused, faults>>

LEMMA OnlyStep ==
  ASSUME TransfersInv, NEW r \in Roots, NEW new, MayBecome(r, new), Only(r, new),
         used' \in [commands : Nat, errors : Nat, strangers : Nat]
  PROVE  TransfersInv'
<1>1. /\ StepsInv' /\ steps' \in [Roots -> [undo : Seq(Entry), redo : Seq(Entry)]]
      /\ clipboard' # NoTransfer => clipboard'.paths \in Selections
      /\ faults' \subseteq {"cut"}
  BY DEF Only, TransfersInv, TransfersTyped, StepsInv
<1> QED BY <1>1, QuietStep DEF Only

LEMMA SkipStep ==
  ASSUME TransfersInv, NEW r \in Roots, SkipGone(r)
  PROVE  TransfersInv'
<1>1. Works(r, {"run"}) /\ jobs[r].kind = "trash" /\ jobs[r].way = "do" BY DEF SkipGone
<1>2. PICK p, q : p = Item(jobs[r]).from /\ q = Item(jobs[r]).to OBVIOUS
<1>3. /\ TransfersTyped /\ r \in Busy /\ jobs[r] \in Working /\ JobInv(disk, jobs[r])
      /\ used \in [commands : Nat, errors : Nat, strangers : Nat] /\ jobs[r].stage = "run"
  BY <1>1, <1>2, WorksFacts
<1>4. jobs[r].done < Len(jobs[r].plan) BY <1>1, <1>3 DEF Works, Rollback
<1>5. PICK shorter : shorter = RemoveAt(jobs[r].plan, jobs[r].done + 1) OBVIOUS
<1>6. PICK fails \in BOOLEAN : fails = jobs[r].failed BY <1>3 DEF Working
<1>7. PICK new : new = [jobs[r] EXCEPT !.plan = shorter, !.failed = fails] OBVIOUS
<1>8. new \in Working /\ JobInv(disk, new) /\ ~ Between(new) /\ Made(new) = {}
  BY <1>1, <1>3, <1>4, <1>5, <1>7, ShorterFacts, TrashPlan
<1>9. jobs' = [jobs EXCEPT ![r] = new]
  <2>1. new = [jobs[r] EXCEPT !.plan = shorter] BY <1>3, <1>6, <1>7 DEF Working
  <2>2. jobs' = [jobs EXCEPT ![r] = [jobs[r] EXCEPT !.plan = shorter]]
    BY <1>3, <1>5 DEF SkipGone, TransfersTyped
  <2> QED BY <2>1, <2>2
<1>10. Only(r, new) /\ used' = used BY <1>9 DEF SkipGone, Only, clientVars
<1>11. MayBecome(r, new) BY <1>8 DEF MayBecome
<1> QED BY <1>3, <1>10, <1>11, OnlyStep

LEMMA FailTrashStep ==
  ASSUME TransfersInv, NEW r \in Roots, FailTrash(r)
  PROVE  TransfersInv'
<1>1. /\ Works(r, {"run", "copied", "back", "copiedBack"}) /\ jobs[r].kind = "trash"
      /\ used' \in [commands : Nat, errors : Nat, strangers : Nat]
  BY FailsFacts DEF FailTrash, Fails
<1>2. PICK p, q : p = Item(jobs[r]).from /\ q = Item(jobs[r]).to OBVIOUS
<1>3. /\ TransfersTyped /\ r \in Busy /\ jobs[r] \in Working /\ JobInv(disk, jobs[r])
  BY <1>1, <1>2, WorksFacts
<1>4. jobs[r].done < Len(jobs[r].plan) BY <1>1, <1>3 DEF Works, Rollback, FailTrash
<1>5. PICK shorter : shorter = SubSeq(jobs[r].plan, 1, jobs[r].done) OBVIOUS
<1>6. PICK fails \in BOOLEAN : fails = TRUE OBVIOUS
<1>7. PICK new : new = [jobs[r] EXCEPT !.plan = shorter, !.failed = fails] OBVIOUS
<1>8. new \in Working /\ JobInv(disk, new) /\ ~ Between(new) /\ Made(new) = {}
  BY <1>1, <1>3, <1>4, <1>5, <1>6, <1>7, ShorterFacts, TrashPlan
<1>9. jobs' = [jobs EXCEPT ![r] = new]
  <2>1. jobs' = [jobs EXCEPT ![r] = [jobs[r] EXCEPT !.plan = shorter, !.failed = TRUE]]
    BY <1>3, <1>5 DEF FailTrash, TransfersTyped
  <2> QED BY <1>6, <1>7, <2>1
<1>10. Only(r, new) BY <1>9 DEF FailTrash, Only, clientVars
<1>11. MayBecome(r, new) BY <1>8 DEF MayBecome
<1> QED BY <1>1, <1>10, <1>11, OnlyStep

\* A step on one of the stacks is on record; so are those that are left when it is taken away, and
\* those that are there when one is added.
OnRecord(stack) == stack \in Seq(Entry) /\ \A i \in DOMAIN stack : EntryInv(stack[i])

LEMMA StackFacts ==
  ASSUME NEW stack, OnRecord(stack)
  PROVE  /\ stack # <<>> => /\ Last(stack) \in Entry /\ EntryInv(Last(stack)) /\ OnRecord(Front(stack))
                            /\ \E i \in DOMAIN stack : Last(stack) = stack[i]
                            /\ \A i \in DOMAIN Front(stack) : \E j \in DOMAIN stack : Front(stack)[i] = stack[j]
         /\ \A e \in Entry : EntryInv(e) => OnRecord(Append(stack, e))
         /\ \A e \in Entry : \A i \in DOMAIN Append(stack, e) : Append(stack, e)[i] = e \/ \E j \in DOMAIN stack : Append(stack, e)[i] = stack[j]
<1>1. stack \in Seq(Entry) /\ Len(stack) \in Nat /\ DOMAIN stack = 1..Len(stack) /\ \A i \in 1..Len(stack) : stack[i] \in Entry /\ EntryInv(stack[i])
  BY ElementOfSeq DEF OnRecord
<1>2. ASSUME stack # <<>>
      PROVE  /\ Last(stack) \in Entry /\ EntryInv(Last(stack)) /\ OnRecord(Front(stack))
             /\ \E i \in DOMAIN stack : Last(stack) = stack[i]
             /\ \A i \in DOMAIN Front(stack) : \E j \in DOMAIN stack : Front(stack)[i] = stack[j]
  <2>1. PICK k : k = Len(stack) - 1 OBVIOUS
  <2>2. Len(stack) \in 1..Len(stack) /\ k \in Nat /\ k < Len(stack) BY <1>1, <1>2, <2>1, EmptySeq
  <2>3. PICK front : front = SubSeq(stack, 1, k) OBVIOUS
  <2>4. Front(stack) = front BY <2>1, <2>3 DEF Front
  <2>5. front \in Seq(Entry) /\ Len(front) = k /\ \A i \in 1..k : front[i] = stack[i]
    BY <1>1, <2>2, <2>3, CutShort
  <2>6. DOMAIN front = 1..k BY <2>5
  <2>7. \A i \in DOMAIN front : i \in DOMAIN stack /\ front[i] = stack[i] BY <1>1, <2>2, <2>5, <2>6
  <2>8. Last(stack) = stack[Len(stack)] BY DEF Last
  <2> QED BY <1>1, <2>2, <2>4, <2>5, <2>7, <2>8 DEF OnRecord
<1>3. ASSUME NEW e \in Entry
      PROVE  /\ EntryInv(e) => OnRecord(Append(stack, e))
             /\ \A i \in DOMAIN Append(stack, e) : Append(stack, e)[i] = e \/ \E j \in DOMAIN stack : Append(stack, e)[i] = stack[j]
  <2>1. PICK more : more = Append(stack, e) OBVIOUS
  <2>2. /\ more \in Seq(Entry) /\ Len(more) = Len(stack) + 1
        /\ \A i \in 1..Len(stack) : more[i] = stack[i]
        /\ more[Len(stack) + 1] = e
    BY <1>1, <2>1, AppendProperties
  <2>3. DOMAIN more = 1..(Len(stack) + 1) BY <2>2
  <2>4. \A i \in DOMAIN more : more[i] = e \/ (i \in DOMAIN stack /\ more[i] = stack[i])
    BY <1>1, <2>2, <2>3
  <2> QED BY <1>1, <2>1, <2>2, <2>4 DEF OnRecord
<1> QED BY <1>2, <1>3

LEMMA StacksFacts ==
  ASSUME TransfersInv, NEW r \in Roots
  PROVE  /\ OnRecord(steps[r].undo) /\ OnRecord(steps[r].redo)
         /\ \A i \in DOMAIN steps[r].redo : steps[r].redo[i].kind # "system-trash-only"
         /\ steps[r] \in [undo : Seq(Entry), redo : Seq(Entry)]
  BY DEF TransfersInv, TransfersTyped, StepsInv, OnRecord

\* A command that begins.
Begins(job) ==
  /\ job \in Working /\ job.done = 0 /\ job.stage = "run" /\ job.before = disk /\ job.surprised = {}
  /\ ~ job.failed /\ ~ job.partial /\ WellPlanned(job) /\ Applies(job)

LEMMA BeginFacts ==
  ASSUME NEW job, Begins(job)
  PROVE  JobInv(disk, job) /\ ~ Between(job) /\ Made(job) = {}
<1>1. /\ job.plan \in Seq(Pair) /\ DOMAIN job.plan = 1..Len(job.plan) /\ Len(job.plan) \in Nat
      /\ \A i \in DOMAIN job.plan : i > 0
  BY PlanFacts DEF Begins, Working
<1>2. ~ Between(job) /\ ~ Linked(job) /\ Begun(job) = 0 /\ Cleared(job) = 0
  BY DEF Begins, Between, Linked, Begun, Cleared
<1>3. Made(job) = {} BY DEF Made, Begins
<1>4. Placed(job) BY <1>1, <1>2 DEF Placed, Begins
<1>5. Fresh(disk, job)
  <2>1. \A i \in DOMAIN job.plan : ~ (i <= 0) BY <1>1
  <2>2. \A i, j \in DOMAIN job.plan : ~ (j <= job.done) BY <1>1 DEF Begins
  <2>3. ASSUME Renames(job), NEW i \in DOMAIN job.plan, Changing(job.plan[i])
        PROVE  LiesAt(disk, job.plan[i].to) = {}
    BY <2>3 DEF Begins, WellPlanned
  <2> QED BY <1>2, <2>1, <2>2, <2>3 DEF Fresh
<1>6. Tracks(disk, job)
  <2>1. \A i \in DOMAIN job.plan : ~ (i <= job.done) BY <1>1 DEF Begins
  <2>2. job.before = disk /\ job.stage = "run" BY DEF Begins
  <2>3. TracksMoves(disk, job) BY <2>1, <2>2 DEF TracksMoves
  <2>4. TracksOthers(disk, job) BY <2>1, <2>2 DEF TracksOthers
  <2> QED BY <2>3, <2>4 DEF Tracks
<1> QED BY <1>2, <1>3, <1>4, <1>5, <1>6 DEF JobInv, Begins

LEMMA StartsStep ==
  ASSUME TransfersInv, NEW r \in Roots, NEW job, Begins(job), Starts(r, job)
  PROVE  TransfersInv'
<1>1. used' \in [commands : Nat, errors : Nat, strangers : Nat] BY UseFacts DEF Starts, TransfersInv
<1>2. Only(r, job) BY DEF Starts, Only
<1>3. MayBecome(r, job) BY BeginFacts DEF MayBecome, Begins
<1> QED BY <1>1, <1>2, <1>3, OnlyStep

LEMMA JobFacts ==
  ASSUME TransfersInv, NEW kind \in Kinds, NEW way \in {"do", "undo", "redo"}, NEW items \in Seq(Pair),
         NEW e \in Entry \cup {NoTransfer}, NEW job, job = Job(kind, way, items, e)
  PROVE  /\ job \in Working /\ job.done = 0 /\ job.stage = "run" /\ job.before = disk /\ job.surprised = {}
         /\ ~ job.failed /\ ~ job.partial
         /\ job.kind = kind /\ job.way = way /\ job.plan = items /\ job.entry = e
  BY DEF Job, Working, TransfersInv, TransfersTyped

\* The checks before anything is moved.
LEMMA CheckedMoves ==
  ASSUME TransfersInv, NEW items \in Seq(Pair), AllExist(items), Free(items)
  PROVE  /\ DistinctRenames(items)
         /\ \A i \in DOMAIN items : Changing(items[i]) => LiesAt(disk, items[i].to) = {}
<1>1. disk \in Disks /\ DOMAIN items = 1..Len(items) /\ Len(items) \in Nat
  BY PlanFacts DEF TransfersInv, TransfersTyped
<1>2. \A i \in DOMAIN items : LiesAt(disk, items[i].from) # {} BY <1>1, ExistsFacts DEF AllExist
<1>3. ASSUME NEW i \in DOMAIN items, Changing(items[i])
      PROVE  LiesAt(disk, items[i].to) = {} /\ \A j \in 1..(i - 1) : items[j].to # items[i].to
  BY <1>1, <1>3, ExistsFacts DEF Free, Changing
<1>4. ASSUME NEW i \in DOMAIN items, NEW j \in DOMAIN items, Changing(items[i])
      PROVE  items[i].to # items[j].from /\ (Changing(items[j]) /\ i # j => items[i].to # items[j].to)
  <2>1. items[i].to # items[j].from BY <1>2, <1>3, <1>4
  <2>2. ASSUME Changing(items[j]), i # j
        PROVE  items[i].to # items[j].to
    <3>1. i \in 1..(j - 1) \/ j \in 1..(i - 1) BY <1>1, <2>2
    <3> QED BY <1>3, <1>4, <2>2, <3>1
  <2> QED BY <2>1, <2>2
<1> QED BY <1>3, <1>4 DEF DistinctRenames

\* What is selected, and where it goes.
LEMMA SelectionFacts ==
  ASSUME NEW selection \in Selections
  PROVE  /\ selection \in Seq(Places) /\ DOMAIN selection = 1..Len(selection) /\ Len(selection) \in Nat
         /\ \E r \in Roots : TRUE
<1>1. PICK s \in Roots, d \in Directories, names \in Picks : selection = [i \in DOMAIN names |-> Place(s, d, names[i], 0)]
  BY DEF Selections
<1>2. names \in Seq(Bases) /\ DOMAIN names = 1..Len(names) /\ Len(names) \in Nat /\ \A i \in 1..Len(names) : names[i] \in Bases
  BY TransfersAssumption, ElementOfSeq
<1>3. 0 \in 0..MaxCopies BY TransfersAssumption
<1>4. \A i \in 1..Len(names) : Place(s, d, names[i], 0) \in Places BY <1>2, <1>3 DEF Place, Places
<1>5. selection \in [1..Len(names) -> Places] BY <1>1, <1>2, <1>4
<1>6. selection \in Seq(Places) BY <1>2, <1>5, IsASeq
<1> QED BY <1>6

LEMMA PairsFacts ==
  ASSUME NEW sources \in Seq(AllPlaces), NEW targets, \A i \in DOMAIN sources : targets[i] \in AllPlaces,
         NEW items, items = [i \in DOMAIN sources |-> [from |-> sources[i], to |-> targets[i]]]
  PROVE  items \in Seq(Pair)
<1>1. DOMAIN sources = 1..Len(sources) /\ Len(sources) \in Nat /\ \A i \in 1..Len(sources) : sources[i] \in AllPlaces
  BY ElementOfSeq
<1>2. items \in [1..Len(sources) -> Pair] BY <1>1 DEF Pair
<1> QED BY <1>1, <1>2, IsASeq


\* An item can be put under its name into any directory.
LEMMA MovedFacts ==
  ASSUME NEW p \in Places, NEW r \in Roots, NEW d \in Directories, NEW k \in 0..MaxCopies
  PROVE  /\ p \in AllPlaces /\ [p EXCEPT !.directory = d] \in AllPlaces
         /\ [p EXCEPT !.root = r, !.directory = d] \in AllPlaces /\ Place(r, d, p.base, k) \in AllPlaces
<1>1. Places \subseteq AllPlaces BY DEF AllPlaces
<1>2. /\ [p EXCEPT !.directory = d] \in Places
      /\ [p EXCEPT !.root = r, !.directory = d] \in Places /\ Place(r, d, p.base, k) \in Places
  BY DEF Places, Place
<1> QED BY <1>1, <1>2

LEMMA MoveStart ==
  ASSUME TransfersInv, NEW r \in Roots, NEW selection \in Selections, NEW d \in Directories, StartMoveEntries(r, selection, d)
  PROVE  TransfersInv'
<1>1. PICK targets : targets = [i \in DOMAIN selection |-> [selection[i] EXCEPT !.directory = d]]
  OBVIOUS
<1>2. PICK items : items = [i \in DOMAIN selection |-> [from |-> selection[i], to |-> targets[i]]]
  OBVIOUS
<1>3. selection \in Seq(Places) /\ \A i \in DOMAIN selection : selection[i] \in Places /\ selection[i] \in AllPlaces /\ targets[i] \in AllPlaces
  <2>1. selection \in Seq(Places) /\ DOMAIN selection = 1..Len(selection) /\ 0 \in 0..MaxCopies
    BY SelectionFacts, TransfersAssumption
  <2>2. ASSUME NEW i \in DOMAIN selection
        PROVE  selection[i] \in Places
    BY <2>1, ElementOfSeq
  <2> QED BY <1>1, <2>1, <2>2, MovedFacts
<1>4. selection \in Seq(AllPlaces) BY <1>3, SeqMonotonic DEF AllPlaces
<1>5. items \in Seq(Pair) BY <1>2, <1>3, <1>4, PairsFacts
<1>6. items = Pairs(selection, LAMBDA p : [p EXCEPT !.directory = d]) BY <1>1, <1>2 DEF Pairs
<1>7. PICK job : job = Job("rename", "do", items, NoTransfer) OBVIOUS
<1>8. AllExist(items) /\ Free(items) /\ Starts(r, job) BY <1>6, <1>7 DEF StartMoveEntries
<1>9. /\ job \in Working /\ job.done = 0 /\ job.stage = "run" /\ job.before = disk /\ job.surprised = {}
      /\ ~ job.failed /\ ~ job.partial
      /\ job.kind = "rename" /\ job.way = "do" /\ job.plan = items /\ job.entry = NoTransfer
  BY <1>5, <1>7, JobFacts DEF Kinds
<1>10. WellPlanned(job) /\ Applies(job)
  BY <1>5, <1>8, <1>9, CheckedMoves DEF WellPlanned, Applies, Renames
<1> QED BY <1>8, <1>9, <1>10, StartsStep DEF Begins

LEMMA CutStart ==
  ASSUME TransfersInv, NEW r \in Roots, NEW d \in Directories, StartCut(r, d)
  PROVE  TransfersInv'
<1>0. PICK selection : selection = clipboard.paths OBVIOUS
<1>1. selection \in Selections BY <1>0 DEF StartCut, TransfersInv, TransfersTyped
<1>2. PICK targets : targets = [i \in DOMAIN selection |-> [selection[i] EXCEPT !.root = r, !.directory = d]]
  OBVIOUS
<1>3. PICK items : items = [i \in DOMAIN selection |-> [from |-> selection[i], to |-> targets[i]]]
  OBVIOUS
<1>4. selection \in Seq(Places) /\ \A i \in DOMAIN selection : selection[i] \in Places /\ selection[i] \in AllPlaces /\ targets[i] \in AllPlaces
  <2>1. selection \in Seq(Places) /\ DOMAIN selection = 1..Len(selection) /\ 0 \in 0..MaxCopies
    BY <1>1, SelectionFacts, TransfersAssumption
  <2>2. ASSUME NEW i \in DOMAIN selection
        PROVE  selection[i] \in Places
    BY <2>1, ElementOfSeq
  <2> QED BY <1>2, <2>1, <2>2, MovedFacts
<1>5. selection \in Seq(AllPlaces) BY <1>4, SeqMonotonic DEF AllPlaces
<1>6. items \in Seq(Pair) BY <1>3, <1>4, <1>5, PairsFacts
<1>7. items = Pairs(clipboard.paths, LAMBDA p : [p EXCEPT !.root = r, !.directory = d])
  BY <1>0, <1>2, <1>3 DEF Pairs
<1>8. PICK job : job = Job("move", "do", items, NoTransfer) OBVIOUS
<1>9. AllExist(items) /\ Free(items) /\ Starts(r, job) BY <1>7, <1>8 DEF StartCut
<1>10. /\ job \in Working /\ job.done = 0 /\ job.stage = "run" /\ job.before = disk /\ job.surprised = {}
       /\ ~ job.failed /\ ~ job.partial
       /\ job.kind = "move" /\ job.way = "do" /\ job.plan = items /\ job.entry = NoTransfer
  BY <1>6, <1>8, JobFacts DEF Kinds
<1>11. WellPlanned(job) /\ Applies(job)
  BY <1>6, <1>9, <1>10, CheckedMoves DEF WellPlanned, Applies, Renames
<1> QED BY <1>9, <1>10, <1>11, StartsStep DEF Begins

LEMMA DeleteStart ==
  ASSUME TransfersInv, NEW r \in Roots, NEW selection \in Selections, StartDelete(r, selection)
  PROVE  TransfersInv'
<1>1. PICK items : items = [i \in DOMAIN selection |-> [from |-> selection[i], to |-> selection[i]]]
  OBVIOUS
<1>2. selection \in Seq(AllPlaces) /\ \A i \in DOMAIN selection : selection[i] \in AllPlaces
  <2>1. selection \in Seq(Places) /\ Places \subseteq AllPlaces BY SelectionFacts DEF AllPlaces
  <2>2. selection \in Seq(AllPlaces) BY <2>1, SeqMonotonic
  <2> QED BY <2>2, ElementOfSeq
<1>3. items \in Seq(Pair) BY <1>1, <1>2, PairsFacts
<1>4. items = Pairs(selection, LAMBDA p : p) BY <1>1 DEF Pairs
<1>5. PICK job : job = Job("trash", "do", items, NoTransfer) OBVIOUS
<1>6. AllExist(items) /\ Starts(r, job) BY <1>4, <1>5 DEF StartDelete
<1>7. /\ job \in Working /\ job.done = 0 /\ job.stage = "run" /\ job.before = disk /\ job.surprised = {}
      /\ ~ job.failed /\ ~ job.partial
      /\ job.kind = "trash" /\ job.way = "do" /\ job.plan = items /\ job.entry = NoTransfer
  BY <1>3, <1>5, JobFacts DEF Kinds
<1>8. \A i \in DOMAIN items : items[i].from = items[i].to /\ LiesAt(disk, items[i].to) # {}
  BY <1>1, <1>6, ExistsFacts DEF AllExist, TransfersInv, TransfersTyped
<1>9. WellPlanned(job) /\ Applies(job) BY <1>7, <1>8 DEF WellPlanned, Applies, Renames, InPlace
<1> QED BY <1>6, <1>7, <1>9, StartsStep DEF Begins

LEMMA CopyStart ==
  ASSUME TransfersInv, NEW r \in Roots, NEW d \in Directories, StartCopy(r, d)
  PROVE  TransfersInv'
<1>1. PICK sources : sources = clipboard.paths OBVIOUS
<1>2. sources \in Selections BY <1>1 DEF StartCopy, TransfersInv, TransfersTyped
<1>3. PICK items \in UniqueDestinations(r, d, sources) : AllExist(items) /\ Starts(r, Job("copy", "do", items, NoTransfer))
  BY <1>1 DEF StartCopy
<1>4. PICK copies \in [DOMAIN sources -> 0..MaxCopies] :
        /\ items = [i \in DOMAIN sources |-> [from |-> sources[i], to |-> Place(r, d, sources[i].base, copies[i])]]
        /\ \A i \in DOMAIN sources : /\ ~ Exists(Place(r, d, sources[i].base, copies[i]))
                                     /\ \A j \in 1..(i - 1) : Place(r, d, sources[j].base, copies[j]) # Place(r, d, sources[i].base, copies[i])
  BY <1>3 DEF UniqueDestinations
<1>5. PICK targets : targets = [i \in DOMAIN sources |-> Place(r, d, sources[i].base, copies[i])]
  OBVIOUS
<1>6. /\ sources \in Seq(Places) /\ DOMAIN sources = 1..Len(sources) /\ Len(sources) \in Nat
      /\ \A i \in DOMAIN sources : sources[i] \in Places /\ targets[i] \in AllPlaces
  <2>1. sources \in Seq(Places) /\ DOMAIN sources = 1..Len(sources) /\ Len(sources) \in Nat
    BY <1>2, SelectionFacts
  <2>2. ASSUME NEW i \in DOMAIN sources
        PROVE  sources[i] \in Places /\ copies[i] \in 0..MaxCopies
    BY <2>1, ElementOfSeq
  <2> QED BY <1>5, <2>1, <2>2, MovedFacts
<1>7. sources \in Seq(AllPlaces) BY <1>6, SeqMonotonic DEF AllPlaces
<1>8. items = [i \in DOMAIN sources |-> [from |-> sources[i], to |-> targets[i]]] BY <1>4, <1>5
<1>9. items \in Seq(Pair) BY <1>6, <1>7, <1>8, PairsFacts
<1>10. PICK job : job = Job("copy", "do", items, NoTransfer) OBVIOUS
<1>11. /\ job \in Working /\ job.done = 0 /\ job.stage = "run" /\ job.before = disk /\ job.surprised = {}
       /\ ~ job.failed /\ ~ job.partial
       /\ job.kind = "copy" /\ job.way = "do" /\ job.plan = items /\ job.entry = NoTransfer
  BY <1>9, <1>10, JobFacts DEF Kinds
<1>12. Distinct(items)
  <2>1. DOMAIN items = DOMAIN sources /\ \A i \in DOMAIN sources : items[i].from = sources[i] /\ items[i].to = targets[i]
    BY <1>8
  <2>2. \A i \in DOMAIN sources : Exists(items[i].from) /\ ~ Exists(targets[i])
    BY <1>3, <1>4, <1>5, <2>1 DEF AllExist
  <2>3. ASSUME NEW i \in DOMAIN sources, NEW j \in DOMAIN sources, i # j
        PROVE  targets[i] # targets[j]
    <3>1. \A k \in DOMAIN sources : \A m \in 1..(k - 1) : targets[m] # targets[k]
      <4>1. ASSUME NEW k \in DOMAIN sources, NEW m \in 1..(k - 1)
            PROVE  targets[m] # targets[k]
        <5>1. m \in DOMAIN sources BY <1>6
        <5> QED BY <1>4, <1>5, <5>1
      <4> QED BY <4>1
    <3>2. i \in 1..(j - 1) \/ j \in 1..(i - 1) BY <1>6, <2>3
    <3> QED BY <3>1, <3>2
  <2> QED BY <2>1, <2>2, <2>3 DEF Distinct
<1>13. WellPlanned(job) /\ Applies(job) BY <1>11, <1>12 DEF WellPlanned, Applies, Renames
<1> QED BY <1>3, <1>10, <1>11, <1>13, StartsStep DEF Begins

LEMMA UndoStart ==
  ASSUME TransfersInv, NEW r \in Roots, StartUndo(r)
  PROVE  TransfersInv'
<1>1. PICK e : e = Last(steps[r].undo) OBVIOUS
<1>2. e \in Entry /\ EntryInv(e) BY <1>1, StacksFacts, StackFacts DEF StartUndo
<1>3. PICK back : back = Backwards(e.plan) OBVIOUS
<1>4. /\ e.plan \in Seq(Pair) /\ back \in Seq(Pair) /\ DOMAIN back = DOMAIN e.plan
      /\ \A i \in DOMAIN e.plan : back[i].from = e.plan[i].to /\ back[i].to = e.plan[i].from
      /\ DOMAIN e.plan = 1..Len(e.plan) /\ Len(e.plan) \in Nat
  BY <1>2, <1>3, PlanFacts DEF Entry
<1>5. e.kind \in {"rename", "move", "copy", "trash"}
  BY <1>1, <1>2 DEF StartUndo, EntryInv, Entry, Kinds
<1>6. CASE e.kind \in {"rename", "move"}
  <2>1. PICK job : job = Job("rename", "undo", back, e) OBVIOUS
  <2>2. AllExist(back) /\ Free(back) /\ Starts(r, job) BY <1>1, <1>3, <1>6, <2>1 DEF StartUndo
  <2>3. /\ job \in Working /\ job.done = 0 /\ job.stage = "run" /\ job.before = disk /\ job.surprised = {}
        /\ ~ job.failed /\ ~ job.partial
        /\ job.kind = "rename" /\ job.way = "undo" /\ job.plan = back /\ job.entry = e
    BY <1>2, <1>4, <2>1, JobFacts DEF Kinds
  <2>4. WellPlanned(job) BY <1>4, <2>2, <2>3, CheckedMoves DEF WellPlanned, Renames
  <2>5. Applies(job) BY <1>2, <1>3, <1>6, <2>3 DEF Applies
  <2> QED BY <2>2, <2>3, <2>4, <2>5, StartsStep DEF Begins
<1>7. CASE e.kind = "copy"
  <2>1. PICK items : items = [i \in DOMAIN e.plan |-> [from |-> e.plan[i].to, to |-> e.plan[i].to]]
    OBVIOUS
  <2>2. PICK job : job = Job("trash", "undo", items, e) OBVIOUS
  <2>3. items = Pairs([i \in DOMAIN back |-> back[i].from], LAMBDA p : p) BY <1>4, <2>1 DEF Pairs
  <2>4. Starts(r, job) BY <1>1, <1>3, <1>7, <2>2, <2>3 DEF StartUndo
  <2>5. items \in Seq(Pair)
    <3>1. \A i \in 1..Len(e.plan) : e.plan[i].to \in AllPlaces BY <1>4, PlanFacts
    <3>2. items \in [1..Len(e.plan) -> Pair] BY <1>4, <2>1, <3>1 DEF Pair
    <3> QED BY <1>4, <3>2, IsASeq
  <2>6. /\ job \in Working /\ job.done = 0 /\ job.stage = "run" /\ job.before = disk /\ job.surprised = {}
        /\ ~ job.failed /\ ~ job.partial
        /\ job.kind = "trash" /\ job.way = "undo" /\ job.plan = items /\ job.entry = e
    BY <1>2, <2>2, <2>5, JobFacts DEF Kinds
  <2>7. InPlace(items) BY <2>1 DEF InPlace
  <2>8. WellPlanned(job) BY <2>6, <2>7 DEF WellPlanned, Renames
  <2>9. Applies(job) BY <1>2, <1>7, <2>1, <2>6 DEF Applies
  <2> QED BY <2>4, <2>6, <2>8, <2>9, StartsStep DEF Begins
<1>8. CASE e.kind = "trash"
  <2>1. PICK job : job = Job("restore", "undo", back, e) OBVIOUS
  <2>2. Starts(r, job) BY <1>1, <1>3, <1>8, <2>1 DEF StartUndo
  <2>3. /\ job \in Working /\ job.done = 0 /\ job.stage = "run" /\ job.before = disk /\ job.surprised = {}
        /\ ~ job.failed /\ ~ job.partial
        /\ job.kind = "restore" /\ job.way = "undo" /\ job.plan = back /\ job.entry = e
    BY <1>2, <1>4, <2>1, JobFacts DEF Kinds
  <2>4. InPlace(back) BY <1>2, <1>4, <1>8 DEF InPlace, EntryInv
  <2>5. WellPlanned(job) BY <2>3, <2>4 DEF WellPlanned, Renames
  <2>6. Applies(job) BY <1>2, <1>3, <1>8, <2>3 DEF Applies
  <2> QED BY <2>2, <2>3, <2>5, <2>6, StartsStep DEF Begins
<1> QED BY <1>5, <1>6, <1>7, <1>8

LEMMA RedoStart ==
  ASSUME TransfersInv, NEW r \in Roots, StartRedo(r)
  PROVE  TransfersInv'
<1>1. PICK e : e = Last(steps[r].redo) OBVIOUS
<1>2. e \in Entry /\ EntryInv(e) /\ e.kind # "system-trash-only"
  BY <1>1, StacksFacts, StackFacts DEF StartRedo
<1>3. PICK items : items = e.plan OBVIOUS
<1>4. items \in Seq(Pair) BY <1>2, <1>3 DEF Entry
<1>5. e.kind \in {"rename", "move", "copy", "trash"} BY <1>2 DEF EntryInv, Entry, Kinds
<1>6. CASE e.kind \in {"rename", "move"}
  <2>1. PICK job : job = Job("rename", "redo", items, e) OBVIOUS
  <2>2. AllExist(items) /\ Free(items) /\ Starts(r, job) BY <1>1, <1>3, <1>6, <2>1 DEF StartRedo
  <2>3. /\ job \in Working /\ job.done = 0 /\ job.stage = "run" /\ job.before = disk /\ job.surprised = {}
        /\ ~ job.failed /\ ~ job.partial
        /\ job.kind = "rename" /\ job.way = "redo" /\ job.plan = items /\ job.entry = e
    BY <1>2, <1>4, <2>1, JobFacts DEF Kinds
  <2>4. WellPlanned(job) BY <1>4, <2>2, <2>3, CheckedMoves DEF WellPlanned, Renames
  <2>5. Applies(job) BY <1>2, <1>3, <1>6, <2>3 DEF Applies
  <2> QED BY <2>2, <2>3, <2>4, <2>5, StartsStep DEF Begins
<1>7. CASE e.kind = "copy"
  <2>1. PICK job : job = Job("copy", "redo", items, e) OBVIOUS
  <2>2. Starts(r, job) BY <1>1, <1>3, <1>7, <2>1 DEF StartRedo
  <2>3. /\ job \in Working /\ job.done = 0 /\ job.stage = "run" /\ job.before = disk /\ job.surprised = {}
        /\ ~ job.failed /\ ~ job.partial
        /\ job.kind = "copy" /\ job.way = "redo" /\ job.plan = items /\ job.entry = e
    BY <1>2, <1>4, <2>1, JobFacts DEF Kinds
  <2>4. WellPlanned(job) BY <1>2, <1>3, <1>7, <2>3 DEF WellPlanned, Renames, EntryInv
  <2>5. Applies(job) BY <1>2, <1>3, <1>7, <2>3 DEF Applies
  <2> QED BY <2>2, <2>3, <2>4, <2>5, StartsStep DEF Begins
<1>8. CASE e.kind = "trash"
  <2>1. PICK job : job = Job("trash", "redo", items, e) OBVIOUS
  <2>2. Starts(r, job) BY <1>1, <1>3, <1>8, <2>1 DEF StartRedo
  <2>3. /\ job \in Working /\ job.done = 0 /\ job.stage = "run" /\ job.before = disk /\ job.surprised = {}
        /\ ~ job.failed /\ ~ job.partial
        /\ job.kind = "trash" /\ job.way = "redo" /\ job.plan = items /\ job.entry = e
    BY <1>2, <1>4, <2>1, JobFacts DEF Kinds
  <2>4. WellPlanned(job) BY <1>2, <1>3, <1>8, <2>3 DEF WellPlanned, Renames, EntryInv
  <2>5. Applies(job) BY <1>2, <1>3, <1>8, <2>3 DEF Applies
  <2> QED BY <2>2, <2>3, <2>4, <2>5, StartsStep DEF Begins
<1> QED BY <1>5, <1>6, <1>7, <1>8

\* All of it is done, and nothing else happened.
Completed(d, job) ==
  /\ Renames(job) =>
       /\ \A i \in DOMAIN job.plan : Changing(job.plan[i]) =>
            LiesAt(d, job.plan[i].to) = LiesAt(job.before, job.plan[i].from) /\ LiesAt(d, job.plan[i].from) = {}
       /\ \A x \in AllPlaces : (\A i \in DOMAIN job.plan : Changing(job.plan[i]) => x \notin {job.plan[i].from, job.plan[i].to}) =>
            LiesAt(d, x) = LiesAt(job.before, x)
  /\ ~ Renames(job) =>
       /\ \A i \in DOMAIN job.plan : /\ LiesAt(d, job.plan[i].to) = Outcome(job, i)
                                     /\ job.kind # "trash" => LiesAt(job.before, job.plan[i].to) = {}
       /\ \A x \in AllPlaces : (\A i \in DOMAIN job.plan : x # job.plan[i].to) => LiesAt(d, x) = LiesAt(job.before, x)

LEMMA CompletedFacts ==
  ASSUME NEW d, NEW job \in Working, JobInv(d, job), job.stage = "run", job.done = Len(job.plan), job.surprised = {},
         job.kind = "trash" \/ ~ job.failed
  PROVE  Completed(d, job)
<1>1. DOMAIN job.plan = 1..Len(job.plan) /\ Len(job.plan) \in Nat /\ \A i \in DOMAIN job.plan : i <= job.done
  BY PlanFacts DEF Working
<1>2. Undisturbed(job) BY DEF JobInv, Placed, Undisturbed
<1>3. Tracks(d, job) BY <1>2 DEF JobInv
<1>4. CASE Renames(job)
  <2>1. TracksMoves(d, job) BY <1>3, <1>4 DEF Tracks
  <2>2. ASSUME NEW i \in DOMAIN job.plan, Changing(job.plan[i])
        PROVE  LiesAt(d, job.plan[i].to) = LiesAt(job.before, job.plan[i].from) /\ LiesAt(d, job.plan[i].from) = {}
    BY <1>1, <2>1, <2>2 DEF TracksMoves
  <2>3. ASSUME NEW x \in AllPlaces, \A i \in DOMAIN job.plan : Changing(job.plan[i]) => x \notin {job.plan[i].from, job.plan[i].to}
        PROVE  LiesAt(d, x) = LiesAt(job.before, x)
    BY <2>1, <2>3 DEF TracksMoves
  <2> QED BY <1>4, <2>2, <2>3 DEF Completed
<1>5. CASE ~ Renames(job) BY <1>1, <1>3, <1>5 DEF Tracks, TracksOthers, Completed
<1> QED BY <1>4, <1>5

\* A command that was done back leaves the disk as it was.
LEMMA UnmovedDisk ==
  ASSUME NEW d \in Disks, NEW job \in Working, JobInv(d, job), job.stage = "back", job.done = 0, Undisturbed(job)
  PROVE  d = job.before
<1>1. \A i \in DOMAIN job.plan : ~ (i <= job.done) BY PlanFacts DEF Working
<1>2. Tracks(d, job) BY DEF JobInv
<1>3. \A x \in AllPlaces : LiesAt(d, x) = LiesAt(job.before, x)
  BY <1>1, <1>2 DEF Tracks, TracksMoves, TracksOthers
<1> QED BY <1>3, SameDisk DEF Working

LEMMA FrontFacts ==
  ASSUME NEW stack, OnRecord(stack)
  PROVE  OnRecord(Front(stack)) /\ \A i \in DOMAIN Front(stack) : \E j \in DOMAIN stack : Front(stack)[i] = stack[j]
<1>1. CASE stack # <<>> BY <1>1, StackFacts
<1>2. CASE stack = <<>>
  <2>1. Len(stack) = 0 BY <1>2
  <2>2. PICK k : k = Len(stack) - 1 OBVIOUS
  <2>3. PICK front : front = SubSeq(stack, 1, k) OBVIOUS
  <2>4. Front(stack) = front BY <2>2, <2>3 DEF Front
  <2>5. k \in Int /\ k < 1 /\ \A i \in 1..k : stack[i] \in Entry BY <2>1, <2>2
  <2>6. front \in Seq(Entry) /\ Len(front) = 0 BY <2>3, <2>5, SubSeqProperties
  <2>7. DOMAIN front = {} BY <2>6
  <2> QED BY <2>4, <2>6, <2>7 DEF OnRecord
<1> QED BY <1>1, <1>2

Redoable(stack) == OnRecord(stack) /\ \A i \in DOMAIN stack : stack[i].kind # "system-trash-only"

LEMMA StacksStep ==
  ASSUME TransfersInv, NEW r \in Roots, NEW u, NEW v, OnRecord(u), Redoable(v),
         steps' = [steps EXCEPT ![r] = [undo |-> u, redo |-> v]]
  PROVE  StepsInv' /\ steps' \in [Roots -> [undo : Seq(Entry), redo : Seq(Entry)]]
<1>1. steps \in [Roots -> [undo : Seq(Entry), redo : Seq(Entry)]]
  BY DEF TransfersInv, TransfersTyped
<1>2. steps' \in [Roots -> [undo : Seq(Entry), redo : Seq(Entry)]] BY <1>1 DEF OnRecord, Redoable
<1>3. /\ steps'[r].undo = u /\ steps'[r].redo = v /\ \A s \in Roots : s # r => steps'[s] = steps[s]
  BY <1>1
<1>4. StepsInv' BY <1>3 DEF StepsInv, OnRecord, Redoable, TransfersInv
<1> QED BY <1>2, <1>4

LEMMA EndsStep ==
  ASSUME TransfersInv, NEW r \in Roots, jobs' = [jobs EXCEPT ![r] = NoTransfer], UNCHANGED <<disk, trash, excused, clipboard, used>>,
         StepsInv', steps' \in [Roots -> [undo : Seq(Entry), redo : Seq(Entry)]], faults' \subseteq {"cut"}
  PROVE  TransfersInv'
<1>1. PICK new : new = NoTransfer OBVIOUS
<1>2. MayBecome(r, new) BY <1>1 DEF MayBecome
<1>3. jobs' = [jobs EXCEPT ![r] = new] BY <1>1
<1>4. /\ clipboard' # NoTransfer => clipboard'.paths \in Selections
      /\ used' \in [commands : Nat, errors : Nat, strangers : Nat]
  BY DEF TransfersInv, TransfersTyped
<1> QED BY <1>2, <1>3, <1>4, QuietStep

LEMMA FinishedFacts ==
  ASSUME TransfersInv, NEW r \in Roots, jobs[r] # NoTransfer
  PROVE  r \in Busy /\ jobs[r] \in Working /\ JobInv(disk, jobs[r]) /\ disk \in Disks
  BY DEF TransfersInv, TransfersTyped, JobsInv, Busy

LEMMA ForgetStep ==
  ASSUME TransfersInv, NEW r \in Roots, UndoSystemTrash(r)
  PROVE  TransfersInv'
<1>1. PICK u, v : u = Front(steps[r].undo) /\ v = steps[r].redo OBVIOUS
<1>2. OnRecord(u) /\ Redoable(v) /\ steps[r] \in [undo : Seq(Entry), redo : Seq(Entry)]
  BY <1>1, StacksFacts, FrontFacts DEF Redoable
<1>3. steps' = [steps EXCEPT ![r] = [undo |-> u, redo |-> v]]
  <2>1. steps' = [steps EXCEPT ![r] = [steps[r] EXCEPT !.undo = u]]
    BY <1>1 DEF UndoSystemTrash, TransfersInv, TransfersTyped
  <2>2. [steps[r] EXCEPT !.undo = u] = [undo |-> u, redo |-> v] BY <1>1, <1>2
  <2> QED BY <2>1, <2>2
<1>4. StepsInv' /\ steps' \in [Roots -> [undo : Seq(Entry), redo : Seq(Entry)]]
  BY <1>2, <1>3, StacksStep
<1>5. jobs' = [jobs EXCEPT ![r] = NoTransfer] BY DEF UndoSystemTrash, TransfersInv, TransfersTyped
<1>6. UNCHANGED <<disk, trash, excused, clipboard, used>> /\ faults' \subseteq {"cut"}
  BY DEF UndoSystemTrash, clientVars, TransfersInv
<1> QED BY <1>4, <1>5, <1>6, EndsStep

\* A step that leaves the disk and the commands alone.
LEMMA StillStep ==
  ASSUME TransfersInv, UNCHANGED <<disk, trash, jobs, steps, excused, faults>>,
         clipboard' # NoTransfer => clipboard'.paths \in Selections,
         used' \in [commands : Nat, errors : Nat, strangers : Nat]
  PROVE  TransfersInv'
<1>1. Busy' = Busy BY DEF Busy
<1>2. TransfersTyped' BY <1>1 DEF TransfersInv, TransfersTyped
<1>3. JobsInv' /\ StepsInv' BY <1>1 DEF TransfersInv, JobsInv, StepsInv
<1>4. ForestInv' BY <1>1 DEF TransfersInv, ForestInv
<1>5. KeptInv' BY <1>1 DEF TransfersInv, KeptInv
<1> QED BY <1>2, <1>3, <1>4, <1>5 DEF TransfersInv

LEMMA ClipStep ==
  ASSUME TransfersInv, NEW selection \in Selections, NEW cut \in BOOLEAN, Clip(selection, cut)
  PROVE  TransfersInv'
<1>1. used' \in [commands : Nat, errors : Nat, strangers : Nat] BY UseFacts DEF Clip, TransfersInv
<1>2. clipboard'.paths \in Selections BY DEF Clip
<1>3. UNCHANGED <<disk, trash, jobs, steps, excused, faults>> BY DEF Clip
<1> QED BY <1>1, <1>2, <1>3, StillStep

LEMMA EndFailedStep ==
  ASSUME TransfersInv, NEW r \in Roots, EndFailed(r)
  PROVE  TransfersInv'
<1>1. /\ jobs[r] # NoTransfer /\ jobs' = [jobs EXCEPT ![r] = NoTransfer]
      /\ UNCHANGED <<disk, trash, excused, clipboard, used, steps>>
      /\ (jobs[r].stage = "back" /\ jobs[r].done = 0) \/ jobs[r].failed
      /\ faults' = IF jobs[r].kind # "trash" /\ jobs[r].surprised = {} /\ ~ jobs[r].failed /\ ~ jobs[r].partial /\ disk # jobs[r].before
                   THEN faults \cup {"failure"} ELSE faults
  BY DEF EndFailed, clientVars
<1>2. r \in Busy /\ jobs[r] \in Working /\ JobInv(disk, jobs[r]) /\ disk \in Disks
  BY <1>1, FinishedFacts
<1>3. ASSUME jobs[r].surprised = {}, ~ jobs[r].failed, ~ jobs[r].partial
      PROVE  disk = jobs[r].before
  BY <1>1, <1>2, <1>3, UnmovedDisk DEF Undisturbed
<1>4. faults' \subseteq {"cut"} BY <1>1, <1>3 DEF TransfersInv
<1>5. StepsInv' /\ steps' \in [Roots -> [undo : Seq(Entry), redo : Seq(Entry)]]
  BY <1>1 DEF TransfersInv, TransfersTyped, StepsInv
<1> QED BY <1>1, <1>4, <1>5, EndsStep

\* To undo a step, and to redo it, gives the disk of before and of after it.
LEMMA AppliedDisk ==
  ASSUME NEW d \in Disks, NEW job \in Working, Completed(d, job), Applies(job), job.way # "do", ~ job.failed,
         job.entry.alone, ~ job.entry.foreign,
         job.before = IF job.way = "undo" THEN job.entry.after ELSE job.entry.before
  PROVE  d = IF job.way = "undo" THEN job.entry.before ELSE job.entry.after
<1>1. PICK e, items : e = job.entry /\ items = e.plan OBVIOUS
<1>2. /\ e \in Entry /\ EntryInv(e) /\ Spans(e) /\ e.kind \in {"rename", "move", "copy", "trash"}
      /\ items \in Seq(Pair) /\ e.before \in Disks /\ e.after \in Disks
  BY <1>1 DEF Applies, EntryInv, Entry, Kinds
<1>3. job.way \in {"undo", "redo"} BY DEF Working
<1>4. /\ Backwards(items) \in Seq(Pair) /\ DOMAIN Backwards(items) = DOMAIN items
      /\ \A i \in DOMAIN items : Backwards(items)[i].from = items[i].to /\ Backwards(items)[i].to = items[i].from
      /\ \A i \in DOMAIN items : items[i].from \in AllPlaces /\ items[i].to \in AllPlaces
  BY <1>2, PlanFacts
<1>5. CASE e.kind \in {"rename", "move"}
  <2>1. Renames(job) BY <1>1, <1>5 DEF Applies, Renames
  <2>2. ASSUME NEW x \in AllPlaces, \A i \in DOMAIN items : Changing(items[i]) => x \notin {items[i].from, items[i].to}
        PROVE  LiesAt(e.after, x) = LiesAt(e.before, x)
    BY <1>1, <1>2, <1>5, <2>2 DEF Spans
  <2>3. ASSUME NEW i \in DOMAIN items, Changing(items[i])
        PROVE  /\ LiesAt(e.before, items[i].to) = {} /\ LiesAt(e.after, items[i].from) = {}
               /\ LiesAt(e.after, items[i].to) = LiesAt(e.before, items[i].from)
    BY <1>1, <1>2, <1>5, <2>3 DEF Spans
  <2>4. CASE job.way = "undo"
    <3>1. job.plan = Backwards(items) /\ job.before = e.after BY <1>1, <1>5, <2>4 DEF Applies
    <3>2. ASSUME NEW i \in DOMAIN items, Changing(items[i])
          PROVE  LiesAt(d, items[i].from) = LiesAt(e.before, items[i].from) /\ LiesAt(d, items[i].to) = LiesAt(e.before, items[i].to)
      <4>1. i \in DOMAIN job.plan /\ Changing(job.plan[i]) /\ job.plan[i].from = items[i].to /\ job.plan[i].to = items[i].from
        BY <1>4, <3>1, <3>2 DEF Changing
      <4>2. LiesAt(d, items[i].from) = LiesAt(e.after, items[i].to) /\ LiesAt(d, items[i].to) = {}
        BY <2>1, <3>1, <4>1 DEF Completed
      <4> QED BY <2>3, <3>2, <4>2
    <3>3. ASSUME NEW x \in AllPlaces, \A i \in DOMAIN items : Changing(items[i]) => x \notin {items[i].from, items[i].to}
          PROVE  LiesAt(d, x) = LiesAt(e.before, x)
      <4>1. \A i \in DOMAIN job.plan : Changing(job.plan[i]) => x \notin {job.plan[i].from, job.plan[i].to}
        BY <1>4, <3>1, <3>3 DEF Changing
      <4>2. LiesAt(d, x) = LiesAt(e.after, x) BY <2>1, <3>1, <4>1 DEF Completed
      <4> QED BY <2>2, <3>3, <4>2
    <3>4. \A x \in AllPlaces : LiesAt(d, x) = LiesAt(e.before, x) BY <3>2, <3>3
    <3> QED BY <1>1, <1>2, <2>4, <3>4, SameDisk
  <2>5. CASE job.way = "redo"
    <3>1. job.plan = items /\ job.before = e.before BY <1>1, <1>5, <2>5 DEF Applies
    <3>2. ASSUME NEW i \in DOMAIN items, Changing(items[i])
          PROVE  LiesAt(d, items[i].from) = LiesAt(e.after, items[i].from) /\ LiesAt(d, items[i].to) = LiesAt(e.after, items[i].to)
      <4>1. LiesAt(d, items[i].to) = LiesAt(e.before, items[i].from) /\ LiesAt(d, items[i].from) = {}
        BY <2>1, <3>1, <3>2 DEF Completed
      <4> QED BY <2>3, <3>2, <4>1
    <3>3. ASSUME NEW x \in AllPlaces, \A i \in DOMAIN items : Changing(items[i]) => x \notin {items[i].from, items[i].to}
          PROVE  LiesAt(d, x) = LiesAt(e.after, x)
      <4>1. LiesAt(d, x) = LiesAt(e.before, x) BY <2>1, <3>1, <3>3 DEF Completed
      <4> QED BY <2>2, <3>3, <4>1
    <3>4. \A x \in AllPlaces : LiesAt(d, x) = LiesAt(e.after, x) BY <3>2, <3>3
    <3> QED BY <1>1, <1>2, <2>5, <3>4, SameDisk
  <2> QED BY <1>3, <2>4, <2>5
<1>6. CASE e.kind = "copy"
  <2>1. ~ Renames(job) BY <1>1, <1>3, <1>6 DEF Applies, Renames
  <2>2. ASSUME NEW x \in AllPlaces, \A i \in DOMAIN items : x # items[i].to
        PROVE  LiesAt(e.after, x) = LiesAt(e.before, x)
    BY <1>1, <1>2, <1>6, <2>2 DEF Spans
  <2>3. ASSUME NEW i \in DOMAIN items
        PROVE  LiesAt(e.before, items[i].to) = {} /\ LiesAt(e.after, items[i].to) = LiesAt(e.before, items[i].from)
    BY <1>1, <1>2, <1>6 DEF Spans
  <2>4. CASE job.way = "undo"
    <3>1. /\ job.kind = "trash" /\ job.plan = [i \in DOMAIN items |-> [from |-> items[i].to, to |-> items[i].to]]
          /\ job.before = e.after
      BY <1>1, <1>6, <2>4 DEF Applies
    <3>2. DOMAIN job.plan = DOMAIN items /\ \A i \in DOMAIN items : job.plan[i].to = items[i].to
      BY <3>1
    <3>3. \A i \in DOMAIN items : LiesAt(d, items[i].to) = {}
      BY <2>1, <3>1, <3>2 DEF Completed, Outcome
    <3>4. ASSUME NEW x \in AllPlaces, \A i \in DOMAIN items : x # items[i].to
          PROVE  LiesAt(d, x) = LiesAt(e.after, x)
      <4>1. \A i \in DOMAIN job.plan : x # job.plan[i].to BY <3>2, <3>4
      <4> QED BY <2>1, <3>1, <4>1 DEF Completed
    <3>5. \A x \in AllPlaces : LiesAt(d, x) = LiesAt(e.before, x) BY <2>2, <2>3, <3>3, <3>4
    <3> QED BY <1>1, <1>2, <2>4, <3>5, SameDisk
  <2>5. CASE job.way = "redo"
    <3>1. job.kind = "copy" /\ job.plan = items /\ job.before = e.before
      BY <1>1, <1>6, <2>5 DEF Applies
    <3>2. \A i \in DOMAIN items : LiesAt(d, items[i].to) = LiesAt(e.before, items[i].from)
      BY <2>1, <3>1 DEF Completed, Outcome
    <3>3. ASSUME NEW x \in AllPlaces, \A i \in DOMAIN items : x # items[i].to
          PROVE  LiesAt(d, x) = LiesAt(e.before, x)
      BY <2>1, <3>1, <3>3 DEF Completed
    <3>4. \A x \in AllPlaces : LiesAt(d, x) = LiesAt(e.after, x) BY <2>2, <2>3, <3>2, <3>3
    <3> QED BY <1>1, <1>2, <2>5, <3>4, SameDisk
  <2> QED BY <1>3, <2>4, <2>5
<1>7. CASE e.kind = "trash"
  <2>1. ~ Renames(job) BY <1>1, <1>3, <1>7 DEF Applies, Renames
  <2>2. ASSUME NEW x \in AllPlaces, \A i \in DOMAIN items : x # items[i].to
        PROVE  LiesAt(e.after, x) = LiesAt(e.before, x)
    BY <1>1, <1>2, <1>7, <2>2 DEF Spans
  <2>3. \A i \in DOMAIN items : LiesAt(e.after, items[i].to) = {} /\ items[i].from = items[i].to
    BY <1>1, <1>2, <1>7 DEF Spans, EntryInv, InPlace
  <2>4. CASE job.way = "undo"
    <3>1. job.kind = "restore" /\ job.plan = Backwards(items) /\ job.before = e.after
      BY <1>1, <1>7, <2>4 DEF Applies
    <3>2. DOMAIN job.plan = DOMAIN items /\ \A i \in DOMAIN items : job.plan[i].to = items[i].to
      BY <1>4, <2>3, <3>1
    <3>3. \A i \in DOMAIN items : LiesAt(d, items[i].to) = LiesAt(e.before, items[i].to)
      BY <1>1, <2>1, <3>1, <3>2 DEF Completed, Outcome
    <3>4. ASSUME NEW x \in AllPlaces, \A i \in DOMAIN items : x # items[i].to
          PROVE  LiesAt(d, x) = LiesAt(e.after, x)
      <4>1. \A i \in DOMAIN job.plan : x # job.plan[i].to BY <3>2, <3>4
      <4> QED BY <2>1, <3>1, <4>1 DEF Completed
    <3>5. \A x \in AllPlaces : LiesAt(d, x) = LiesAt(e.before, x) BY <2>2, <3>3, <3>4
    <3> QED BY <1>1, <1>2, <2>4, <3>5, SameDisk
  <2>5. CASE job.way = "redo"
    <3>1. job.kind = "trash" /\ job.plan = items /\ job.before = e.before
      BY <1>1, <1>7, <2>5 DEF Applies
    <3>2. \A i \in DOMAIN items : LiesAt(d, items[i].to) = {} BY <2>1, <3>1 DEF Completed, Outcome
    <3>3. ASSUME NEW x \in AllPlaces, \A i \in DOMAIN items : x # items[i].to
          PROVE  LiesAt(d, x) = LiesAt(e.before, x)
      BY <2>1, <3>1, <3>3 DEF Completed
    <3>4. \A x \in AllPlaces : LiesAt(d, x) = LiesAt(e.after, x) BY <2>2, <2>3, <3>2, <3>3
    <3> QED BY <1>1, <1>2, <2>5, <3>4, SameDisk
  <2> QED BY <1>3, <2>4, <2>5
<1> QED BY <1>2, <1>5, <1>6, <1>7

LEMMA EndAppliedStep ==
  ASSUME TransfersInv, NEW r \in Roots, EndApplied(r)
  PROVE  TransfersInv'
<1>1. PICK job : job = jobs[r] OBVIOUS
<1>2. /\ job # NoTransfer /\ job.stage = "run" /\ job.done = Len(job.plan) /\ job.way # "do" /\ ~ job.failed
      /\ jobs' = [jobs EXCEPT ![r] = NoTransfer]
      /\ UNCHANGED <<disk, trash, excused, clipboard, used>>
  BY <1>1 DEF EndApplied, Finished, clientVars
<1>3. r \in Busy /\ job \in Working /\ JobInv(disk, job) /\ disk \in Disks
  BY <1>1, <1>2, FinishedFacts
<1>4. Applies(job) /\ EntryInv(job.entry) /\ job.entry.kind # "system-trash-only" /\ job.entry \in Entry
  BY <1>2, <1>3 DEF JobInv, Applies, EntryInv
<1>5. StepsInv' /\ steps' \in [Roots -> [undo : Seq(Entry), redo : Seq(Entry)]]
  <2>1. /\ OnRecord(steps[r].undo) /\ OnRecord(steps[r].redo)
        /\ \A i \in DOMAIN steps[r].redo : steps[r].redo[i].kind # "system-trash-only"
    BY StacksFacts
  <2>2. CASE job.way = "undo"
    <3>1. PICK u, v : u = Front(steps[r].undo) /\ v = Append(steps[r].redo, job.entry) OBVIOUS
    <3>2. OnRecord(u) /\ Redoable(v) BY <1>4, <2>1, <3>1, StackFacts, FrontFacts DEF Redoable
    <3>3. steps' = [steps EXCEPT ![r] = [undo |-> u, redo |-> v]] BY <1>1, <2>2, <3>1 DEF EndApplied
    <3> QED BY <3>2, <3>3, StacksStep
  <2>3. CASE job.way # "undo"
    <3>1. PICK u, v : u = Append(steps[r].undo, job.entry) /\ v = Front(steps[r].redo) OBVIOUS
    <3>2. OnRecord(u) BY <1>4, <2>1, <3>1, StackFacts
    <3>3. Redoable(v) BY <2>1, <3>1, FrontFacts DEF Redoable
    <3>4. steps' = [steps EXCEPT ![r] = [undo |-> u, redo |-> v]] BY <1>1, <2>3, <3>1 DEF EndApplied
    <3> QED BY <3>2, <3>3, <3>4, StacksStep
  <2> QED BY <2>2, <2>3
<1>6. ASSUME job.surprised = {}, job.entry.alone, ~ job.entry.foreign,
             job.before = IF job.way = "undo" THEN job.entry.after ELSE job.entry.before
      PROVE  disk = IF job.way = "undo" THEN job.entry.before ELSE job.entry.after
  <2>1. Completed(disk, job) BY <1>2, <1>3, <1>6, CompletedFacts
  <2> QED BY <1>2, <1>3, <1>4, <1>6, <2>1, AppliedDisk
<1>7. faults' \subseteq {"cut"} BY <1>1, <1>6 DEF EndApplied, TransfersInv
<1> QED BY <1>2, <1>5, <1>7, EndsStep

\* What is put on record of a plan.
LEMMA RecordedFacts ==
  ASSUME NEW r \in Roots, NEW items \in Seq(Pair)
  PROVE  Recorded(r, items) \in Seq(Pair) /\ (jobs[r].kind # "move" => Recorded(r, items) = items)
<1>1. /\ DOMAIN items = 1..Len(items) /\ Len(items) \in Nat
      /\ \A i \in DOMAIN items : items[i] \in Pair /\ items[i].from \in AllPlaces /\ items[i].to \in AllPlaces
  BY PlanFacts, ElementOfSeq
<1>2. PICK paired : paired = Recorded(r, items) OBVIOUS
<1>3. paired = [i \in DOMAIN items |-> [to |-> items[i].to,
                  from |-> IF jobs[r].kind = "move" /\ items[i].from.root # r THEN Mangled(items[i].from, r) ELSE items[i].from]]
  BY <1>2 DEF Recorded
<1>4. \A p \in AllPlaces : Mangled(p, r) \in AllPlaces
  <2>1. ASSUME NEW p \in Places
        PROVE  Mangled(p, r) \in AllPlaces
    BY DEF AllPlaces
  <2>2. ASSUME NEW p \in Places, NEW s \in Roots
        PROVE  Mangled(Mangled(p, s), r) \in AllPlaces
    <3>1. Mangled(Mangled(p, s), r) = Mangled(p, r) BY DEF Mangled, Place
    <3> QED BY <2>1, <3>1
  <2> QED BY <2>1, <2>2 DEF AllPlaces
<1>5. \A i \in DOMAIN items : paired[i] \in Pair BY <1>1, <1>3, <1>4 DEF Pair
<1>6. paired \in [1..Len(items) -> Pair] BY <1>1, <1>3, <1>5
<1>7. paired \in Seq(Pair) BY <1>1, <1>6, IsASeq
<1>8. ASSUME jobs[r].kind # "move"
      PROVE  paired = items
  <2>1. \A i \in DOMAIN items : paired[i] = items[i] BY <1>1, <1>3, <1>8 DEF Pair
  <2>2. items = [i \in DOMAIN items |-> items[i]] BY <1>1
  <2>3. paired = [i \in DOMAIN items |-> paired[i]] /\ DOMAIN paired = DOMAIN items BY <1>3
  <2> QED BY <2>1, <2>2, <2>3
<1> QED BY <1>2, <1>7, <1>8

LEMMA EndCommandStep ==
  ASSUME TransfersInv, NEW r \in Roots, EndCommand(r)
  PROVE  TransfersInv'
<1>1. PICK job : job = jobs[r] OBVIOUS
<1>2. /\ job # NoTransfer /\ job.stage = "run" /\ job.done = Len(job.plan) /\ job.way = "do"
      /\ jobs' = [jobs EXCEPT ![r] = NoTransfer]
      /\ UNCHANGED <<disk, trash, excused, clipboard, used, faults>>
  BY <1>1 DEF EndCommand, Finished
<1>3. r \in Busy /\ job \in Working /\ JobInv(disk, job) /\ disk \in Disks
  BY <1>1, <1>2, FinishedFacts
<1>4. PICK kind : kind = IF job.kind = "trash" /\ ~ Recoverable(job) THEN "system-trash-only" ELSE job.kind
  OBVIOUS
<1>5. PICK paired : paired = Recorded(r, job.plan) OBVIOUS
<1>6. PICK e : e = [kind |-> kind, plan |-> paired, before |-> job.before, after |-> disk,
                    alone |-> job.surprised = {}, foreign |-> paired # job.plan]
  OBVIOUS
<1>7. /\ e.kind = kind /\ e.plan = paired /\ e.before = job.before /\ e.after = disk
      /\ e.alone = (job.surprised = {}) /\ e.foreign = (paired # job.plan)
  BY <1>6
<1>8. paired \in Seq(Pair) /\ (job.kind # "move" => paired = job.plan) /\ job.before \in Disks /\ job.plan \in Seq(Pair)
  BY <1>1, <1>3, <1>5, RecordedFacts DEF Working
<1>9. kind \in Kinds \cup {"system-trash-only"} /\ kind # "restore" /\ job.kind # "restore"
  BY <1>2, <1>3, <1>4 DEF JobInv, Applies, Working
<1>10. e \in Entry BY <1>3, <1>6, <1>8, <1>9 DEF Entry
<1>11. ASSUME e.alone, ~ e.foreign
       PROVE  Spans(e)
  <2>1. job.surprised = {} /\ paired = job.plan BY <1>7, <1>11
  <2>2. Completed(disk, job) BY <1>2, <1>3, <2>1, CompletedFacts DEF JobInv, Placed
  <2>3. ASSUME kind \in {"rename", "move"}
        PROVE  /\ \A i \in DOMAIN paired : Changing(paired[i]) =>
                    /\ LiesAt(job.before, paired[i].to) = {} /\ LiesAt(disk, paired[i].from) = {}
                    /\ LiesAt(disk, paired[i].to) = LiesAt(job.before, paired[i].from)
               /\ \A x \in AllPlaces : (\A i \in DOMAIN paired : Changing(paired[i]) => x \notin {paired[i].from, paired[i].to}) =>
                    LiesAt(disk, x) = LiesAt(job.before, x)
    <3>1. Renames(job) BY <1>4, <2>3 DEF Renames
    <3>2. \A i \in DOMAIN paired : Changing(paired[i]) => LiesAt(job.before, paired[i].to) = {}
      BY <1>3, <2>1, <3>1 DEF JobInv, WellPlanned
    <3> QED BY <2>1, <2>2, <3>1, <3>2 DEF Completed
  <2>4. ASSUME kind = "copy"
        PROVE  /\ \A i \in DOMAIN paired : LiesAt(job.before, paired[i].to) = {} /\ LiesAt(disk, paired[i].to) = LiesAt(job.before, paired[i].from)
               /\ \A x \in AllPlaces : (\A i \in DOMAIN paired : x # paired[i].to) => LiesAt(disk, x) = LiesAt(job.before, x)
    <3>1. job.kind = "copy" /\ ~ Renames(job) BY <1>4, <2>4 DEF Renames
    <3> QED BY <2>1, <2>2, <3>1 DEF Completed, Outcome
  <2>5. ASSUME kind = "trash"
        PROVE  /\ \A i \in DOMAIN paired : LiesAt(disk, paired[i].to) = {}
               /\ \A x \in AllPlaces : (\A i \in DOMAIN paired : x # paired[i].to) => LiesAt(disk, x) = LiesAt(job.before, x)
    <3>1. job.kind = "trash" /\ ~ Renames(job) BY <1>4, <2>5 DEF Renames
    <3> QED BY <2>1, <2>2, <3>1 DEF Completed, Outcome
  <2> QED BY <1>7, <2>3, <2>4, <2>5 DEF Spans
<1>12. EntryInv(e)
  <2>1. e.kind = "copy" => Distinct(e.plan) BY <1>3, <1>4, <1>7, <1>8 DEF JobInv, WellPlanned
  <2>2. e.kind = "trash" => InPlace(e.plan) /\ \A i \in DOMAIN e.plan : LiesAt(e.before, e.plan[i].to) # {}
    BY <1>2, <1>3, <1>4, <1>7, <1>8 DEF JobInv, WellPlanned
  <2> QED BY <1>7, <1>9, <1>10, <1>11, <2>1, <2>2 DEF EntryInv
<1>13. StepsInv' /\ steps' \in [Roots -> [undo : Seq(Entry), redo : Seq(Entry)]]
  <2>1. CASE job.plan = <<>>
    <3>1. steps' = steps BY <1>1, <2>1 DEF EndCommand
    <3> QED BY <3>1 DEF TransfersInv, TransfersTyped, StepsInv
  <2>2. CASE job.plan # <<>>
    <3>1. PICK u, v : u = Append(steps[r].undo, e) /\ v = <<>> OBVIOUS
    <3>2. OnRecord(u) BY <1>10, <1>12, <3>1, StacksFacts, StackFacts
    <3>3. Redoable(v) BY <3>1 DEF Redoable, OnRecord
    <3>4. steps' = [steps EXCEPT ![r] = [undo |-> u, redo |-> v]]
      BY <1>1, <1>4, <1>5, <1>6, <2>2, <3>1 DEF EndCommand
    <3> QED BY <3>2, <3>3, <3>4, StacksStep
  <2> QED BY <2>1, <2>2
<1>14. faults' \subseteq {"cut"} BY <1>2 DEF TransfersInv
<1> QED BY <1>2, <1>13, <1>14, EndsStep

LEMMA TransfersStart == TransfersInit => TransfersInv
<1> SUFFICES ASSUME TransfersInit
             PROVE  TransfersInv
  OBVIOUS
<1>1. \A s \in Filled, b \in Bases : Place(s, 1, b, 0) \in AllPlaces /\ Parts(s, b) \subseteq Tokens
  <2>1. ASSUME NEW s \in Filled, NEW b \in Bases
        PROVE  Place(s, 1, b, 0) \in AllPlaces /\ Parts(s, b) \subseteq Tokens
    <3>1. s \in Roots /\ 0 \in 0..MaxCopies /\ 1 \in Directories BY TransfersAssumption
    <3>2. Place(s, 1, b, 0) \in Places BY <3>1 DEF Place, Places
    <3>3. Parts(s, b) \subseteq Tokens BY DEF Tokens
    <3> QED BY <3>2, <3>3 DEF AllPlaces
  <2> QED BY <2>1
<1>2. disk = UNION {{Place(s, 1, b, 0)} \X Parts(s, b) : s \in Filled, b \in Bases}
  BY DEF TransfersInit
<1>3. disk \in Disks
  <2>1. ASSUME NEW y \in disk
        PROVE  y \in AllPlaces \X Tokens
    <3>1. PICK s \in Filled, b \in Bases : y \in {Place(s, 1, b, 0)} \X Parts(s, b) BY <1>2
    <3> QED BY <1>1, <3>1
  <2> QED BY <2>1 DEF Disks
<1>4. /\ trash = {} /\ jobs = [r \in Roots |-> NoTransfer] /\ clipboard = NoTransfer
      /\ steps = [r \in Roots |-> [undo |-> <<>>, redo |-> <<>>]]
      /\ used = [commands |-> 0, errors |-> 0, strangers |-> 0]
      /\ excused = Strangers /\ faults = {}
  BY DEF TransfersInit
<1>5. Busy = {} BY <1>4 DEF Busy
<1>6. TransfersTyped
  <2>1. DOMAIN jobs = Roots /\ jobs = [r \in Roots |-> jobs[r]] BY <1>4
  <2>2. used \in [commands : Nat, errors : Nat, strangers : Nat] BY <1>4
  <2>3. steps \in [Roots -> [undo : Seq(Entry), redo : Seq(Entry)]]
    <3>1. <<>> \in Seq(Entry) BY EmptySeq
    <3> QED BY <1>4, <3>1
  <2> QED BY <1>3, <1>4, <1>5, <2>1, <2>2, <2>3 DEF TransfersTyped
<1>7. JobsInv /\ ForestInv BY <1>5 DEF JobsInv, ForestInv
<1>8. StepsInv BY <1>4 DEF StepsInv
<1>9. KeptInv
  <2>1. ASSUME NEW t \in Tokens \ excused
        PROVE  Held(disk, trash, t, {})
    <3>1. PICK s \in Filled, b \in Bases : t \in Parts(s, b) BY <1>4 DEF Tokens
    <3>2. <<Place(s, 1, b, 0), t>> \in disk
      <4>1. <<Place(s, 1, b, 0), t>> \in {Place(s, 1, b, 0)} \X Parts(s, b) BY <3>1
      <4>2. PICK part : part = {Place(s, 1, b, 0)} \X Parts(s, b) OBVIOUS
      <4>3. part \in {{Place(i, 1, j, 0)} \X Parts(i, j) : i \in Filled, j \in Bases} BY <4>2
      <4>4. disk = UNION {{Place(i, 1, j, 0)} \X Parts(i, j) : i \in Filled, j \in Bases} BY <1>2
      <4>5. \A w : part \in w => part \subseteq UNION w OBVIOUS
      <4>6. part \subseteq disk BY <4>3, <4>4, <4>5
      <4> QED BY <4>1, <4>2, <4>6
    <3>3. t \in LiesAt(disk, Place(s, 1, b, 0)) BY <1>3, <3>2, LiesAtFacts
    <3> QED BY <1>1, <3>3 DEF Held
  <2>2. KeptWith(disk, trash, excused, {}) BY <2>1 DEF KeptWith
  <2> QED BY <1>5, <2>2 DEF KeptInv
<1> QED BY <1>4, <1>6, <1>7, <1>8, <1>9 DEF TransfersInv

LEMMA TransfersStep == TransfersInv /\ [TransfersNext]_transferVars => TransfersInv'
<1> SUFFICES ASSUME TransfersInv, [TransfersNext]_transferVars
             PROVE  TransfersInv'
  OBVIOUS
<1>1. CASE UNCHANGED transferVars
  <2>1. UNCHANGED <<disk, trash, jobs, steps, excused, faults, clipboard, used>>
    BY <1>1 DEF transferVars
  <2> QED BY <2>1, StillStep DEF TransfersInv, TransfersTyped
<1>2. ASSUME NEW p \in Places, StrangerCreates(p) \/ StrangerRemoves(p)
      PROVE  TransfersInv'
  BY <1>2, CreateStep, RemoveStep
<1>3. ASSUME NEW selection \in Selections, NEW cut \in BOOLEAN, Clip(selection, cut)
      PROVE  TransfersInv'
  BY <1>3, ClipStep
<1>4. ASSUME NEW r \in Roots, Command(r)
      PROVE  TransfersInv'
  <2>1. ASSUME NEW selection \in Selections, StartDelete(r, selection)
        PROVE  TransfersInv'
    BY <2>1, DeleteStart
  <2>2. ASSUME NEW selection \in Selections, NEW d \in Directories, StartMoveEntries(r, selection, d)
        PROVE  TransfersInv'
    BY <2>2, MoveStart
  <2>3. ASSUME NEW d \in Directories, StartCut(r, d)
        PROVE  TransfersInv'
    BY <2>3, CutStart
  <2>4. ASSUME NEW d \in Directories, StartCopy(r, d)
        PROVE  TransfersInv'
    BY <2>4, CopyStart
  <2>5. CASE StartUndo(r) BY <2>5, UndoStart
  <2>6. CASE StartRedo(r) BY <2>6, RedoStart
  <2>7. CASE UndoSystemTrash(r) BY <2>7, ForgetStep
  <2> QED BY <1>4, <2>1, <2>2, <2>3, <2>4, <2>5, <2>6, <2>7 DEF Command
<1>5. ASSUME NEW r \in Roots, Work(r)
      PROVE  TransfersInv'
  <2>1. CASE RenameItem(r) BY <2>1, RenameStep
  <2>2. CASE CopyAcross(r) BY <2>2, CopyAcrossStep
  <2>3. CASE RemoveSource(r) BY <2>3, RemoveSourceStep
  <2>4. CASE CopyItem(r) BY <2>4, CopyStep
  <2>5. CASE TrashItem(r) BY <2>5, TrashStep
  <2>6. CASE RestoreItem(r) BY <2>6, RestoreStep
  <2>7. CASE SkipGone(r) BY <2>7, SkipStep
  <2>8. CASE RemoveMade(r) BY <2>8, RemoveMadeStep
  <2>9. CASE FailItem(r) BY <2>9, FailItemStep
  <2>10. CASE FailCopy(r) BY <2>10, FailCopyStep
  <2>11. CASE FailRemove(r) BY <2>11, FailRemoveStep
  <2>12. CASE FailTrash(r) BY <2>12, FailTrashStep
  <2>13. CASE EndCommand(r) BY <2>13, EndCommandStep
  <2>14. CASE EndApplied(r) BY <2>14, EndAppliedStep
  <2>15. CASE EndFailed(r) BY <2>15, EndFailedStep
  <2> QED
    BY <1>5, <2>1, <2>2, <2>3, <2>4, <2>5, <2>6, <2>7, <2>8, <2>9, <2>10, <2>11, <2>12, <2>13, <2>14, <2>15 DEF Work
<1> QED BY <1>1, <1>2, <1>3, <1>4, <1>5 DEF TransfersNext

LEMMA TransfersKeep == TransfersInv => TransfersHold
<1> SUFFICES ASSUME TransfersInv
             PROVE  TransfersHold
  OBVIOUS
<1>1. PICK loose \in SUBSET AllPlaces : KeptWith(disk, trash, excused, loose)
  BY DEF TransfersInv, KeptInv
<1>2. ASSUME NEW t \in Tokens \ excused
      PROVE  t \in trash \/ \E x \in disk : x[2] = t
  <2>1. Held(disk, trash, t, loose) BY <1>1 DEF KeptWith
  <2>2. CASE t \in trash BY <2>2
  <2>3. ASSUME NEW x \in AllPlaces, t \in LiesAt(disk, x)
        PROVE  \E y \in disk : y[2] = t
    <3>1. <<x, t>> \in disk BY <2>3, LiesAtFacts DEF TransfersInv, TransfersTyped
    <3> QED BY <3>1
  <2> QED BY <2>1, <2>2, <2>3 DEF Held
<1> QED BY <1>2 DEF TransfersHold, NothingIsLost, TransfersInv

\* Moving, cutting, copying and deleting loses nothing: whatever was on the disk is there or in the
\* trash, unless another program removed it, it came after a command had looked, or its source
\* could only be removed in part.  A command that fails and whose rollback does not fail leaves
\* the disk as it was, except for a part of a folder; to undo a step and to redo it gives the
\* disk of before and of after it, except for what was cut from another repository
\* (FileService.ts, registerServerCommands.ts).
THEOREM TransfersAreKept == TransfersSpec => []TransfersHold
<1>1. TransfersInv /\ [TransfersNext]_transferVars => TransfersInv' BY TransfersStep
<1> QED BY <1>1, TransfersStart, TransfersKeep, PTL DEF TransfersSpec
==============================
