------- MODULE SettingsStore -------
(****************************************)
(* src/main/persistence/SettingsStore.ts: the settings are one document in *)
(* memory.  A setter changes it and saves all of it; the tree and the open *)
(* tabs are saved in the background, a while after they changed.  Writes *)
(* queue up; each replaces the file and then its backup (atomicWrite.ts). *)
(* *)
(* A write can fail before or after its file was replaced, the process can *)
(* end between any two steps, and the file can be damaged from outside. *)
(* The document is a function from its parts to a few values; what a setter *)
(* does with its part is RepositoryRegistry's. *)
(****************************************)
EXTENDS Integers, Sequences, FiniteSets

CONSTANTS
  Settings,     \* parts that a setter saves at once
  RollingBack,  \* those whose setter puts the previous value back when the save fails and
  ByValue,      \* the part hasn't been set since; of these, ones that look at the value only
  Channels,     \* BackgroundChannel: parts that are saved in the background
  Values,
  Null,         \* null, and no readable file
  MaxSets,      \* bound: how often something is set
  MaxFailures   \* bound: failed writes, crashes and damage

ASSUME SettingsAssumption ==
  /\ ByValue \subseteq RollingBack /\ RollingBack \subseteq Settings /\ Settings # {} /\ Settings \cap Channels = {}
  /\ 0 \in Values /\ Null \notin Values /\ Null \notin [Settings \cup Channels -> Values]
  /\ MaxSets \in Nat /\ MaxFailures \in Nat

VARIABLES
  data,       \* the document in memory
  loaded,     \* whether load has finished
  dirty,      \* backgroundDirty
  timers,     \* backgroundTimers: channels whose timer runs
  bgError,    \* lastBackgroundWriteError: whether there is one
  queue,      \* pendingWrite: the writes that are queued, the first one running
  persisted,  \* persistedSnapshot, or Null
  primary, backup,   \* the two files, or Null
  flush,      \* the flush at shutdown
  sets, failures,    \* counters
  sure,       \* history: per setting the value of its last setter, once that has succeeded
  orphaned,   \* history: a full save that failed had taken dirty channels along, or a background save
              \* that another timer had begun failed at the end of a flush
  confused    \* history: parts put back although they had been set to the same value again

settingsVars == <<data, loaded, dirty, timers, bgError, queue, persisted, primary, backup,
                  flush, sets, failures, sure, orphaned, confused>>

Parts == Settings \cup Channels
Document == [Parts -> Values]
Defaults == [p \in Parts |-> 0]

\* part, value and previous are a setter's; channels those of a background save.
Write == [kind : {"set", "background", "load"}, snapshot : Document, stage : {"queued", "primary", "backup"},
          part : Parts, value : Values, previous : Values, channels : SUBSET Channels]

NoFlush == [stage |-> "none", left |-> 0, own |-> FALSE, values |-> Defaults, late |-> {}]

SettingsTypeOK ==
  /\ data \in Document /\ loaded \in BOOLEAN /\ bgError \in BOOLEAN
  /\ dirty \subseteq Channels /\ timers \subseteq Channels
  /\ \A i \in DOMAIN queue : queue[i] \in Write
  /\ {primary, backup, persisted} \subseteq Document \cup {Null}
  /\ flush.stage \in {"none", "first", "second", "third", "failed", "done"} /\ flush.left \in 0..Len(queue)
  /\ sets \in 0..MaxSets /\ failures \in 0..MaxFailures /\ sure \in [Settings -> Values \cup {Null}] /\ orphaned \in BOOLEAN /\ confused \subseteq ByValue

SettingsInit ==
  /\ data = Defaults /\ loaded = TRUE /\ dirty = {} /\ timers = {} /\ bgError = FALSE
  /\ queue = <<>> /\ persisted = Defaults /\ primary = Defaults /\ backup = Defaults
  /\ flush = NoFlush /\ sets = 0 /\ failures = 0 /\ sure = [p \in Settings |-> Null] /\ orphaned = FALSE /\ confused = {}

Disk == <<primary, backup, persisted>>
Fail == failures < MaxFailures /\ failures' = failures + 1
------------------------------
(* Setting, and asking for a save. *)

\* enqueueWrite: the snapshot is taken now, compared and written later.
Enqueued(kind, document, part, previous, channels) ==
  Append(queue, [kind |-> kind, snapshot |-> document, stage |-> "queued", part |-> part,
                 value |-> document[part], previous |-> previous, channels |-> channels])

\* The part of a write that is no setter's, which does not matter.
NoSetter == CHOOSE p \in Settings : TRUE

Later(p) == IF flush.stage = "none" THEN flush ELSE [flush EXCEPT !.late = @ \cup {p}]

\* A setter, also to the value that was set: save settles the background work.
Set ==
  /\ loaded /\ sets < MaxSets /\ sets' = sets + 1
  /\ \E p \in Settings, v \in Values :
       /\ data' = [data EXCEPT ![p] = v]
       /\ queue' = Enqueued("set", data', p, data[p], dirty)
       /\ sure' = [sure EXCEPT ![p] = Null]
  /\ timers' = {} /\ dirty' = {} /\ bgError' = FALSE
  /\ UNCHANGED <<loaded, Disk, flush, failures, orphaned, confused>>

\* setFilesTreeExpandedPaths, setOpenFilesState.
SetInBackground ==
  /\ loaded /\ sets < MaxSets /\ sets' = sets + 1
  /\ \E c \in Channels, v \in Values :
       /\ data' = [data EXCEPT ![c] = v]
       /\ dirty' = dirty \cup {c} /\ timers' = timers \cup {c} /\ flush' = Later(c)
  /\ UNCHANGED <<loaded, bgError, queue, Disk, failures, sure, orphaned, confused>>

\* saveBackgroundChannels.
SaveBackground ==
  IF dirty = {} THEN UNCHANGED <<dirty, bgError, queue>>
  ELSE /\ queue' = Enqueued("background", data, NoSetter, 0, dirty)
       /\ dirty' = {} /\ bgError' = FALSE

Timer ==
  /\ \E c \in timers : timers' = timers \ {c}
  /\ SaveBackground
  /\ UNCHANGED <<data, loaded, Disk, flush, sets, failures, sure, orphaned, confused>>
------------------------------
(* The queue. *)

Running == Head(queue)
RunTo(stage) == queue' = [queue EXCEPT ![1].stage = stage]

\* What waits for a write is one write nearer to its turn.
Advanced(ok) ==
  IF flush.left = 0 THEN flush
  ELSE [flush EXCEPT !.left = @ - 1,
          !.stage = IF ~ok /\ flush.left = 1 /\ flush.own THEN "failed" ELSE @]

SetAgain(p) == \E i \in 2..Len(queue) : queue[i].kind = "set" /\ queue[i].part = p

\* The document is on disk twice.
Finished ==
  /\ queue' = Tail(queue) /\ flush' = Advanced(TRUE) /\ loaded' = TRUE
  /\ sure' = IF Running.kind = "set" /\ ~SetAgain(Running.part)
             THEN [sure EXCEPT ![Running.part] = Running.value] ELSE sure
  /\ UNCHANGED <<data, dirty, bgError, orphaned, confused>>

\* Whether the setter puts the previous value back.
PutsBack(w) ==
  /\ w.kind = "set" /\ w.part \in RollingBack
  /\ IF w.part \in ByValue THEN data[w.part] = w.value ELSE ~SetAgain(w.part)

\* The flush has found nothing more to save, and waits for what others save.
AwaitsOthers == flush.stage = "third" /\ ~flush.own

\* The caller of the write learns that it failed.
Failed ==
  /\ Fail /\ queue' = Tail(queue) /\ flush' = Advanced(FALSE)
  /\ LET w == Running
         again == w.kind = "background"
     IN /\ data' = IF PutsBack(w) THEN [data EXCEPT ![w.part] = w.previous] ELSE data
        /\ dirty' = IF again THEN dirty \cup w.channels ELSE dirty
        /\ bgError' = (bgError \/ again)
        /\ orphaned' = (orphaned \/ (w.kind = "set" /\ w.channels # {}) \/ (again /\ AwaitsOthers))
        /\ confused' = IF PutsBack(w) /\ SetAgain(w.part) THEN confused \cup ({w.part} \cap ByValue) ELSE confused
  /\ UNCHANGED <<loaded, sure>>

\* Between the two files nothing counts as persisted.
WhileWriting == Null

WriteBegin ==
  /\ queue # <<>> /\ Running.stage = "queued"
  /\ IF Running.snapshot = persisted
     THEN Finished /\ UNCHANGED <<Disk, failures>>
     ELSE /\ RunTo("primary") /\ persisted' = WhileWriting
          /\ UNCHANGED <<primary, backup, flush, sure, loaded, data, dirty, bgError, orphaned, confused, failures>>
  /\ UNCHANGED <<timers, sets>>

\* writeFileAtomically renames, and can still fail after that.
WritePrimary ==
  /\ queue # <<>> /\ Running.stage = "primary" /\ primary' \in {primary, Running.snapshot}
  /\ \/ /\ primary' = Running.snapshot /\ RunTo("backup")
        /\ UNCHANGED <<flush, sure, loaded, data, dirty, bgError, orphaned, confused, failures>>
     \/ Failed
  /\ UNCHANGED <<backup, persisted, timers, sets>>

WriteBackup ==
  /\ queue # <<>> /\ Running.stage = "backup" /\ backup' \in {backup, Running.snapshot}
  /\ \/ backup' = Running.snapshot /\ Finished /\ persisted' = Running.snapshot /\ UNCHANGED failures
     \/ Failed /\ UNCHANGED persisted
  /\ UNCHANGED <<primary, timers, sets>>
------------------------------
(* Shutdown, crash and start. *)

\* What is dirty is written now.
FlushSaves == SaveBackground

Await(stage, own) == flush' = [flush EXCEPT !.stage = stage, !.left = Len(queue'), !.own = own]

FlushBegin ==
  /\ loaded /\ flush.stage = "none" /\ timers' = {} /\ FlushSaves
  /\ flush' = [stage |-> "first", left |-> Len(queue'), own |-> dirty # {}, values |-> data, late |-> {}]
  /\ UNCHANGED <<data, loaded, Disk, sets, failures, sure, orphaned, confused>>

\* It waits for its write, then for all, then saves what became dirty meanwhile.
FlushNext ==
  /\ flush.left = 0
  /\ \/ flush.stage = "first" /\ UNCHANGED <<dirty, bgError, queue>> /\ Await("second", FALSE)
     \/ flush.stage = "second" /\ FlushSaves /\ Await("third", dirty # {})
     \/ /\ flush.stage = "third" /\ UNCHANGED <<dirty, bgError, queue>>
        /\ flush' = [flush EXCEPT !.stage = IF bgError THEN "failed" ELSE "done"]
  /\ UNCHANGED <<data, loaded, timers, Disk, sets, failures, sure, orphaned, confused>>

\* The process ends, on its own or after the flush.
StopSettings ==
  /\ loaded /\ ((flush.stage \in {"done", "failed"} /\ UNCHANGED failures) \/ Fail)
  /\ data' = Defaults /\ loaded' = FALSE /\ dirty' = {} /\ timers' = {} /\ bgError' = FALSE
  /\ queue' = <<>> /\ persisted' = Null /\ flush' = NoFlush /\ orphaned' = FALSE
  /\ UNCHANGED <<primary, backup, sets, sure, confused>>

\* Something outside ruins the file.
Damage ==
  /\ Fail /\ primary # Null /\ primary' = Null
  /\ UNCHANGED <<data, loaded, dirty, timers, bgError, queue, persisted, backup, flush, sets, sure, orphaned, confused>>

\* Bug: without a readable file the settings start from the defaults.
FallbackDefaults == Defaults

\* Without a readable file the backup is read.
Fallback == IF backup # Null THEN backup ELSE Defaults

\* load: a file that was read is copied to the backup, anything else written first.
Load ==
  /\ ~loaded /\ queue = <<>>
  /\ IF primary # Null
     THEN /\ data' = primary /\ backup' = primary /\ persisted' = primary /\ loaded' = TRUE
          /\ UNCHANGED queue
     ELSE /\ data' = Fallback
          /\ queue' = Enqueued("load", data', NoSetter, 0, {})
          /\ UNCHANGED <<backup, persisted, loaded>>
  /\ UNCHANGED <<dirty, timers, bgError, primary, flush, sets, failures, sure, orphaned, confused>>

SettingsNext ==
  \/ Set \/ SetInBackground \/ Timer
  \/ WriteBegin \/ WritePrimary \/ WriteBackup
  \/ FlushBegin \/ FlushNext \/ StopSettings \/ Damage \/ Load

SettingsSpec == SettingsInit /\ [][SettingsNext]_settingsVars
------------------------------
\* A setting whose last setter succeeded is found again, whatever fails afterwards and
\* wherever the process ends: by the file, or by the backup when the file is ruined; and
\* memory agrees.  (A setter that
\* compares values takes an equal one set later for its own.)  (SettingsStore.ts:472)
AckedIsStored ==
  \A p \in Settings \ confused : sure[p] # Null =>
    /\ backup[p] = sure[p]
    /\ primary # Null => primary[p] = sure[p]
    /\ loaded => data[p] = sure[p]

\* The comment at SettingsStore.ts:432 says a full write persists every channel, so that
\* pending background work is settled: a flush that succeeds has stored all channels.
BackgroundIsSettled ==
  flush.stage = "done" => \A c \in Channels \ flush.late : backup[c] = flush.values[c]

\* After a flush that succeeds the background channels as it found them are on disk
\* (SettingsStore.ts:423), unless a full save that had taken them along failed, or the save of a
\* timer for which the flush waited at its end: the next timer saves again, and the flush is told
\* of no error.
FlushedIsStored == orphaned \/ BackgroundIsSettled

\* What the store has confirmed survives failures, ruined files and the end of the process.
ConfirmedIsStored == AckedIsStored /\ FlushedIsStored
==============================
