------- MODULE AiStatuses -------
(****************************************)
(* What is known of the command line programs that write commit messages: *)
(* statuses of src/main/ai/CommitMessageService.ts, the discovery it asks *)
(* (CliResolver.ts) and the file that keeps the last result across restarts *)
(* (persistence/AiStatusStore.ts). *)
(* *)
(* An inspection uses the executable paths of the settings and sees what is *)
(* installed at some moment.  Its value is both. *)
(****************************************)
EXTENDS Integers, Sequences, FiniteSets

CONSTANTS
  Watchers,      \* who asks; an inspection is named after the client that began it
  ExecutablePaths,
  Unknown,      \* no value
  MaxInstalls,  \* bound: changes of what is installed
  MaxPaths,     \* bound: changes of the paths
  MaxChecks,    \* bound: questions
  MaxAppRestarts   \* bound: restarts of the server

\* What an inspection finds, and what it is kept for.
Value == [paths : ExecutablePaths, installed : 0..MaxInstalls]
KeyedValue == [key : ExecutablePaths, value : Value]

\* An inspection, which looks at the file, asks the discovery, waits for it and for the providers;
\* and a question that waits for one.
Inspection ==
  [stage : {"loading", "inspecting"}, key : ExecutablePaths, force : BOOLEAN, generation : Nat]
  \cup [stage : {"discovering"}, key : ExecutablePaths, force : BOOLEAN, generation : Nat,
        discovery : Nat, paths : ExecutablePaths]
  \cup [stage : {"inspected"}, key : ExecutablePaths, force : BOOLEAN, generation : Nat, value : Value]
Question == [on : Watchers, changes : Nat, saved : BOOLEAN, floor : 0..MaxInstalls]

ASSUME StatusesAssumption ==
  /\ ExecutablePaths # {} /\ {MaxInstalls, MaxPaths, MaxChecks, MaxAppRestarts} \subseteq Nat
  /\ Unknown \notin ExecutablePaths \cup Watchers \cup Value \cup KeyedValue \cup Inspection \cup Question

VARIABLES
  paths, installed,                        \* the settings and the machine
  settingPaths,                            \* a change of the paths that is being saved: the paths before, or Unknown
  resolver,                                \* CliResolver: settingsKey, generation and cache
  statusGeneration, statusCache, statusInvalidated, pendingStatus,
  inspections,                             \* per client the inspection it began, or Unknown
  waits,                                   \* per client what it has asked, and whose inspection it waits for, or Unknown
  stored, storing,                         \* the file, and the writes that are queued
  counts,                                  \* counters
  invalidated, refreshed,                  \* history: what was installed at the last invalidation, and what was shown after a forced check
  misled,                                  \* history: what an answer has got wrong
  outrun                              \* history: an inspection was kept while a change of the paths was being saved

statusVars == <<paths, installed, settingPaths, resolver, statusGeneration, statusCache, statusInvalidated, pendingStatus,
                inspections, waits, stored, storing, counts, invalidated, refreshed, misled, outrun>>

StatusesTypeOK ==
  /\ paths \in ExecutablePaths /\ installed \in 0..MaxInstalls /\ settingPaths \in ExecutablePaths \cup {Unknown}
  /\ resolver.settingsKey \in ExecutablePaths \cup {Unknown} /\ resolver.generation \in Nat
  /\ resolver.cache \in Value \cup {Unknown}
  /\ statusGeneration \in Nat /\ statusCache \in KeyedValue \cup {Unknown} /\ statusInvalidated \in BOOLEAN
  /\ pendingStatus \in Watchers \cup {Unknown}
  /\ inspections \in [Watchers -> Inspection \cup {Unknown}] /\ waits \in [Watchers -> Question \cup {Unknown}]
  /\ \A c \in Watchers : pendingStatus = c => inspections[c] # Unknown
  /\ \A c \in Watchers : waits[c] # Unknown => inspections[waits[c].on] # Unknown
  /\ stored \in KeyedValue \cup {Unknown} /\ storing \in Seq(KeyedValue)
  /\ misled \subseteq {"paths", "installed"} /\ outrun \in BOOLEAN

StatusesInit ==
  /\ paths \in ExecutablePaths /\ installed = 0 /\ settingPaths = Unknown
  /\ resolver = [settingsKey |-> Unknown, generation |-> 0, cache |-> Unknown]
  /\ statusGeneration = 0 /\ statusCache = Unknown /\ statusInvalidated = FALSE /\ pendingStatus = Unknown
  /\ inspections = [c \in Watchers |-> Unknown] /\ waits = [c \in Watchers |-> Unknown]
  /\ stored = Unknown /\ storing = <<>>
  /\ counts = [installs |-> 0, paths |-> 0, checks |-> 0, restarts |-> 0]
  /\ invalidated = 0 /\ refreshed = 0 /\ misled = {} /\ outrun = FALSE

Count(what, max) == counts[what] < max /\ counts' = [counts EXCEPT ![what] = @ + 1]

cacheVars == <<statusGeneration, statusCache, statusInvalidated, pendingStatus>>
callVars == <<inspections, waits>>
storeVars == <<stored, storing>>
historyVars == <<invalidated, refreshed, misled, outrun>>
------------------------------
(* The machine, the settings and the server. *)

Install ==
  /\ Count("installs", MaxInstalls) /\ installed' = installed + 1
  /\ UNCHANGED <<paths, settingPaths, resolver, cacheVars, callVars, storeVars, historyVars>>

\* The preferences command: in memory at once, then saved.
SetPaths ==
  /\ settingPaths = Unknown /\ Count("paths", MaxPaths)
  /\ settingPaths' = paths /\ paths' \in ExecutablePaths \ {paths}
  /\ UNCHANGED <<installed, resolver, cacheVars, callVars, storeVars, historyVars>>

\* An inspection in progress is nobody's any more.
InvalidatesPending == statusGeneration' = statusGeneration + 1

\* invalidateStatuses, when the changed paths are saved; the discovery is invalidated, too.
PathsSaved ==
  /\ settingPaths # Unknown /\ settingPaths' = Unknown
  /\ InvalidatesPending /\ statusCache' = Unknown /\ statusInvalidated' = TRUE /\ pendingStatus' = Unknown
  /\ resolver' = [resolver EXCEPT !.generation = @ + 1, !.cache = Unknown]
  /\ invalidated' = installed
  /\ UNCHANGED <<paths, installed, callVars, storeVars, counts, refreshed, misled, outrun>>

\* The process ends and starts again; what was answered before counts no longer.
Restart ==
  /\ Count("restarts", MaxAppRestarts) /\ settingPaths = Unknown
  /\ resolver' = [settingsKey |-> Unknown, generation |-> 0, cache |-> Unknown]
  /\ statusGeneration' = 0 /\ statusCache' = Unknown /\ statusInvalidated' = FALSE /\ pendingStatus' = Unknown
  /\ inspections' = [c \in Watchers |-> Unknown] /\ waits' = [c \in Watchers |-> Unknown]
  /\ storing' = <<>> /\ invalidated' = 0 /\ refreshed' = 0
  /\ UNCHANGED <<paths, installed, settingPaths, stored, misled, outrun>>

\* AiStatusStore: the queued write that is first is done, or fails.
StoreWritten ==
  /\ storing # <<>> /\ storing' = Tail(storing) /\ (stored' = Head(storing) \/ UNCHANGED stored)
  /\ UNCHANGED <<paths, installed, settingPaths, resolver, cacheVars, callVars, counts, historyVars>>
------------------------------
(* statuses. *)

LaterOf(m, n) == IF m > n THEN m ELSE n

Asked(on) == [on |-> on, changes |-> counts.paths, saved |-> settingPaths = Unknown,
              floor |-> LaterOf(invalidated, refreshed)]

\* What an answer gets wrong: it is of other paths, although they haven't changed since it was
\* asked for; or it is older than what its client could know. (What is asked while a change of
\* the paths is being saved may come from before it.)
Wrong(asked, v) == {what \in {"paths", "installed"} : asked.saved /\
                      CASE what = "paths" -> v.paths # paths /\ asked.changes = counts.paths
                        [] what = "installed" -> v.installed < asked.floor}

\* The result of the last inspection.
Cached(c) ==
  /\ waits[c] = Unknown /\ Count("checks", MaxChecks)
  /\ statusCache # Unknown /\ statusCache.key = paths
  /\ misled' = misled \cup Wrong(Asked(c), statusCache.value)
  /\ UNCHANGED <<paths, installed, settingPaths, resolver, cacheVars, callVars, storeVars, invalidated, refreshed, outrun>>

Joins(force) ==
  /\ pendingStatus # Unknown
  /\ inspections[pendingStatus].key = paths /\ (force => inspections[pendingStatus].force)

\* The inspection in progress, unless another one is asked for.
Join(c, force) ==
  /\ waits[c] = Unknown /\ Count("checks", MaxChecks)
  /\ force \/ ~(statusCache # Unknown /\ statusCache.key = paths)
  /\ Joins(force)
  /\ waits' = [waits EXCEPT ![c] = Asked(pendingStatus)]
  /\ UNCHANGED <<paths, installed, settingPaths, resolver, cacheVars, inspections, storeVars, historyVars>>

\* A new inspection: it looks at the file first unless it is forced.
BeginCheck(c, force) ==
  /\ waits[c] = Unknown /\ inspections[c] = Unknown /\ Count("checks", MaxChecks)
  /\ force \/ ~(statusCache # Unknown /\ statusCache.key = paths)
  /\ ~Joins(force)
  /\ statusGeneration' = statusGeneration + 1 /\ pendingStatus' = c
  /\ inspections' = [inspections EXCEPT ![c] =
       [stage |-> IF ~force /\ ~statusInvalidated THEN "loading" ELSE "inspecting",
        key |-> paths, force |-> force, generation |-> statusGeneration + 1]]
  /\ waits' = [waits EXCEPT ![c] = Asked(c)]
  /\ UNCHANGED <<paths, installed, settingPaths, resolver, statusCache, statusInvalidated, storeVars, historyVars>>

\* The inspection of c ends with v: everybody who waits for it gets it.
Ends(c, v) ==
  /\ inspections' = [inspections EXCEPT ![c] = Unknown]
  /\ waits' = [d \in Watchers |-> IF waits[d] # Unknown /\ waits[d].on = c THEN Unknown ELSE waits[d]]
  /\ pendingStatus' = IF pendingStatus = c THEN Unknown ELSE pendingStatus
  /\ misled' = misled \cup UNION {Wrong(waits[d], v) : d \in {e \in Watchers : waits[e] # Unknown /\ waits[e].on = c}}
  /\ refreshed' = IF inspections[c].force /\ inspections[c].generation = statusGeneration THEN LaterOf(refreshed, v.installed) ELSE refreshed
  /\ UNCHANGED <<paths, installed, settingPaths, counts, invalidated>>

Current(i) == i.generation = statusGeneration

\* load, after the writes that are queued: what is stored for these paths.
LoadSaved(c) ==
  LET i == inspections[c] IN
  /\ i # Unknown /\ i.stage = "loading" /\ storing = <<>>
  /\ stored # Unknown /\ stored.key = i.key
  /\ statusCache' = IF Current(i) THEN stored ELSE statusCache
  /\ Ends(c, stored.value)
  /\ UNCHANGED <<resolver, statusGeneration, statusInvalidated, storeVars, outrun>>

LoadsNothing(c) ==
  LET i == inspections[c] IN
  /\ i # Unknown /\ i.stage = "loading" /\ storing = <<>> /\ ~(stored # Unknown /\ stored.key = i.key)
  /\ inspections' = [inspections EXCEPT ![c].stage = "inspecting"]
  /\ UNCHANGED <<paths, installed, settingPaths, resolver, cacheVars, waits, storeVars, counts, historyVars>>

\* CliResolver.discover, up to its first await: other paths or a forced check start another
\* generation; what is cached is used as long as those programs are still there, or looked for
\* again: whether there are newer ones isn't asked.
Discover(c) ==
  LET i == inspections[c]
      changed == resolver.settingsKey # paths
      cache == IF changed \/ i.force THEN Unknown ELSE resolver.cache
      generation == resolver.generation + (IF changed THEN 1 ELSE 0) + (IF i.force THEN 1 ELSE 0) IN
  /\ i # Unknown /\ i.stage = "inspecting"
  /\ resolver' = [settingsKey |-> paths, generation |-> generation, cache |-> cache]
  /\ \/ /\ cache # Unknown
        /\ inspections' = [inspections EXCEPT ![c] = [stage |-> "inspected", key |-> i.key, force |-> i.force,
                                                      generation |-> i.generation, value |-> cache]]
     \/ inspections' = [inspections EXCEPT ![c] = [stage |-> "discovering", key |-> i.key, force |-> i.force,
                                                   generation |-> i.generation, discovery |-> generation, paths |-> paths]]
  /\ UNCHANGED <<paths, installed, settingPaths, cacheVars, waits, storeVars, counts, historyVars>>

KeepsDiscovered(i) == i.discovery = resolver.generation

\* It looks at the machine, and keeps what it found for a while.
Discovered(c) ==
  LET i == inspections[c]
      v == [paths |-> i.paths, installed |-> installed] IN
  /\ i # Unknown /\ i.stage = "discovering"
  /\ resolver' = [resolver EXCEPT !.cache = IF KeepsDiscovered(i) THEN v ELSE @]
  /\ inspections' = [inspections EXCEPT ![c] = [stage |-> "inspected", key |-> i.key, force |-> i.force,
                                                generation |-> i.generation, value |-> v]]
  /\ UNCHANGED <<paths, installed, settingPaths, cacheVars, waits, storeVars, counts, historyVars>>

\* The providers answered: kept and stored, if nothing was invalidated or asked since.
\* (The write is awaited, but only what is stored depends on its end.)
Inspected(c) ==
  LET i == inspections[c] IN
  /\ i # Unknown /\ i.stage = "inspected"
  /\ IF Current(i)
     THEN /\ statusCache' = [key |-> i.key, value |-> i.value] /\ statusInvalidated' = FALSE
          /\ storing' = Append(storing, [key |-> i.key, value |-> i.value])
          /\ outrun' = (outrun \/ i.key # paths)
     ELSE UNCHANGED <<statusCache, statusInvalidated, storing, outrun>>
  /\ Ends(c, i.value)
  /\ UNCHANGED <<resolver, statusGeneration, stored>>

StatusesNext ==
  \/ Install \/ SetPaths \/ PathsSaved \/ Restart \/ StoreWritten
  \/ \E c \in Watchers :
       \/ Cached(c) \/ LoadSaved(c) \/ LoadsNothing(c) \/ Discover(c) \/ Discovered(c) \/ Inspected(c)
       \/ \E force \in BOOLEAN : Join(c, force) \/ BeginCheck(c, force)

StatusesSpec == StatusesInit /\ [][StatusesNext]_statusVars
------------------------------
(* Properties. *)

\* What is shown of the command line programs is of the executables that are set, and no older
\* than the last change of the paths or the last check that was forced, whatever inspections
\* overlap, are joined or come back late, and whatever was stored. The exception: an inspection
\* ended after the paths had changed in memory and before that was saved.
StatusesKeepUp == misled # {} => outrun

\* docs/ai-assistance.md: "Checks run automatically if no saved result exists or an executable
\* path changes", so what is shown is always of the executables that are set.
StatusesOfThePaths == "paths" \notin misled
==============================
