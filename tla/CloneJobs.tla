------- MODULE CloneJobs -------
(****************************************)
(* Cloning a repository: the jobs of the server *)
(* (src/main/git/RepositoryClone.ts) with their choice of an account *)
(* (withCloneCredentials of RepositoryGitAccess.ts), and the tabs that start *)
(* and follow them (renderer/features/onboarding/clone-jobs.ts and *)
(* CloneRepositoryDialog.tsx). *)
(* *)
(* A destination folder is the set of what is in it: an empty folder holds *)
(* nothing, and a path that does not exist is Absent. *)
(****************************************)
EXTENDS Integers, Sequences

CONSTANTS
  Cloners,         \* browser tabs
  Absent,          \* no folder
  MaxJobs,         \* bound: clones
  PollFailures,    \* failed questions in a row after which a tab gives up
  MaxReloads       \* bound: reloads of tabs and restarts of the server

ASSUME CloneAssumption ==
  (\A s \in SUBSET {"partial", "whole", "foreign"} : Absent # s) /\ PollFailures \in Nat \ {0} /\ {MaxJobs, MaxReloads} \subseteq Nat

VARIABLES
  cloneJobs,     \* all there have been; their index is the id
  folder,        \* the destination, the same for all
  followers,     \* per tab: what it does, for which job, what its storage remembers, failures in a row
  announced,     \* what tabs were told of jobs: <<tab, job, what>>
  reloads,
  cloneMishaps   \* history: <<tab, job>> that a tab forgot although the job runs

cloneVars == <<cloneJobs, folder, followers, announced, reloads, cloneMishaps>>

Jobs == DOMAIN cloneJobs
JobStages == {"checking", "cloning", "asking", "cloning again", "tidying", "preparing", "adopting", "over"}
CloneJob == [state : {"running", "completed", "failed", "cancelled", "gone"}, stage : JobStages, by : Cloners,
             aborted : BOOLEAN, adopts : BOOLEAN, kept : BOOLEAN]
NoJob == 0

ClonesTypeOK ==
  /\ cloneJobs \in Seq(CloneJob) /\ Len(cloneJobs) <= MaxJobs
  /\ folder = Absent \/ folder \subseteq {"partial", "whole", "foreign"}
  /\ \A t \in Cloners : LET f == followers[t] IN
       /\ f.mode \in {"idle", "starting", "dialog", "background", "resuming"} /\ f.failures \in 0..PollFailures
       /\ {f.job, f.remembered} \subseteq Jobs \cup {NoJob} /\ (f.mode = "idle" <=> f.job = NoJob)
  /\ announced \subseteq Cloners \X Jobs \X {"cloned", "not cloned", "interrupted", "unreachable"}
  /\ reloads \in 0..MaxReloads

IdleTab == [mode |-> "idle", job |-> NoJob, remembered |-> NoJob, failures |-> 0]

ClonesInit ==
  /\ cloneJobs = <<>> /\ folder \in {Absent, {"foreign"}}
  /\ followers = [t \in Cloners |-> IdleTab] /\ announced = {} /\ reloads = 0 /\ cloneMishaps = {}

JobIs(j, stage) == j \in Jobs /\ cloneJobs[j].stage = stage
Moves(j, stage) == cloneJobs' = [cloneJobs EXCEPT ![j].stage = stage]
tabVars == <<followers, announced, reloads, cloneMishaps>>
------------------------------
(* The job. *)

\* start: one job runs at a time. The tab does not know the job's id before the answer arrives.
StartClone(t) ==
  /\ followers[t].mode = "idle" /\ Len(cloneJobs) < MaxJobs
  /\ \A j \in Jobs : cloneJobs[j].state # "running"
  /\ cloneJobs' = Append(cloneJobs, [state |-> "running", stage |-> "checking", by |-> t,
                                     aborted |-> FALSE, adopts |-> FALSE, kept |-> FALSE])
  /\ followers' = [followers EXCEPT ![t].mode = "starting", ![t].job = Len(cloneJobs) + 1]
  /\ UNCHANGED <<folder, announced, reloads, cloneMishaps>>

FailedState(j) == IF cloneJobs[j].aborted THEN "cancelled" ELSE "failed"
CloneEnds(j, state) ==
  cloneJobs' = [cloneJobs EXCEPT ![j].stage = "over", ![j].state = state]

\* The parent is checked and the destination reserved: mkdir makes a new folder or fails.
Reserve(j) ==
  /\ JobIs(j, "checking")
  /\ IF folder = Absent /\ ~cloneJobs[j].aborted
     THEN Moves(j, "cloning") /\ folder' = {}
     ELSE CloneEnds(j, FailedState(j)) /\ UNCHANGED folder
  /\ UNCHANGED tabVars

Attempting(j) == JobIs(j, "cloning") \/ JobIs(j, "cloning again")

\* git clone into the reserved folder; it refuses one that is not empty.
GitReceives(j) ==
  /\ Attempting(j) /\ folder = {} /\ folder' = {"partial"} /\ UNCHANGED <<cloneJobs, tabVars>>

\* The repository is complete. A cancellation that came too late for Git still counts.
GitClones(j) ==
  /\ Attempting(j) /\ folder = {"partial"} /\ folder' = {"whole"}
  /\ cloneJobs' = [cloneJobs EXCEPT ![j].stage = IF cloneJobs[j].aborted THEN "tidying" ELSE "preparing",
                                    ![j].adopts = JobIs(j, "cloning again")]
  /\ UNCHANGED tabVars

\* git clone fails, or is killed: it removes what it has written, unless it had no time to.
Cleared == IF folder = {"partial"} /\ (\E j \in Jobs : Attempting(j)) THEN {folder, {}} ELSE {folder}

GitFails(j) ==
  /\ Attempting(j) /\ folder' \in Cleared
  /\ \/ Moves(j, "tidying")
     \/ JobIs(j, "cloning") /\ ~cloneJobs[j].aborted /\ Moves(j, "asking")
  /\ UNCHANGED tabVars

\* The account may not read the repository: another one that can is tried once.
AskAccounts(j) ==
  /\ JobIs(j, "asking") /\ (Moves(j, "cloning again") \/ Moves(j, "tidying"))
  /\ UNCHANGED <<folder, tabVars>>

\* A cancelled job does not start Git again.
NotAgain(j) ==
  /\ JobIs(j, "cloning again") /\ cloneJobs[j].aborted /\ Moves(j, "tidying") /\ UNCHANGED <<folder, tabVars>>

\* Bug: the folder is removed with what is in it.
RemovedWithContent == Absent

\* rmdir removes an empty folder only.
Removed == IF folder = {} THEN Absent ELSE folder

\* After a failure; what is kept is said.
Tidy(j) ==
  /\ JobIs(j, "tidying") /\ folder' = Removed
  /\ cloneJobs' = [cloneJobs EXCEPT ![j].stage = "over", ![j].state = FailedState(j), ![j].kept = folder' # Absent]
  /\ UNCHANGED tabVars

\* prepare: the new repository is opened; a cancellation only names its failure.
Prepare(j) ==
  /\ JobIs(j, "preparing")
  /\ \/ Moves(j, "adopting") \/ CloneEnds(j, FailedState(j))
  /\ UNCHANGED <<folder, tabVars>>

\* The account that could read it is kept with the repository, if that can be saved.
AdoptAccount(j) ==
  /\ JobIs(j, "adopting") /\ CloneEnds(j, "completed") /\ UNCHANGED <<folder, tabVars>>

\* Other programs, while Git is not at work there.
OthersWrite ==
  /\ \A j \in Jobs : ~Attempting(j)
  /\ folder \in {Absent, {}} /\ folder' = {"foreign"}
  /\ UNCHANGED <<cloneJobs, tabVars>>

\* Half an hour after its end the server forgets a job.
ForgetJob(j) ==
  /\ JobIs(j, "over") /\ cloneJobs[j].state # "gone" /\ cloneJobs' = [cloneJobs EXCEPT ![j].state = "gone"]
  /\ UNCHANGED <<folder, tabVars>>

\* The server starts again: its jobs are gone, Git is killed.
CloneServerRestarts ==
  /\ reloads < MaxReloads /\ reloads' = reloads + 1
  /\ cloneJobs' = [j \in Jobs |-> [cloneJobs[j] EXCEPT !.state = "gone", !.stage = "over"]]
  /\ folder' \in Cleared
  /\ UNCHANGED <<followers, announced, cloneMishaps>>
------------------------------
(* The tabs. *)

Follow(t, f) == followers' = [followers EXCEPT ![t] = f]
jobVars == <<cloneJobs, folder, reloads>>

\* The answer to the start: the job is followed and remembered. Or it is lost with its socket.
StartAnswered(t) ==
  LET f == followers[t] IN
  /\ f.mode = "starting"
  /\ \/ Follow(t, [f EXCEPT !.mode = "dialog", !.remembered = f.job]) /\ UNCHANGED <<announced, cloneMishaps>>
     \/ /\ Follow(t, [f EXCEPT !.mode = "idle", !.job = NoJob])
        /\ announced' = announced \cup {<<t, f.job, "unreachable">>}
        /\ cloneMishaps' = cloneMishaps \cup {<<t, f.job>>}
  /\ UNCHANGED jobVars

KeptInMind(f) == [f EXCEPT !.mode = "background", !.failures = 0]

\* close: the dialog shows a job that runs, until a question tells it otherwise.
RunInBackground(t) ==
  /\ followers[t].mode = "dialog"
  /\ Follow(t, KeptInMind(followers[t]))
  /\ UNCHANGED <<jobVars, announced, cloneMishaps>>

StillRemembered(f) == IF f.remembered = f.job THEN NoJob ELSE f.remembered

\* What a tab is told of the end of a job; of one the server does not know, that it was
\* interrupted.
Verdict(j) ==
  CASE cloneJobs[j].state = "completed" -> "cloned"
    [] cloneJobs[j].state = "gone" -> "interrupted"
    [] OTHER -> "not cloned"

\* cloneStatus is answered.
Poll(t) ==
  LET f == followers[t] IN
  /\ f.mode \in {"dialog", "background"}
  /\ IF cloneJobs[f.job].state = "running"
     THEN Follow(t, [f EXCEPT !.failures = 0]) /\ UNCHANGED announced
     ELSE /\ Follow(t, [f EXCEPT !.mode = "idle", !.job = NoJob, !.remembered = StillRemembered(f), !.failures = 0])
          /\ announced' = announced \cup {<<t, f.job, Verdict(f.job)>>}
  /\ UNCHANGED <<jobVars, cloneMishaps>>

\* It is not: the tab tries again for two minutes. What its storage remembers stays.
PollFails(t) ==
  LET f == followers[t] IN
  /\ f.mode \in {"dialog", "background"}
  /\ IF f.failures + 1 < PollFailures
     THEN Follow(t, [f EXCEPT !.failures = @ + 1]) /\ UNCHANGED announced
     ELSE /\ Follow(t, [f EXCEPT !.mode = "idle", !.job = NoJob, !.failures = 0])
          /\ announced' = announced \cup {<<t, f.job, "unreachable">>}
  /\ UNCHANGED <<jobVars, cloneMishaps>>

CancelClone(t) ==
  LET j == followers[t].job IN
  /\ followers[t].mode = "dialog" /\ cloneJobs[j].state = "running" /\ ~cloneJobs[j].aborted
  /\ cloneJobs' = [cloneJobs EXCEPT ![j].aborted = TRUE]
  /\ UNCHANGED <<folder, tabVars>>

\* A reload keeps only what the storage of the tab remembers; a start without an answer yet is
\* not in it.
Reload(t) ==
  LET f == followers[t] IN
  /\ reloads < MaxReloads /\ reloads' = reloads + 1
  /\ Follow(t, [f EXCEPT !.mode = IF f.remembered = NoJob THEN "idle" ELSE "resuming", !.job = f.remembered, !.failures = 0])
  /\ cloneMishaps' = cloneMishaps \cup (IF f.mode = "starting" THEN {<<t, f.job>>} ELSE {})
  /\ UNCHANGED <<cloneJobs, folder, announced>>

\* resumeBackgroundClone: the job is followed if the server knows it. A question that fails
\* counts as a job that is gone.
Resume(t) ==
  LET f == followers[t] IN
  /\ f.mode = "resuming"
  /\ \/ /\ cloneJobs[f.job].state # "gone" /\ Follow(t, [f EXCEPT !.mode = "background"])
        /\ UNCHANGED cloneMishaps
     \/ /\ Follow(t, [f EXCEPT !.mode = "idle", !.job = NoJob, !.remembered = NoJob])
        /\ cloneMishaps' = cloneMishaps \cup (IF cloneJobs[f.job].state # "gone" THEN {<<t, f.job>>} ELSE {})
  /\ UNCHANGED <<jobVars, announced>>

ClonesNext ==
  \/ OthersWrite \/ CloneServerRestarts
  \/ \E j \in Jobs :
       \/ Reserve(j) \/ GitReceives(j) \/ GitClones(j) \/ GitFails(j) \/ AskAccounts(j) \/ NotAgain(j)
       \/ Tidy(j) \/ Prepare(j) \/ AdoptAccount(j) \/ ForgetJob(j)
  \/ \E t \in Cloners :
       \/ StartClone(t) \/ StartAnswered(t) \/ RunInBackground(t) \/ Poll(t) \/ PollFails(t)
       \/ CancelClone(t) \/ Reload(t) \/ Resume(t)

ClonesSpec == ClonesInit /\ [][ClonesNext]_cloneVars
------------------------------
(* Properties. *)

Holds(x) == folder # Absent /\ x \in folder

\* What others have in the destination is never removed by a clone and never cloned into, and a
\* repository that is whole stays, whatever fails or is cancelled.
NothingReplaced ==
  /\ [](folder # Absent => \A x, y \in folder : x = y)
  /\ [][\A x \in {"foreign", "whole"} : Holds(x) => Holds(x)']_cloneVars

\* docs/features.md: "closing the dialog, reloading, or losing the connection keeps it going, and
\* a notification offers to open it": the tab that started a running job follows it, or its
\* storage remembers it. The exceptions: the answer to its start was lost, or the first question
\* after a reload failed.
JobsAreFollowed ==
  \A j \in Jobs : LET f == followers[cloneJobs[j].by] IN
    cloneJobs[j].state = "running" /\ <<cloneJobs[j].by, j>> \notin cloneMishaps => j \in {f.job, f.remembered}

\* A job that ended well has left a whole repository, one that did not says whether it has left
\* something; and a tab is told what has happened, as far as the server knows it.
EndsAreTrue ==
  /\ \A j \in Jobs : /\ cloneJobs[j].state = "completed" => folder = {"whole"}
                     /\ cloneJobs[j].stage = "adopting" => folder = {"whole"}
                     /\ cloneJobs[j].state \in {"failed", "cancelled"} /\ cloneJobs[j].kept => folder # Absent
  /\ \A a \in announced : a[3] = "cloned" => folder = {"whole"}

ClonesAreSafe == NothingReplaced /\ [](JobsAreFollowed /\ EndsAreTrue)
==============================
