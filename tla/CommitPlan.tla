------- MODULE CommitPlan -------
(****************************************)
(* Splitting staged changes into several commits: the generation of a plan *)
(* (src/main/ai/CommitMessageService.ts), the preparation of one group of *)
(* it and the commit (src/main/git/GitRepositoryOperations.ts), driven by *)
(* one window (src/renderer/app/App.tsx), while other programs edit, stage, *)
(* unstage and commit. *)
(* *)
(* Files are present in the head commit, the index and the working tree; *)
(* their content is a version number.  Renames, conflicts and a truncated *)
(* summary block a plan like a partially staged file does, and are left *)
(* out.  What the model answers is any partition the parser accepts. *)
(****************************************)
EXTENDS Integers, Sequences, FiniteSets, Functions

CONSTANTS
  Files,
  MaxVersion,  \* bound: contents of a file are the versions 0..MaxVersion
  MaxOutside   \* bound: steps other programs take

ASSUME PlanAssumption ==
  IsFiniteSet(Files) /\ MaxVersion \in Nat \ {0} /\ MaxOutside \in Nat

VARIABLES
  head, index, work,  \* the content of every file in the three places
  gen,                \* CommitMessageService.generate, while it runs; history in it:
                      \* touched, when the repository was changed since it began
  plan,               \* commitProposal, with what the model was shown
  prepared, done,     \* preparedCommitIndex (0 for null), completedCommitIndices
  known,              \* the staged paths in the window's status
  preparation,               \* prepareCommitGroup, while it runs
  outside,            \* bound: outside steps taken
  touched,            \* history: not only the plan's own steps since its generation began
  disturbed,          \* history: not only the preparation since it began
  added,              \* history: the preparation staged the files anew
  replaced,          \* history: a plan was replaced while a group of it was prepared
  refused             \* history: a preparation of the plan was refused

repo == <<head, index, work>>
window == <<plan, prepared, done, known>>
history == <<outside, touched, disturbed, added, replaced, refused>>
planVars == <<repo, gen, window, preparation, history>>

Version == 0..MaxVersion
Content == [Files -> Version]

Staged == {f \in Files : index[f] # head[f]}
Unstaged == {f \in Files : work[f] # index[f]}

\* git diff --cached, whose hash is the fingerprint of the staged snapshot
Patch == [f \in Staged |-> <<head[f], index[f]>>]

\* What the model is shown of a file that is not in the patch.
Nothing == -1

NoPlan == [groups |-> <<>>, fps |-> [f \in Files |-> 0], shown |-> [f \in Files |-> Nothing]]

Group(p, i) == IF i \in DOMAIN p.groups THEN p.groups[i] ELSE {}

NoGen == [pc |-> "idle", paths |-> {}, blocked |-> FALSE, patch |-> <<>>,
          left |-> {}, touched |-> FALSE, plan |-> NoPlan]

NoTask == [pc |-> "idle", group |-> 0, paths |-> {}, expected |-> {},
           fps |-> NoPlan.fps, staged |-> {}, changed |-> {}]

\* The plans parseCommitSplitProposal accepts: at least two groups, and every
\* staged path in exactly one.
Partitions(paths) ==
  UNION {{g \in [1..n -> (SUBSET paths) \ {{}}] :
            /\ UNION Range(g) = paths
            /\ \A i, j \in 1..n : i # j => g[i] \cap g[j] = {}} : n \in 2..Cardinality(paths)}

Plan == [groups : {<<>>} \cup UNION {Partitions(s) : s \in SUBSET Files},
         fps : Content, shown : [Files -> Version \cup {Nothing}]]

PlanTypeOK ==
  /\ head \in Content /\ index \in Content /\ work \in Content
  /\ gen.pc \in {"idle", "status", "model", "recheck", "hash"}
  /\ gen.paths \subseteq Files /\ gen.left \subseteq gen.paths
  /\ gen.plan \in Plan /\ plan \in Plan
  /\ prepared \in 0..Cardinality(Files) /\ done \subseteq 1..Cardinality(Files)
  /\ plan # NoPlan => Cardinality(done) < Len(plan.groups)
  /\ known \subseteq Files
  /\ preparation.pc \in {"idle", "status", "hash", "unstage", "add", "answer", "refuse"}
  /\ preparation.paths \subseteq Files /\ preparation.staged \subseteq Files
  /\ outside \in 0..MaxOutside
  /\ \A b \in {touched, disturbed, added, replaced, refused} : b \in BOOLEAN

PlanInit ==
  /\ head = [f \in Files |-> 0] /\ index \in [Files -> 0..1] /\ work \in [Files -> 0..1]
  /\ known = Staged
  /\ gen = NoGen /\ plan = NoPlan /\ prepared = 0 /\ done = {} /\ preparation = NoTask
  /\ outside = 0 /\ touched = FALSE /\ disturbed = FALSE /\ added = FALSE
  /\ replaced = FALSE /\ refused = FALSE

------------------------------
(* Generation *)

Preparing == preparation.pc # "idle"

\* The window asks for a message.
BeginGenerate ==
  /\ gen.pc = "idle" /\ ~Preparing /\ known # {}
  /\ gen' = [NoGen EXCEPT !.pc = "status"]
  /\ UNCHANGED <<repo, window, preparation, history>>

\* A generation that fails, is cancelled, or finds the repository changed.
Abandoned == gen' = NoGen /\ UNCHANGED <<repo, window, preparation, history>>

CancelGenerate == gen.pc # "idle" /\ Abandoned

\* The status of the first getCommitMessageContext.
ReadStatus ==
  /\ gen.pc = "status"
  /\ IF Staged = {}
     THEN Abandoned
     ELSE /\ gen' = [gen EXCEPT !.pc = "model", !.paths = Staged,
                                !.blocked = Staged \cap Unstaged # {}]
          /\ UNCHANGED <<repo, window, preparation, history>>

\* Its patch, which the model is shown.
ReadPatch ==
  /\ gen.pc = "model"
  /\ gen' = [gen EXCEPT !.pc = "recheck", !.patch = Patch,
                     !.plan.shown = [f \in Files |-> IF f \in Staged THEN index[f] ELSE Nothing]]
  /\ UNCHANGED <<repo, window, preparation, history>>

\* The answer, and the second getCommitMessageContext: the staged snapshot has
\* to be the one the model was shown.
Recheck ==
  /\ gen.pc = "recheck"
  /\ IF Staged = {} \/ Patch # gen.patch
     THEN Abandoned
     ELSE /\ \/ gen' = [gen EXCEPT !.pc = "hash"]
             \/ /\ ~gen.blocked
                /\ \E g \in Partitions(gen.paths) :
                     gen' = [gen EXCEPT !.pc = "hash", !.plan.groups = g, !.left = gen.paths]
          /\ UNCHANGED <<repo, window, preparation, history>>

\* withGroupFingerprints, one file at a time: blobHash reads the working tree.
FingerprintOf(f) == work[f]

HashFile(f) ==
  /\ gen.pc = "hash" /\ f \in gen.left
  /\ gen' = [gen EXCEPT !.left = @ \ {f}, !.plan.fps[f] = FingerprintOf(f)]
  /\ UNCHANGED <<repo, window, preparation, history>>

\* The window takes the result, a plan or none.  A plan is only its own if the
\* window's status is up to date by then.
Show ==
  /\ gen.pc = "hash" /\ gen.left = {}
  /\ plan' = IF gen.plan.groups = <<>> THEN NoPlan ELSE gen.plan
  /\ prepared' = 0 /\ done' = {}
  /\ gen' = NoGen
  /\ touched' = (gen.touched \/ known # Staged) /\ replaced' = Preparing /\ refused' = FALSE
  /\ UNCHANGED <<repo, known, preparation, outside, disturbed, added>>

------------------------------
(* Preparing a group *)

\* The window's refresh after an operation of its own.
Refreshed(staged) == staged

\* A preparation is not a step of the plan that is being generated meanwhile.
GenTouched == gen' = IF gen.pc = "idle" THEN gen ELSE [gen EXCEPT !.touched = TRUE]

Prepare(i) ==
  /\ ~Preparing /\ i \in DOMAIN plan.groups /\ i \notin done /\ i # prepared
  /\ preparation' = [NoTask EXCEPT !.pc = "status", !.group = i, !.paths = plan.groups[i],
                            !.expected = known, !.fps = plan.fps]
  /\ disturbed' = FALSE /\ added' = FALSE
  /\ UNCHANGED <<repo, gen, window, outside, touched, replaced, refused>>

Goes(pc) ==
  /\ preparation' = [preparation EXCEPT !.pc = pc]
  /\ UNCHANGED <<repo, gen, window, history>>

CheckStatus ==
  /\ preparation.pc = "status"
  /\ IF Staged # preparation.expected
     THEN Goes("refuse")
     ELSE /\ preparation' = [preparation EXCEPT !.pc = "hash", !.staged = Staged,
                                  !.changed = Staged \cup Unstaged]
          /\ UNCHANGED <<repo, gen, window, history>>

\* commitGroupFingerprint, and the paths that have to be changed.
SameFingerprint == \A f \in preparation.paths : FingerprintOf(f) = preparation.fps[f]

CheckFingerprint ==
  /\ preparation.pc = "hash"
  /\ Goes(IF SameFingerprint /\ preparation.paths \subseteq preparation.changed THEN "unstage" ELSE "refuse")

AlreadyStaged == preparation.staged # {} /\ preparation.paths \subseteq preparation.staged

\* Bug: a group that is staged already is left with the other staged files.
TakenOutOnlyAnew == IF AlreadyStaged THEN {} ELSE preparation.staged

\* What is taken out of the index: the other staged files when the group is
\* staged as it is, everything when it has to be staged anew.
TakenOut == IF AlreadyStaged THEN preparation.staged \ preparation.paths ELSE preparation.staged

Unstage ==
  /\ preparation.pc = "unstage"
  /\ index' = [f \in Files |-> IF f \in TakenOut THEN head[f] ELSE index[f]]
  /\ preparation' = [preparation EXCEPT !.pc = IF AlreadyStaged THEN "answer" ELSE "add"]
  /\ GenTouched
  /\ UNCHANGED <<head, work, window, history>>

Add ==
  /\ preparation.pc = "add"
  /\ index' = [f \in Files |-> IF f \in preparation.paths THEN work[f] ELSE index[f]]
  /\ preparation' = [preparation EXCEPT !.pc = "answer"]
  /\ added' = TRUE
  /\ GenTouched
  /\ UNCHANGED <<head, work, window, outside, touched, disturbed, replaced, refused>>

\* The window takes the answer, for whatever plan it shows by now, and refreshes.
PrepareEnds ==
  /\ preparation.pc \in {"answer", "refuse"}
  /\ prepared' = IF preparation.pc = "answer" THEN preparation.group ELSE 0
  /\ known' = Refreshed(Staged)
  /\ preparation' = NoTask
  /\ refused' = (refused \/ (preparation.pc = "refuse" /\ ~replaced))
  /\ UNCHANGED <<repo, gen, plan, done, outside, touched, disturbed, added, replaced>>

------------------------------
(* The window's other steps *)

Dropped == plan' = NoPlan /\ prepared' = 0 /\ done' = {}

GroupsRemain == Cardinality(done \cup {prepared}) < Len(plan.groups)

\* createCommit, disabled while a message is generated.
Commit ==
  /\ ~Preparing /\ gen.pc = "idle" /\ known # {} /\ Staged # {}
  /\ head' = index
  /\ known' = Refreshed({})
  /\ IF plan # NoPlan /\ prepared # 0 /\ GroupsRemain
     THEN done' = done \cup {prepared} /\ prepared' = 0 /\ UNCHANGED plan
     ELSE Dropped
  /\ disturbed' = TRUE
  /\ UNCHANGED <<index, work, gen, preparation, outside, touched, added, replaced, refused>>

\* Staging or unstaging files in the window drops the plan.
StageHere ==
  /\ ~Preparing
  /\ \E f \in Files : \/ f \in Unstaged /\ index' = [index EXCEPT ![f] = work[f]]
                      \/ f \in Staged /\ index' = [index EXCEPT ![f] = head[f]]
  /\ known' = Refreshed({f \in Files : index'[f] # head[f]})
  /\ plan' = NoPlan /\ prepared' = 0 /\ UNCHANGED done
  /\ touched' = TRUE /\ disturbed' = TRUE /\ GenTouched
  /\ UNCHANGED <<head, work, preparation, outside, added, replaced, refused>>

Dismiss ==
  /\ plan # NoPlan /\ Dropped
  /\ UNCHANGED <<repo, gen, known, preparation, history>>

Refresh ==
  /\ known # Staged /\ known' = Staged
  /\ UNCHANGED <<repo, gen, plan, prepared, done, preparation, history>>

(* Other programs *)

Outside ==
  /\ outside < MaxOutside
  /\ outside' = outside + 1
  /\ touched' = TRUE /\ disturbed' = TRUE /\ GenTouched
  /\ \/ \E f \in Files : \/ /\ \E v \in Version \ {work[f]} : work' = [work EXCEPT ![f] = v]
                            /\ UNCHANGED <<head, index>>
                         \/ /\ f \in Unstaged /\ index' = [index EXCEPT ![f] = work[f]]
                            /\ UNCHANGED <<head, work>>
                         \/ /\ f \in Staged /\ index' = [index EXCEPT ![f] = head[f]]
                            /\ UNCHANGED <<head, work>>
     \/ Staged # {} /\ head' = index /\ UNCHANGED <<index, work>>
  /\ UNCHANGED <<window, preparation, added, replaced, refused>>

PlanNext ==
  \/ BeginGenerate \/ CancelGenerate \/ ReadStatus \/ ReadPatch \/ Recheck
  \/ \E f \in Files : HashFile(f)
  \/ Show
  \/ \E i \in 1..Cardinality(Files) : Prepare(i)
  \/ CheckStatus \/ CheckFingerprint \/ Unstage \/ Add \/ PrepareEnds
  \/ Commit \/ StageHere \/ Dismiss \/ Refresh
  \/ Outside

PlanSpec == PlanInit /\ [][PlanNext]_planVars

------------------------------
\* Prepared by this plan, with nothing else at work since the preparation began.
InPeace == prepared # 0 /\ plan # NoPlan /\ ~Preparing /\ ~disturbed /\ ~replaced

\* A prepared group is alone in the index: nothing of another group, staged
\* before by the user or by an earlier preparation, is committed under its
\* message.
OnlyTheGroup == InPeace => Staged \subseteq Group(plan, prepared)

\* What a preparation stages anew is the content that was fingerprinted when the
\* plan was made, however many groups were prepared and committed in between.
AddedIsFingerprinted ==
  InPeace /\ added => \A f \in Group(plan, prepared) : index[f] = plan.fps[f]

\* While nothing but the plan's own steps happens, in any order of its groups,
\* no preparation is refused, every group marked complete is committed with the
\* content the model was shown, and no file of another group is.
UntouchedPlanHolds ==
  plan # NoPlan /\ ~touched /\ ~replaced =>
    /\ ~refused
    /\ \A i \in DOMAIN plan.groups : \A f \in plan.groups[i] :
         (i \in done) <=> (head[f] = plan.shown[f])

\* A preparation leaves its group in the index, as it was fingerprinted, and a plan that
\* nobody disturbs can be carried out.
PlanHolds == OnlyTheGroup /\ AddedIsFingerprinted /\ UntouchedPlanHolds

\* A changed file cannot silently use a stale plan: what a preparation stages anew
\* is the content the plan was made for.  The group's fingerprint is taken from
\* the working tree after the answer came, not from the patch the model was shown,
\* so a file edited while the model worked is staged with content it never saw.
NoStalePlan ==
  InPeace /\ added => \A f \in Group(plan, prepared) : plan.shown[f] \in {Nothing, index[f]}
==============================
