------- MODULE PullRequestActions -------
(****************************************)
(* src/main/github/PullRequestActionRunner.ts: an action on a pull request, *)
(* asked for by a user who has seen it with one head commit and one text. *)
(* GitHub is read, the action is checked against what was read, GitHub is *)
(* asked to do it, and what happened is read again.  Between any two of *)
(* these anybody else may change the pull request, and an answer may be *)
(* lost. *)
(* *)
(* Commits of the source branch are numbered in the order they are pushed. *)
(* Permissions, allowed methods, stacks, and a branch that is neither BEHIND *)
(* nor behindBy any commit only refuse more (Refuse). *)
(****************************************)
EXTENDS Integers, FiniteSets

CONSTANTS
  NoBranch,
  MaxOthers,   \* bound: changes by others
  MaxActions   \* bound: actions

ASSUME ActionsAssumption == MaxOthers \in Nat /\ MaxActions \in Nat /\ NoBranch \notin Nat

VARIABLES
  pr,       \* the pull request on GitHub
  mergeQueue,    \* mergeQueue.enabled
  op,       \* the action in progress, and how the last one ended
  others, actions,  \* counters
  removed,  \* history: the branch has been missing since the action began
  unseen,   \* history: commits were merged, armed, updated or removed which the user hadn't seen
  lost,     \* history: a branch was removed with commits that no pull request has
  blindly   \* history: a verdict or a text was applied to what the user hadn't seen

actionVars == <<pr, mergeQueue, op, others, actions, removed, unseen, lost, blindly>>

PullRequestState == {"OPEN", "CLOSED", "MERGED"}
Status == {"ready", "waiting", "behind", "conflicting"}
PullRequestAction == {"merge", "enable-auto-merge", "disable-auto-merge", "update-branch", "delete-branch",
                      "ready", "draft", "close", "reopen", "review", "edit"}
Stage == {"none", "begun", "checked", "executed", "removing"}
Outcome == {"none", "failed", "unconfirmed", "merged", "queued", "auto-merge-enabled", "auto-merge-disabled", "updated", "done"}

ActionEnded(outcome, branchDeleted) == [stage |-> "none", outcome |-> outcome, branchDeleted |-> branchDeleted]

ActionsTypeOK ==
  /\ pr.state \in PullRequestState /\ pr.draft \in BOOLEAN /\ pr.queued \in BOOLEAN /\ pr.auto \in BOOLEAN
  /\ pr.head \in Nat /\ pr.branch \in Nat \cup {NoBranch} /\ pr.status \in Status /\ pr.text \in Nat
  /\ mergeQueue \in BOOLEAN /\ op.stage \in Stage
  /\ op.stage = "none" => op.outcome \in Outcome /\ op.branchDeleted \in BOOLEAN
  /\ op.stage # "none" => op.action \in PullRequestAction /\ op.seen.head \in Nat /\ op.seen.text \in Nat
  /\ others \in 0..MaxOthers /\ actions \in 0..MaxActions
  /\ removed \in BOOLEAN /\ unseen \in BOOLEAN /\ lost \in BOOLEAN /\ blindly \in BOOLEAN

ActionsInit ==
  /\ pr \in [state : {"OPEN"}, draft : BOOLEAN, queued : {FALSE}, auto : {FALSE}, head : {0}, branch : {0},
             status : Status, text : {0}]
  /\ mergeQueue \in BOOLEAN /\ op = ActionEnded("none", FALSE) /\ others = 0 /\ actions = 0
  /\ removed = FALSE /\ unseen = FALSE /\ lost = FALSE /\ blindly = FALSE
------------------------------
(* GitHub, as the program uses it. *)

Merge(p) == [p EXCEPT !.state = "MERGED", !.queued = FALSE, !.auto = FALSE]
Close(p) == [p EXCEPT !.state = "CLOSED", !.queued = FALSE, !.auto = FALSE]

\* What others do to it: an open one takes every commit of its branch, another one doesn't.
OthersAct ==
  /\ others < MaxOthers /\ others' = others + 1
  /\ \/ \E status \in Status :
          /\ pr.branch # NoBranch
          /\ pr' = IF pr.state = "OPEN"
                   THEN [pr EXCEPT !.head = pr.branch + 1, !.branch = pr.branch + 1, !.queued = FALSE, !.status = status]
                   ELSE [pr EXCEPT !.branch = pr.branch + 1]
     \/ \E status \in Status : pr' = [pr EXCEPT !.status = status]
     \/ pr.state = "OPEN" /\ ~pr.draft /\ pr.status = "ready" /\ pr' = Merge(pr)
     \/ pr.state = "OPEN" /\ pr' = Close(pr)
     \/ pr.state = "CLOSED" /\ pr.branch # NoBranch /\ pr' = [pr EXCEPT !.state = "OPEN", !.head = pr.branch]
     \/ pr.branch # NoBranch /\ pr' = [(IF pr.state = "OPEN" THEN Close(pr) ELSE pr) EXCEPT !.branch = NoBranch]
     \/ pr.state = "OPEN" /\ pr' = [pr EXCEPT !.draft = ~pr.draft]
     \/ pr.state = "OPEN" /\ pr' = [pr EXCEPT !.auto = ~pr.auto]
     \/ pr' = [pr EXCEPT !.text = @ + 1]
  /\ removed' = (removed \/ pr'.branch = NoBranch)
  /\ UNCHANGED <<mergeQueue, op, actions, unseen, lost, blindly>>

\* What GitHub makes of a request: no result means that it refuses. Merging, arming and
\* updating name the head that is meant, and removing a branch the commit it is at.
Effect(p, action, head) ==
  CASE action = "merge" /\ ~mergeQueue ->
         IF p.state = "OPEN" /\ ~p.draft /\ p.status = "ready" /\ p.head = head THEN {Merge(p)} ELSE {}
    [] action = "merge" /\ mergeQueue ->
         IF p.state = "OPEN" /\ ~p.draft /\ p.status # "conflicting" /\ p.head = head
         THEN {[p EXCEPT !.queued = TRUE], [p EXCEPT !.auto = TRUE]} ELSE {}
    [] action = "enable-auto-merge" ->
         IF p.state = "OPEN" /\ ~p.draft /\ p.status # "ready" /\ p.head = head THEN {[p EXCEPT !.auto = TRUE]} ELSE {}
    [] action = "disable-auto-merge" -> IF p.auto THEN {[p EXCEPT !.auto = FALSE]} ELSE {}
    [] action = "update-branch" ->
         IF p.state = "OPEN" /\ p.status # "conflicting" /\ p.head = head /\ p.branch = head
         THEN {[p EXCEPT !.head = head + 1, !.branch = head + 1, !.status = s] : s \in Status} ELSE {}
    [] action = "delete-branch" ->
         IF p.branch = head THEN {[(IF p.state = "OPEN" THEN Close(p) ELSE p) EXCEPT !.branch = NoBranch]} ELSE {}
    [] action \in {"ready", "draft"} -> IF p.state = "OPEN" THEN {[p EXCEPT !.draft = (action = "draft")]} ELSE {}
    [] action = "close" -> IF p.state = "OPEN" THEN {Close(p)} ELSE {}
    [] action = "reopen" ->
         IF p.state = "CLOSED" /\ p.branch # NoBranch THEN {[p EXCEPT !.state = "OPEN", !.head = p.branch]} ELSE {}
    [] action = "review" -> {p}
    [] action = "edit" -> {[p EXCEPT !.text = @ + 1]}
------------------------------
(* shared/pull-request-actions.ts: pullRequestActionBlocked. *)

MergingAllowed(p) == p.state = "OPEN" /\ ~p.draft /\ p.status # "conflicting" /\ ~p.auto /\ ~p.queued

BranchRemovable(p) == p.branch = p.head

Allowed(p, action) ==
  CASE action = "merge" -> MergingAllowed(p) /\ (p.status = "ready" \/ mergeQueue)
    [] action = "enable-auto-merge" -> MergingAllowed(p) /\ ~mergeQueue /\ p.status # "ready"
    [] action = "disable-auto-merge" -> p.auto
    [] action = "update-branch" -> p.state = "OPEN" /\ p.status # "conflicting"
    [] action = "delete-branch" -> p.state # "OPEN" /\ BranchRemovable(p)
    [] action = "ready" -> p.state = "OPEN" /\ p.draft
    [] action = "draft" -> p.state = "OPEN" /\ ~p.draft /\ ~p.queued
    [] action \in {"close", "review"} -> p.state = "OPEN"
    [] action = "reopen" -> p.state = "CLOSED"
    [] action = "edit" -> TRUE

\* Bug: what GitHub says now is taken for what the user saw.
SeenByNow(p, o) == TRUE

\* The pull request is still the one the user saw: for an edit its text, otherwise its head.
StillSeen(p, o) == IF o.action = "edit" THEN p.text = o.seen.text ELSE p.head = o.seen.head
------------------------------
(* PullRequestActionRunner. *)

\* The user asks, and sees the pull request as it is; beginGitHubMutation.
BeginAction ==
  /\ op.stage = "none" /\ actions < MaxActions /\ actions' = actions + 1
  /\ \E action \in PullRequestAction, deleteBranch \in BOOLEAN :
       /\ deleteBranch => action = "merge"
       /\ op' = [stage |-> "begun", action |-> action, deleteBranch |-> deleteBranch, seen |-> pr]
  /\ removed' = (pr.branch = NoBranch)
  /\ UNCHANGED <<pr, mergeQueue, others, unseen, lost, blindly>>

EndAction(outcome, branchDeleted) == op' = ActionEnded(outcome, branchDeleted)

\* readLiveState and the checks.
Check ==
  /\ op.stage = "begun"
  /\ CASE op.action = "delete-branch" /\ pr.state # "OPEN" /\ pr.branch = NoBranch -> EndAction("done", TRUE)
       [] ~(op.action = "delete-branch" /\ pr.state # "OPEN" /\ pr.branch = NoBranch)
            /\ StillSeen(pr, op) /\ Allowed(pr, op.action) ->
              op' = [stage |-> "checked", action |-> op.action, deleteBranch |-> op.deleteBranch, seen |-> op.seen, read |-> pr]
       [] OTHER -> EndAction("failed", FALSE)
  /\ UNCHANGED <<pr, mergeQueue, others, actions, removed, unseen, lost, blindly>>

\* The account changed, a permission is missing, there is nothing to update, or a read fails.
Refuse ==
  /\ op.stage \in {"begun", "checked"} /\ EndAction("failed", FALSE)
  /\ UNCHANGED <<pr, mergeQueue, others, actions, removed, unseen, lost, blindly>>

NamesItsHead == {"merge", "enable-auto-merge", "update-branch", "delete-branch"}

\* What a request at GitHub has done, for the history. A branch removed after its merge may
\* have got commits since, which were merged by somebody else.
Records(action, p) ==
  /\ removed' = (removed \/ p.branch = NoBranch)
  /\ unseen' = (unseen \/ (op.action = action /\ action \in NamesItsHead /\ pr.head # op.seen.head))
  /\ lost' = (lost \/ (action = "delete-branch" /\ pr.branch # pr.head))
  /\ blindly' = (blindly \/ (action \in {"review", "edit"} /\ ~StillSeen(pr, op)))

HeadSent(o) == o.read.head

\* execute, and it succeeds. Reviews and edits end here.
Execute ==
  /\ op.stage = "checked"
  /\ \E p \in Effect(pr, op.action, HeadSent(op)) :
       /\ pr' = p /\ Records(op.action, p)
       /\ IF op.action \in {"review", "edit"} THEN EndAction("done", FALSE)
          ELSE op' = [stage |-> "executed", action |-> op.action, deleteBranch |-> op.deleteBranch, seen |-> op.seen]
  /\ UNCHANGED <<mergeQueue, others, actions>>

\* GitHub refuses, or its answer is lost after it did or before it could.
ExecuteFails ==
  /\ op.stage = "checked" /\ EndAction("failed", FALSE)
  /\ \/ UNCHANGED <<pr, removed, unseen, lost, blindly>>
     \/ \E p \in Effect(pr, op.action, HeadSent(op)) : pr' = p /\ Records(op.action, p)
  /\ UNCHANGED <<mergeQueue, others, actions>>

\* outcomeOf
OutcomeOf(action, p) ==
  CASE action \in {"merge", "enable-auto-merge"} /\ p.state = "MERGED" -> "merged"
    [] action = "merge" /\ p.state # "MERGED" /\ p.queued -> "queued"
    [] action \in {"merge", "enable-auto-merge"} /\ p.state # "MERGED" /\ p.auto /\ ~(action = "merge" /\ p.queued) -> "auto-merge-enabled"
    [] action = "disable-auto-merge" /\ ~p.auto -> "auto-merge-disabled"
    [] action = "update-branch" -> "updated"
    [] action \notin {"merge", "enable-auto-merge", "disable-auto-merge", "update-branch"} -> "done"
    [] OTHER -> "unconfirmed"

FailedRead == "unconfirmed"

\* readLiveState after the action: what happened, and whether the branch can go, too.
ReadAfter ==
  /\ op.stage = "executed"
  /\ IF op.action = "merge" /\ op.deleteBranch /\ pr.state = "MERGED" /\ BranchRemovable(pr)
     THEN op' = [stage |-> "removing", action |-> "merge", seen |-> op.seen, read |-> pr, outcome |-> OutcomeOf("merge", pr)]
     ELSE EndAction(OutcomeOf(op.action, pr), FALSE)
  /\ UNCHANGED <<pr, mergeQueue, others, actions, removed, unseen, lost, blindly>>

ReadAfterFails ==
  /\ op.stage = "executed" /\ EndAction(FailedRead, FALSE)
  /\ UNCHANGED <<pr, mergeQueue, others, actions, removed, unseen, lost, blindly>>

\* deleteBranchAfterMerge
RemoveBranch ==
  /\ op.stage = "removing"
  /\ \/ \E p \in Effect(pr, "delete-branch", HeadSent(op)) :
          /\ pr' = p /\ Records("delete-branch", p)
          /\ \/ EndAction(op.outcome, TRUE)
             \/ EndAction(op.outcome, FALSE)  \* the answer is lost
     \/ EndAction(op.outcome, FALSE) /\ UNCHANGED <<pr, removed, unseen, lost, blindly>>
  /\ UNCHANGED <<mergeQueue, others, actions>>

ActionsNext ==
  \/ OthersAct \/ BeginAction \/ Check \/ Refuse \/ Execute \/ ExecuteFails \/ ReadAfter \/ ReadAfterFails \/ RemoveBranch

ActionsSpec == ActionsInit /\ [][ActionsNext]_actionVars
------------------------------
(* Properties. *)

\* No action of the program merges, arms, updates or removes commits its user hasn't seen, and
\* none removes a branch with commits the pull request doesn't have, whatever others push,
\* merge or close between the checks and the request.
OnlySeenCommits == ~unseen /\ ~lost

\* What is reported has happened: a pull request reported as merged is merged, a branch
\* reported as removed was, and what GitHub confirmed is never reported as failed.
ReportsWhatHappened == [][
  /\ op'.stage = "none" /\ op.stage # "none" /\ op'.outcome = "merged" => pr'.state = "MERGED"
  /\ op'.stage = "none" /\ op.stage # "none" /\ op'.outcome = "queued" => pr.queued
  /\ op'.stage = "none" /\ op.stage # "none" /\ op'.branchDeleted => removed'
  /\ op'.stage = "none" /\ op.stage \in {"executed", "removing"} => op'.outcome # "failed"]_actionVars

\* An action on a pull request is about what its user saw, and its report is about what happened.
ActionsHold ==
  /\ [](ActionsTypeOK /\ OnlySeenCommits)
  /\ ReportsWhatHappened

\* docs/github.md: "a verdict is never applied to code you haven't seen", and saving a text
\* "stops if the PR changed on GitHub after you started".
VerdictOnSeenCode == ~blindly
==============================
