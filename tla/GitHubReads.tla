------- MODULE GitHubReads -------
(****************************************)
(* src/main/github/GitHubService.ts: what is read from GitHub about a pull *)
(* request.  Reads in progress are shared (ReadSingleFlight); the details *)
(* and the conversation are also kept for a while, the live state never. *)
(* What the program changes on GitHub drops what is kept, and so does a *)
(* live state that shows a change others made. *)
(* *)
(* A read sees a moment: the state of GitHub and the account in use then. *)
(****************************************)
EXTENDS ReadSingleFlight, Sequences

CONSTANTS
  Repository,   \* the scope of the reads
  MaxMoments,   \* bound: changes on GitHub and of the account
  MaxMutations, \* bound: those that the program asks for
  MaxWrites,    \* bound: Git commands during reads
  MaxCalls,     \* bound: calls
  Attempts      \* shareRead tries three times

ASSUME GitHubReadsAssumption ==
  /\ Scopes = {Repository} /\ MaxMoments \in Nat \ {0} /\ MaxMutations \in Nat /\ MaxCalls \in Nat /\ MaxWrites \in Nat /\ Attempts \in Nat \ {0}
  /\ Keys = {"details", "conversation", "live-state"} \X (0..MaxMoments)

VARIABLES
  moments,      \* what GitHub and authRevision were and are
  mutating,     \* a change on GitHub made by the program: "none", "asked" or "done"
  settled,      \* per resource what is kept, or None
  settledEpoch,
  call,         \* per reader, the local variables of settledRead, shareRead and forgetOutdated
  calls, mutations, writes,  \* counters
  changed,      \* history: what GitHub was when the program's last change had dropped what was kept
  reported,     \* history: what GitHub was by the newest live state that was answered
  missed        \* history: what an answer has missed

gitHubVars == <<moments, mutating, settled, settledEpoch, call, calls, mutations, writes, changed, reported, missed>>
gitHubReadVars == <<readVars, gitHubVars>>

Kept == {"details", "conversation"}
Resources == Kept \cup {"live-state"}

Now == Len(moments)
AuthRevision == moments[Now].account
GitHub(m) == moments[m].github

NoCall == [stage |-> "none"]

GitHubReadsTypeOK ==
  /\ ReadTypeOK
  /\ moments \in Seq([github : Nat, account : Nat]) /\ moments # <<>>
  /\ mutating \in {"none", "asked", "done"} /\ settledEpoch \in Nat /\ calls \in 0..MaxCalls /\ mutations \in 0..MaxMutations /\ writes \in 0..MaxWrites
  /\ \A k \in Kept : settled[k] # None => settled[k].account \in 0..AuthRevision /\ settled[k].value \in 1..Now
  /\ \A r \in Readers : call[r].stage \in {"none", "routing", "reading", "forgetting"}
  /\ changed \in Nat /\ reported \in Nat /\ missed \subseteq {"account", "change", "report"}

GitHubReadsInit ==
  /\ ReadInit
  /\ moments = <<[github |-> 0, account |-> 0]>> /\ mutating = "none"
  /\ settled = [k \in Kept |-> None] /\ settledEpoch = 0
  /\ call = [r \in Readers |-> NoCall] /\ calls = 0 /\ mutations = 0 /\ writes = 0 /\ changed = 0 /\ reported = 0 /\ missed = {}
------------------------------
Moment(github, account) == Now < MaxMoments /\ moments' = Append(moments, [github |-> github, account |-> account])

OthersChange ==
  /\ Moment(GitHub(Now) + 1, AuthRevision)
  /\ UNCHANGED <<readVars, mutating, settled, settledEpoch, call, calls, mutations, writes, changed, reported, missed>>

AccountChanges ==
  /\ Moment(GitHub(Now), AuthRevision + 1)
  /\ UNCHANGED <<readVars, mutating, settled, settledEpoch, call, calls, mutations, writes, changed, reported, missed>>

\* git.onInvalidate: a Git command other than a fetch starts the reads in progress again.
GitWrites ==
  /\ writes < MaxWrites /\ writes' = writes + 1
  /\ flight' = Invalidated(flight, Repository) /\ flight' # flight
  /\ UNCHANGED <<reader, moments, mutating, settled, settledEpoch, call, calls, mutations, changed, reported, missed>>

Invalidate ==
  /\ settled' = [k \in Kept |-> None] /\ settledEpoch' = settledEpoch + 1
  /\ flight' = Invalidated(flight, Repository) /\ UNCHANGED reader

\* The program changes something: it drops what is kept before, GitHub does it, and it
\* drops what is kept afterwards, whatever GitHub answers.
BeginMutation ==
  /\ mutating = "none" /\ mutating' = "asked" /\ mutations < MaxMutations /\ mutations' = mutations + 1 /\ Invalidate
  /\ UNCHANGED <<moments, call, calls, writes, changed, reported, missed>>

GitHubDoesIt ==
  /\ mutating = "asked" /\ mutating' = "done" /\ Moment(GitHub(Now) + 1, AuthRevision)
  /\ UNCHANGED <<readVars, settled, settledEpoch, call, calls, mutations, writes, changed, reported, missed>>

EndMutation ==
  /\ mutating \in {"asked", "done"} /\ mutating' = "none" /\ Invalidate /\ changed' = GitHub(Now)
  /\ UNCHANGED <<moments, call, calls, mutations, writes, reported, missed>>

\* The time for which a value is kept has passed.
Expire ==
  /\ \E k \in Kept : settled[k] # None /\ settled' = [settled EXCEPT ![k] = None]
  /\ UNCHANGED <<readVars, moments, mutating, settledEpoch, call, calls, mutations, writes, changed, reported, missed>>
------------------------------
(* Calls. *)

\* getPullRequest, getPullRequestConversation, getPullRequestLiveState.
Call(r, resource) ==
  /\ call[r].stage = "none" /\ calls < MaxCalls /\ calls' = calls + 1
  /\ LET asked == [resource |-> resource, changed |-> changed, reported |-> reported] IN
     call' = [call EXCEPT ![r] = [stage |-> "routing", asked |-> asked]]
  /\ UNCHANGED <<readVars, moments, mutating, settled, settledEpoch, mutations, writes, changed, reported, missed>>

\* What an answer of the moment m misses, for the history.
Answer(r, m, account) ==
  /\ call' = [call EXCEPT ![r] = NoCall]
  /\ missed' = missed \cup {what \in {"account", "change", "report"} :
       CASE what = "account" -> moments[m].account # account
         [] what = "change" -> GitHub(m) < call[r].asked.changed
         [] what = "report" -> GitHub(m) < call[r].asked.reported}

\* settledRead, once the remote is known: a kept value of the account in use.
Hit(r) ==
  LET k == call[r].asked.resource IN
  /\ call[r].stage = "routing" /\ k \in Kept /\ settled[k] # None /\ settled[k].account = AuthRevision
  /\ Answer(r, settled[k].value, AuthRevision)
  /\ UNCHANGED <<readVars, moments, mutating, settled, settledEpoch, calls, mutations, writes, changed, reported>>

\* shareRead: the read that is shared is that of the account in use.
Share(r, attempt, epoch, key) ==
  /\ call' = [call EXCEPT ![r] = [stage |-> "reading", asked |-> call[r].asked, attempt |-> attempt,
                                  revision |-> AuthRevision, epoch |-> epoch, key |-> key]]
  /\ RunRead(r, Repository, <<call[r].asked.resource, AuthRevision>>, TRUE, 0)

Miss(r) ==
  LET k == call[r].asked.resource IN
  /\ call[r].stage = "routing" /\ ~(k \in Kept /\ settled[k] # None /\ settled[k].account = AuthRevision)
  /\ Share(r, 0, settledEpoch, AuthRevision)
  /\ UNCHANGED <<moments, mutating, settled, settledEpoch, calls, mutations, writes, changed, reported, missed>>

\* ReadSingleFlight, on behalf of the calls.
ReadLooks(f) == Look(f, Now) /\ UNCHANGED gitHubVars
ReadLands(f) == Land(f, FALSE) /\ UNCHANGED gitHubVars
ReadReturns(r) == ReturnRead(r) /\ UNCHANGED gitHubVars
ReadRetries(r) == RetryRead(r, 0) /\ UNCHANGED gitHubVars

\* Bug: the account may have changed during the read.
SameAccountUnchecked(r) == TRUE
SameAccount(r) == call[r].revision = AuthRevision

Returned(r) == call[r].stage = "reading" /\ reader[r].pc = "returned"

\* shareRead: the account has changed during the read, which is made again.
ReadAgain(r) ==
  /\ Returned(r) /\ ~SameAccount(r) /\ call[r].attempt + 1 < Attempts
  /\ LET idle == [reader EXCEPT ![r] = IdleReader] IN
     /\ call' = [call EXCEPT ![r].attempt = @ + 1, ![r].revision = AuthRevision]
     /\ Attach(r, flight, [idle[r] EXCEPT !.pc = "waiting", !.scope = Repository, !.retryInvalidated = TRUE,
                                          !.key = <<call[r].asked.resource, AuthRevision>>])
  /\ UNCHANGED <<moments, mutating, settled, settledEpoch, calls, mutations, writes, changed, reported, missed>>

GiveUp(r) ==
  /\ Returned(r) /\ ~SameAccount(r) /\ call[r].attempt + 1 = Attempts
  /\ call' = [call EXCEPT ![r] = NoCall] /\ CallerDone(r)
  /\ UNCHANGED <<moments, mutating, settled, settledEpoch, calls, mutations, writes, changed, reported, missed>>

Keeps(r) == call[r].epoch = settledEpoch /\ call[r].key = AuthRevision

\* settledRead ends: its value is kept unless it may predate a change or is another account's.
SettledEnds(r) ==
  LET k == call[r].asked.resource IN
  /\ Returned(r) /\ SameAccount(r) /\ k \in Kept
  /\ settled' = IF Keeps(r) THEN [settled EXCEPT ![k] = [account |-> AuthRevision, value |-> reader[r].result]] ELSE settled
  /\ Answer(r, reader[r].result, AuthRevision) /\ CallerDone(r)
  /\ UNCHANGED <<moments, mutating, settledEpoch, calls, mutations, writes, changed, reported>>

\* A live state: forgetOutdated takes the entries there are, if there are any, and looks up the
\* remote before it looks at them.
LiveStateRead(r) ==
  /\ Returned(r) /\ SameAccount(r) /\ call[r].asked.resource = "live-state"
  /\ \E entries \in {settledEpoch} \cup (IF settled = [k \in Kept |-> None] THEN {None} ELSE {}) :
       call' = [call EXCEPT ![r] = [stage |-> "forgetting", asked |-> call[r].asked, value |-> reader[r].result,
                                    account |-> AuthRevision, entries |-> entries]]
  /\ CallerDone(r)
  /\ UNCHANGED <<moments, mutating, settled, settledEpoch, calls, mutations, writes, changed, reported, missed>>

KeptDetails == settled["details"] # None /\ settled["details"].account = AuthRevision

\* forgetOutdated: what is kept among these entries goes if the details are of another moment.
ForgetOutdated(r) ==
  LET github == GitHub(call[r].value) IN
  /\ call[r].stage = "forgetting"
  /\ settled' = IF call[r].entries = settledEpoch /\ KeptDetails /\ GitHub(settled["details"].value) # github THEN [k \in Kept |-> None] ELSE settled
  /\ Answer(r, call[r].value, call[r].account) /\ reported' = IF github > reported THEN github ELSE reported
  /\ UNCHANGED <<readVars, moments, mutating, settledEpoch, calls, mutations, writes, changed>>

GitHubReadsNext ==
  \/ OthersChange \/ AccountChanges \/ GitWrites \/ BeginMutation \/ GitHubDoesIt \/ EndMutation \/ Expire
  \/ \E f \in Flights : ReadLooks(f) \/ ReadLands(f)
  \/ \E r \in Readers :
       \/ \E resource \in Resources : Call(r, resource)
       \/ Hit(r) \/ Miss(r) \/ ReadReturns(r) \/ ReadRetries(r) \/ ReadAgain(r) \/ GiveUp(r)
       \/ SettledEnds(r) \/ LiveStateRead(r) \/ ForgetOutdated(r)

GitHubReadsSpec == GitHubReadsInit /\ [][GitHubReadsNext]_gitHubReadVars
------------------------------
(* Properties. *)

\* What is answered was read with the account in use when the read ended, and no earlier than
\* the program's last change on GitHub that had ended when it was asked for, however reads are
\* shared, made again, kept and dropped around the changes.
AnswersKeepUp == missed \subseteq {"report"}

\* GitHubService.ts: a live state drops details and conversation "sooner when GitHub reports
\* a change": neither is older than a live state that was answered before it was asked for.
LiveStateDrops == "report" \notin missed
==============================
