------- MODULE GitHubAccounts -------
(****************************************)
(* src/main/github/GitHubAccountsService.ts: which GitHub account each *)
(* repository uses, its own or the default, and the revision that tells *)
(* whether what was read under an account still holds.  Everything that *)
(* changes GitHub (GitHubAccess.ts) and every edit of an account names the *)
(* account and the revision its user saw. *)
(* *)
(* The settings change in memory at once and are saved in order; a save *)
(* that fails puts the previous choice back (SettingsStore).  GitHub CLI *)
(* keeps each account's credentials and has an active account; both change *)
(* outside the program. *)
(****************************************)
EXTENDS Integers, Sequences, FiniteSets

CONSTANTS
  Repositories, Logins, NoLogin,
  MaxChanges   \* bound: choices that are made, and changes outside

ASSUME AccountsAssumption == MaxChanges \in Nat /\ NoLogin \notin Logins /\ "default" \notin Logins \cup Repositories

VARIABLES
  selection,    \* per repository: "default" or the login of its own account
  defaultLogin, \* or NoLogin
  revision, revisions, defaultRevision,
  contexts,     \* per repository the account verified last, and its revision; or NoLogin
  saving,       \* saves in progress
  gh,           \* whom the credentials saved for each login authenticate, or NoLogin
  ghActive,     \* the active account, or NoLogin
  mutation,     \* a change of something on GitHub
  edit,         \* a client's edit of the account, prepared and not sent yet
  adoption,     \* adoptAccountWithAccess, while it looks for accounts
  changes,      \* counter
  outdated,     \* history: something was done for a choice that had changed
  rolledBack    \* history: a default that couldn't be saved was put back

accountVars == <<selection, defaultLogin, revision, revisions, defaultRevision, contexts, saving, gh, ghActive,
                 mutation, edit, adoption, changes, outdated, rolledBack>>

Max2(a, b) == IF a > b THEN a ELSE b

\* resolveGitHubAccount
ResolvedFrom(choice, login) == IF choice = "default" THEN login ELSE choice
Resolved(r) == ResolvedFrom(selection[r], defaultLogin)

RevisionFor(r) == Max2(revisions[r], IF selection[r] = "default" THEN defaultRevision ELSE 0)

Choice(r) == <<selection[r], Resolved(r)>>

Idle == [stage |-> "none"]

AccountsTypeOK ==
  /\ selection \in [Repositories -> Logins \cup {"default"}] /\ defaultLogin \in Logins \cup {NoLogin}
  /\ revision \in Nat /\ revisions \in [Repositories -> 0..revision] /\ defaultRevision \in 0..revision
  /\ \A r \in Repositories : contexts[r] # NoLogin => contexts[r].login \in Logins /\ contexts[r].revision \in 0..revision
  /\ gh \in [Logins -> Logins \cup {NoLogin}] /\ ghActive \in Logins \cup {NoLogin}
  /\ mutation.stage \in {"none", "reviewed", "authenticating", "reading"}
  /\ edit.stage \in {"none", "prepared"} /\ adoption.stage \in {"none", "probing"}
  /\ changes \in 0..MaxChanges /\ outdated \in BOOLEAN /\ rolledBack \in BOOLEAN

AccountsInit ==
  /\ selection = [r \in Repositories |-> "default"] /\ defaultLogin \in Logins \cup {NoLogin}
  /\ revision = 0 /\ revisions = [r \in Repositories |-> 0] /\ defaultRevision = 0
  /\ contexts = [r \in Repositories |-> NoLogin] /\ saving = <<>>
  /\ gh = [l \in Logins |-> l] /\ ghActive \in Logins \cup {NoLogin}
  /\ mutation = Idle /\ edit = Idle /\ adoption = Idle
  /\ changes = 0 /\ outdated = FALSE /\ rolledBack = FALSE

Change == changes < MaxChanges /\ changes' = changes + 1
------------------------------
(* Choices. *)

\* Bug: the choice of a repository has no revision of its own until it is saved.
InvalidatedLate(r) == UNCHANGED <<revision, revisions>>

\* invalidate, of a repository.
InvalidatedContext(r) == revision' = revision + 1 /\ revisions' = [revisions EXCEPT ![r] = revision + 1]

\* setSelection: in memory at once, then the revision, then the save.
Select(r, choice) ==
  /\ selection' = [selection EXCEPT ![r] = choice]
  /\ InvalidatedContext(r)
  /\ saving' = Append(saving, [what |-> r, previous |-> selection[r], value |-> choice])

identities == <<contexts, gh, ghActive>>

\* setRepositoryAccount of a client that shows the choice as it is.
SetSelection ==
  /\ Change
  /\ \E r \in Repositories, choice \in Logins \cup {"default"} : Select(r, choice)
  /\ UNCHANGED <<defaultLogin, defaultRevision, identities, mutation, edit, adoption, outdated, rolledBack>>

\* A client shows the account to edit, and sends its edit later.
PrepareEdit ==
  /\ edit = Idle
  /\ \E r \in Repositories : edit' = [stage |-> "prepared", r |-> r, revision |-> RevisionFor(r), choice |-> Choice(r)]
  /\ UNCHANGED <<selection, defaultLogin, revision, revisions, defaultRevision, saving, identities, mutation, adoption, changes, outdated, rolledBack>>

\* setRepositoryAccount, with the revision it expects.
SendEdit ==
  /\ edit # Idle /\ edit' = Idle
  /\ IF edit.revision = RevisionFor(edit.r)
     THEN /\ \E choice \in Logins \cup {"default"} : Select(edit.r, choice)
          /\ outdated' = (outdated \/ edit.choice # Choice(edit.r))
     ELSE UNCHANGED <<selection, revision, revisions, saving, outdated>>
  /\ UNCHANGED <<defaultLogin, defaultRevision, identities, mutation, adoption, changes, rolledBack>>

NewDefault(login) ==
  /\ defaultLogin' = login /\ revision' = revision + 1 /\ defaultRevision' = revision + 1
  /\ saving' = Append(saving, [what |-> "default", previous |-> defaultLogin, value |-> login])

\* setDefaultAccount
SetDefaultAccount ==
  /\ Change /\ \E login \in Logins : NewDefault(login)
  /\ UNCHANGED <<selection, revisions, identities, mutation, edit, adoption, outdated, rolledBack>>

Authenticated == {l \in Logins : gh[l] = l}

\* check, and adoptDefault: the accounts GitHub CLI has; the first one found is the default.
CheckInventory ==
  /\ contexts' = [r \in Repositories |-> NoLogin]
  /\ IF defaultLogin = NoLogin /\ Authenticated # {}
     THEN /\ NewDefault(IF ghActive \in Authenticated THEN ghActive ELSE CHOOSE l \in Authenticated : TRUE)
          /\ Change
     ELSE UNCHANGED <<defaultLogin, revision, defaultRevision, saving, changes>>
  /\ UNCHANGED <<selection, revisions, gh, ghActive, mutation, edit, adoption, outdated, rolledBack>>

SaveEnds ==
  /\ saving # <<>> /\ saving' = Tail(saving)
  /\ UNCHANGED <<selection, defaultLogin, revision, revisions, defaultRevision, identities, mutation, edit, adoption, changes, outdated, rolledBack>>

\* setGitHubAccount and setGitHubDefaultLogin put the choice back if it is still theirs; only
\* setSelection starts another revision.
SelectionSaveFails ==
  /\ saving # <<>> /\ saving' = Tail(saving)
  /\ LET s == Head(saving) IN
     IF s.what = "default"
     THEN /\ IF defaultLogin = s.value
             THEN defaultLogin' = s.previous /\ rolledBack' = TRUE
             ELSE UNCHANGED <<defaultLogin, rolledBack>>
          /\ UNCHANGED <<selection, revision, revisions>>
     ELSE /\ selection' = IF selection[s.what] = s.value /\ ~\E i \in 2..Len(saving) : saving[i].what = s.what
                          THEN [selection EXCEPT ![s.what] = s.previous] ELSE selection
          /\ InvalidatedContext(s.what) /\ UNCHANGED <<defaultLogin, rolledBack>>
  /\ UNCHANGED <<defaultRevision, identities, mutation, edit, adoption, changes, outdated>>
------------------------------
(* Changes of something on GitHub. *)

\* context: what a client shows of the account, with its revision.
Shown(r) ==
  IF contexts[r] # NoLogin /\ contexts[r].revision = RevisionFor(r) THEN contexts[r]
  ELSE [login |-> Resolved(r), revision |-> RevisionFor(r)]

\* The user confirms with the account that is shown.
Review ==
  /\ mutation = Idle
  /\ \E r \in Repositories :
       /\ Shown(r).login # NoLogin
       /\ mutation' = [stage |-> "reviewed", r |-> r, expected |-> Shown(r)]
  /\ UNCHANGED <<selection, defaultLogin, revision, revisions, defaultRevision, saving, identities, edit, adoption, changes, outdated, rolledBack>>

\* requireGitHub, and authenticate up to its first await.
BeginGitHubMutation ==
  /\ mutation.stage = "reviewed"
  /\ mutation' = [stage |-> "authenticating", r |-> mutation.r, expected |-> mutation.expected,
                  choice |-> Choice(mutation.r), login |-> Resolved(mutation.r), revision |-> RevisionFor(mutation.r)]
  /\ UNCHANGED <<selection, defaultLogin, revision, revisions, defaultRevision, saving, identities, edit, adoption, changes, outdated, rolledBack>>

Token == IF mutation.login = NoLogin THEN ghActive ELSE gh[mutation.login]

\* verifyAccount: the revision hasn't changed since the review, and the identity is the one reviewed.
Verified(m, contextRevision, login) ==
  m.expected.revision = RevisionFor(m.r) /\ m.expected.revision = contextRevision /\ m.expected.login = login

\* authenticate ends with an identity, is remembered if the choice is still the same, and
\* starts another revision if the identity is another one than before; verifyAccount.
Authenticate ==
  LET m == mutation
      stays == m.revision = RevisionFor(m.r)
      other == contexts[m.r] # NoLogin /\ contexts[m.r].revision = m.revision /\ contexts[m.r].login # Token
      context == [login |-> Token, revision |-> IF stays /\ other THEN revision + 1 ELSE m.revision] IN
  /\ m.stage = "authenticating" /\ Token # NoLogin /\ m.login \in {NoLogin, Token}
  /\ IF stays /\ other THEN InvalidatedContext(m.r) ELSE UNCHANGED <<revision, revisions>>
  /\ contexts' = IF stays THEN [contexts EXCEPT ![m.r] = context] ELSE contexts
  /\ mutation' = IF ~(stays /\ other) /\ Verified(m, context.revision, Token)
                 THEN [stage |-> "reading", r |-> m.r, expected |-> m.expected, choice |-> m.choice,
                       token |-> Token, revision |-> context.revision]
                 ELSE Idle
  /\ UNCHANGED <<selection, defaultLogin, defaultRevision, saving, gh, ghActive, edit, adoption, changes, outdated, rolledBack>>

\* The credentials are missing or authenticate somebody else.
AuthenticationFails ==
  /\ mutation.stage = "authenticating" /\ (Token = NoLogin \/ mutation.login \notin {NoLogin, Token})
  /\ mutation' = Idle
  /\ contexts' = IF mutation.revision = RevisionFor(mutation.r) THEN [contexts EXCEPT ![mutation.r] = NoLogin] ELSE contexts
  /\ UNCHANGED <<selection, defaultLogin, revision, revisions, defaultRevision, saving, gh, ghActive, edit, adoption, changes, outdated, rolledBack>>

\* After the pull request was read: verifyAccount again, and the command is run.
Act ==
  /\ mutation.stage = "reading" /\ mutation' = Idle
  /\ outdated' = (outdated \/ (Verified(mutation, mutation.revision, mutation.token)
                               /\ (mutation.choice # Choice(mutation.r) \/ mutation.token # mutation.expected.login)))
  /\ UNCHANGED <<selection, defaultLogin, revision, revisions, defaultRevision, saving, identities, edit, adoption, changes, rolledBack>>
------------------------------
(* A repository that follows the default looks for an account with access. *)

BeginAdoption ==
  /\ adoption = Idle
  /\ \E r \in Repositories :
       /\ selection[r] = "default"
       /\ adoption' = [stage |-> "probing", r |-> r, revision |-> RevisionFor(r), choice |-> Choice(r)]
  /\ UNCHANGED <<selection, defaultLogin, revision, revisions, defaultRevision, saving, identities, mutation, edit, changes, outdated, rolledBack>>

Adopts(a) == a.revision = RevisionFor(a.r) /\ selection[a.r] = "default"

\* adoptAccountWithAccess: an account has access and the default has none.
Adopt ==
  /\ adoption # Idle /\ adoption' = Idle
  /\ IF Adopts(adoption)
     THEN /\ \E login \in Authenticated \ {adoption.choice[2]} : Select(adoption.r, login)
          /\ outdated' = (outdated \/ adoption.choice # Choice(adoption.r))
     ELSE UNCHANGED <<selection, revision, revisions, saving, outdated>>
  /\ UNCHANGED <<defaultLogin, defaultRevision, identities, mutation, edit, changes, rolledBack>>

NothingToAdopt ==
  /\ adoption # Idle /\ adoption' = Idle
  /\ UNCHANGED <<selection, defaultLogin, revision, revisions, defaultRevision, saving, identities, mutation, edit, changes, outdated, rolledBack>>

\* Outside the program: gh auth login, logout and switch.
CliChanges ==
  /\ Change
  /\ \/ \E l \in Logins, who \in Logins \cup {NoLogin} : gh' = [gh EXCEPT ![l] = who] /\ UNCHANGED ghActive
     \/ ghActive' \in Logins \cup {NoLogin} /\ UNCHANGED gh
  /\ UNCHANGED <<selection, defaultLogin, revision, revisions, defaultRevision, contexts, saving, mutation, edit, adoption, outdated, rolledBack>>

AccountsNext ==
  \/ SetSelection \/ PrepareEdit \/ SendEdit \/ SetDefaultAccount \/ CheckInventory \/ SaveEnds \/ SelectionSaveFails
  \/ Review \/ BeginGitHubMutation \/ Authenticate \/ AuthenticationFails \/ Act
  \/ BeginAdoption \/ Adopt \/ NothingToAdopt \/ CliChanges

AccountsSpec == AccountsInit /\ [][AccountsNext]_accountVars
------------------------------
(* Properties. *)

\* Nothing is done for a choice that has changed: GitHub is changed with the identity the user
\* has reviewed, for a repository that still uses the account it was verified for, and neither
\* an edit nor an automatic choice replaces one that its author hasn't seen. The exception is
\* a default that is put back because it couldn't be saved.
ChoicesHold == outdated => rolledBack

\* The account shown as verified is the one the repository uses (with the same exception).
ShownIsUsed ==
  ~rolledBack => \A r \in Repositories :
    contexts[r] # NoLogin /\ contexts[r].revision = RevisionFor(r) => Resolved(r) \in {NoLogin, contexts[r].login}

\* GitHubAccess.ts: "checks it still uses the account the user reviewed", without exception.
ActsAsReviewed == ~outdated

\* Accounts are used and shown as they were chosen and verified.
AccountsHold == ChoicesHold /\ ShownIsUsed
==============================
