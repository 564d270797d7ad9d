------- MODULE Services_proofs -------
(****************************************)
(* What the services keep, for any number of repositories, logins, tabs, *)
(* jobs, generations, settings, versions and changes: accounts are used and *)
(* shown as they were chosen (AccountsHold), a text is of what it was asked *)
(* for and shown where it belongs (GenerationsHold), an action is on what *)
(* its user saw and truly reported (ActionsHold), a clone leaves alone what *)
(* was there (ClonesAreSafe), confirmed settings are on disk *)
(* (ConfirmedIsStored), and an update leaves a whole service *)
(* (ServiceIsWhole).  Each is a chapter that starts with its inductive *)
(* invariant. *)
(****************************************)
EXTENDS GitHubAccounts, AiGenerations, PullRequestActions, CloneJobs, SettingsStore,
        ServiceUpdate, SequenceTheorems, FiniteSetTheorems, TLAPS

------------------------------
(* GitHub accounts.  The revision of a repository tells its choice: what is *)
(* remembered with the revision that it has now was remembered of the choice *)
(* that it has now. *)

Remembers(m) == m.revision = RevisionFor(m.r) => m.choice = Choice(m.r)

Remembered(m) == m.r \in Repositories /\ m.revision \in 0..revision /\ (rolledBack \/ Remembers(m))

Verifies(r) ==
  contexts[r] # NoLogin /\ contexts[r].revision = RevisionFor(r) => Resolved(r) \in {NoLogin, contexts[r].login}

AccountTypes ==
  /\ revision \in Nat /\ defaultRevision \in 0..revision /\ revisions \in [Repositories -> 0..revision]
  /\ selection = [r \in Repositories |-> selection[r]]
  /\ contexts = [r \in Repositories |-> contexts[r]]
  /\ \A r \in Repositories : contexts[r] # NoLogin => contexts[r].revision \in 0..revision
  /\ mutation.stage \in {"none", "reviewed", "authenticating", "reading"}
  /\ mutation.stage = "reviewed" => mutation.r \in Repositories

AccountInv ==
  /\ AccountTypes
  /\ outdated => rolledBack
  /\ rolledBack \/ \A r \in Repositories : Verifies(r)
  /\ edit # Idle => Remembered(edit)
  /\ adoption # Idle => Remembered(adoption)
  /\ mutation.stage \in {"authenticating", "reading"} => Remembered(mutation)
  /\ mutation.stage = "authenticating" => mutation.login = mutation.choice[2]

\* A repository keeps its choice and its revision, or gets a revision that none had.
ChoiceMoves(r) ==
  \/ RevisionFor(r)' = RevisionFor(r) /\ Choice(r)' = Choice(r) /\ Resolved(r)' = Resolved(r)
  \/ RevisionFor(r)' > revision

\* A step of the choices: the revisions grow with every change, unless a default is put back.
ChoiceStep ==
  /\ revision' \in Nat /\ revision' >= revision
  /\ rolledBack' \/ (~rolledBack /\ \A r \in Repositories : ChoiceMoves(r))

\* What is remembered still tells the choice.
LEMMA RememberedStays ==
  ASSUME revision \in Nat, ChoiceStep, NEW m, Remembered(m)
  PROVE  /\ m.r \in Repositories /\ m.revision \in 0..revision'
         /\ rolledBack' \/ (m.revision = RevisionFor(m.r)' => m.choice = Choice(m.r)')
<1>1. m.r \in Repositories /\ m.revision \in 0..revision' BY DEF Remembered, ChoiceStep
<1>2. CASE rolledBack' BY <1>1, <1>2
<1>3. CASE ~rolledBack'
  <2>1. ChoiceMoves(m.r) /\ Remembers(m) /\ m.revision <= revision /\ m.revision \in Nat
    BY <1>3 DEF Remembered, ChoiceStep
  <2> QED BY <1>1, <2>1 DEF ChoiceMoves, Remembers
<1> QED BY <1>2, <1>3

\* And what was verified stays verified.
LEMMA VerifiedStays ==
  ASSUME AccountTypes, ChoiceStep, rolledBack \/ \A r \in Repositories : Verifies(r), contexts' = contexts
  PROVE  rolledBack' \/ (\A r \in Repositories : Verifies(r)')
<1> SUFFICES ASSUME ~rolledBack', NEW r \in Repositories PROVE Verifies(r)'
  OBVIOUS
<1>1. ChoiceMoves(r) /\ Verifies(r) /\ (contexts[r] # NoLogin => contexts[r].revision \in 0..revision)
  BY DEF ChoiceStep, AccountTypes
<1> QED BY <1>1 DEF ChoiceMoves, Verifies, AccountTypes

\* A step of the choices that leaves everything else, or forgets it.
LEMMA ChoiceKeeps ==
  ASSUME AccountInv, ChoiceStep, contexts' = contexts, outdated' => rolledBack',
         defaultRevision' \in 0..revision', revisions' \in [Repositories -> 0..revision'],
         selection' = [r \in Repositories |-> selection'[r]],
         mutation' = mutation \/ mutation' = Idle,
         edit' = edit \/ edit' = Idle, adoption' = adoption \/ adoption' = Idle
  PROVE  AccountInv'
<1>1. AccountTypes /\ revision \in Nat /\ revision' \in Nat /\ revision' >= revision
  BY DEF AccountInv, AccountTypes, ChoiceStep
<1>2. AccountTypes'
  <2>1. \A r \in Repositories : contexts'[r] # NoLogin => contexts'[r].revision \in 0..revision'
    BY <1>1 DEF AccountTypes
  <2>2. /\ mutation'.stage \in {"none", "reviewed", "authenticating", "reading"}
        /\ mutation'.stage = "reviewed" => mutation'.r \in Repositories
    BY <1>1 DEF AccountTypes, Idle
  <2> QED BY <1>1, <2>1, <2>2 DEF AccountTypes
<1>3. rolledBack' \/ (\A r \in Repositories : Verifies(r)') BY <1>1, VerifiedStays DEF AccountInv
<1>4. edit' # Idle => Remembered(edit)'
  BY <1>1, RememberedStays DEF AccountInv, Remembered, Remembers
<1>5. adoption' # Idle => Remembered(adoption)'
  BY <1>1, RememberedStays DEF AccountInv, Remembered, Remembers
<1>6. /\ mutation'.stage \in {"authenticating", "reading"} => Remembered(mutation)'
      /\ mutation'.stage = "authenticating" => mutation'.login = mutation'.choice[2]
  BY <1>1, RememberedStays DEF AccountInv, Remembered, Remembers, Idle
<1> QED BY <1>2, <1>3, <1>4, <1>5, <1>6 DEF AccountInv

\* A repository whose revision is invalidated gets one that none had.
LEMMA InvalidatedMoves ==
  ASSUME AccountTypes, NEW r, InvalidatedContext(r), defaultRevision' = defaultRevision,
         defaultLogin' = defaultLogin, selection' = [q \in Repositories |-> selection'[q]],
         \A q \in Repositories : q # r => selection'[q] = selection[q]
  PROVE  /\ revision' = revision + 1 /\ revisions' \in [Repositories -> 0..revision']
         /\ defaultRevision' \in 0..revision' /\ revision' \in Nat
         /\ \A q \in Repositories : ChoiceMoves(q)
         /\ r \in Repositories => RevisionFor(r)' = revision + 1
<1>1. /\ revision \in Nat /\ defaultRevision \in 0..revision /\ revisions \in [Repositories -> 0..revision]
      /\ revision' = revision + 1 /\ revisions' = [revisions EXCEPT ![r] = revision + 1]
  BY DEF AccountTypes, InvalidatedContext
<1>2. 0..revision \subseteq 0..revision' /\ revision + 1 \in 0..revision' /\ revision' \in Nat
  BY <1>1
<1>3. revisions' \in [Repositories -> 0..revision'] BY <1>1, <1>2
<1>4. r \in Repositories => RevisionFor(r)' = revision + 1
  <2> HAVE r \in Repositories
  <2>1. revisions'[r] = revision + 1 BY <1>1
  <2> QED BY <1>1, <2>1 DEF RevisionFor, Max2
<1>5. ASSUME NEW q \in Repositories PROVE ChoiceMoves(q)
  <2>1. CASE q = r BY <1>1, <1>4, <2>1 DEF ChoiceMoves
  <2>2. CASE q # r
    <3>1. revisions'[q] = revisions[q] /\ selection'[q] = selection[q] BY <1>1, <2>2
    <3> QED BY <3>1 DEF ChoiceMoves, RevisionFor, Choice, Resolved, ResolvedFrom, Max2
  <2> QED BY <2>1, <2>2
<1> QED BY <1>1, <1>2, <1>3, <1>4, <1>5

\* A choice that is made, with what it leaves alone.
LEMMA SelectMoves ==
  ASSUME AccountInv, NEW r \in Repositories, NEW choice, Select(r, choice),
         defaultRevision' = defaultRevision, defaultLogin' = defaultLogin, rolledBack' = rolledBack
  PROVE  /\ ChoiceStep /\ defaultRevision' \in 0..revision' /\ revisions' \in [Repositories -> 0..revision']
         /\ selection' = [q \in Repositories |-> selection'[q]]
<1>1. AccountTypes /\ selection = [q \in Repositories |-> selection[q]] /\ revision \in Nat
  BY DEF AccountInv, AccountTypes
<1>2. selection' = [selection EXCEPT ![r] = choice] /\ InvalidatedContext(r) BY DEF Select
<1>3. /\ selection' = [q \in Repositories |-> selection'[q]]
      /\ \A q \in Repositories : q # r => selection'[q] = selection[q]
  BY <1>1, <1>2
<1>4. /\ revision' = revision + 1 /\ revisions' \in [Repositories -> 0..revision']
      /\ defaultRevision' \in 0..revision' /\ revision' \in Nat
      /\ \A q \in Repositories : ChoiceMoves(q)
  BY <1>1, <1>2, <1>3, InvalidatedMoves
<1> QED BY <1>1, <1>3, <1>4 DEF ChoiceStep

\* A default that is new is a new revision for the repositories that follow it.
LEMMA DefaultMoves ==
  ASSUME AccountInv, NEW login, NewDefault(login), selection' = selection, revisions' = revisions, rolledBack' = rolledBack
  PROVE  /\ ChoiceStep /\ defaultRevision' \in 0..revision' /\ revisions' \in [Repositories -> 0..revision']
         /\ selection' = [q \in Repositories |-> selection'[q]]
<1>1. /\ revision \in Nat /\ defaultRevision \in 0..revision /\ revisions \in [Repositories -> 0..revision]
      /\ selection = [q \in Repositories |-> selection[q]]
  BY DEF AccountInv, AccountTypes
<1>2. revision' = revision + 1 /\ defaultRevision' = revision + 1 BY DEF NewDefault
<1>3. 0..revision \subseteq 0..revision' /\ revision + 1 \in 0..revision' /\ revision' \in Nat
  BY <1>1, <1>2
<1>4. ASSUME NEW q \in Repositories PROVE ChoiceMoves(q)
  <2>1. revisions'[q] = revisions[q] /\ revisions[q] \in 0..revision /\ selection'[q] = selection[q]
    BY <1>1
  <2>2. CASE selection[q] = "default" BY <1>1, <1>2, <2>1, <2>2 DEF ChoiceMoves, RevisionFor, Max2
  <2>3. CASE selection[q] # "default"
    BY <1>1, <2>1, <2>3 DEF ChoiceMoves, RevisionFor, Choice, Resolved, ResolvedFrom, Max2
  <2> QED BY <2>2, <2>3
<1> QED BY <1>1, <1>2, <1>3, <1>4 DEF ChoiceStep

\* Nothing is chosen.
LEMMA NoMoves ==
  ASSUME AccountInv, UNCHANGED <<selection, defaultLogin, revision, revisions, defaultRevision, rolledBack>>
  PROVE  /\ ChoiceStep /\ defaultRevision' \in 0..revision' /\ revisions' \in [Repositories -> 0..revision']
         /\ selection' = [q \in Repositories |-> selection'[q]]
         /\ \A r : RevisionFor(r)' = RevisionFor(r) /\ Choice(r)' = Choice(r) /\ Resolved(r)' = Resolved(r)
<1>1. \A r : RevisionFor(r)' = RevisionFor(r) /\ Choice(r)' = Choice(r) /\ Resolved(r)' = Resolved(r)
  BY DEF RevisionFor, Choice, Resolved, ResolvedFrom, Max2
<1> QED BY <1>1 DEF AccountInv, AccountTypes, ChoiceStep, ChoiceMoves

------------------------------
(* The choices. *)

LEMMA SetSelectionKeeps ==
  ASSUME AccountInv, SetSelection PROVE AccountInv'
<1>1. PICK r \in Repositories, choice \in Logins \cup {"default"} : Select(r, choice)
  BY DEF SetSelection
<1>2. /\ UNCHANGED <<defaultLogin, defaultRevision, mutation, edit, adoption, outdated, rolledBack>>
      /\ contexts' = contexts
  BY DEF SetSelection, identities
<1>3. outdated' => rolledBack' BY <1>2 DEF AccountInv
<1> QED BY <1>1, <1>2, <1>3, SelectMoves, ChoiceKeeps

LEMMA SetDefaultKeeps ==
  ASSUME AccountInv, SetDefaultAccount PROVE AccountInv'
<1>1. PICK login \in Logins : NewDefault(login) BY DEF SetDefaultAccount
<1>2. UNCHANGED <<selection, revisions, mutation, edit, adoption, outdated, rolledBack>> /\ contexts' = contexts
  BY DEF SetDefaultAccount, identities
<1>3. outdated' => rolledBack' BY <1>2 DEF AccountInv
<1> QED BY <1>1, <1>2, <1>3, DefaultMoves, ChoiceKeeps

LEMMA SaveEndsKeeps ==
  ASSUME AccountInv, SaveEnds PROVE AccountInv'
<1>1. /\ UNCHANGED <<selection, defaultLogin, revision, revisions, defaultRevision, rolledBack>>
      /\ UNCHANGED <<mutation, edit, adoption, outdated, contexts>>
  BY DEF SaveEnds, identities
<1>2. outdated' => rolledBack' BY <1>1 DEF AccountInv
<1> QED BY <1>1, <1>2, NoMoves, ChoiceKeeps

\* Only a default that is put back keeps its revision, and it is on record.
LEMMA SaveFailsKeeps ==
  ASSUME AccountInv, SelectionSaveFails PROVE AccountInv'
<1> DEFINE s == Head(saving)
<1>1. UNCHANGED <<defaultRevision, mutation, edit, adoption, outdated>> /\ contexts' = contexts
  BY DEF SelectionSaveFails, identities
<1>2. AccountTypes /\ selection = [q \in Repositories |-> selection[q]] /\ revision \in Nat
  BY DEF AccountInv, AccountTypes
<1>3. CASE s.what = "default"
  <2>1. UNCHANGED <<selection, revision, revisions>> BY <1>3 DEF SelectionSaveFails
  <2>2. CASE defaultLogin = s.value
    <3>1. rolledBack' BY <1>3, <2>2 DEF SelectionSaveFails
    <3>2. /\ ChoiceStep /\ defaultRevision' \in 0..revision' /\ revisions' \in [Repositories -> 0..revision']
          /\ selection' = [q \in Repositories |-> selection'[q]]
      BY <1>1, <1>2, <2>1, <3>1 DEF ChoiceStep, AccountTypes
    <3> QED BY <1>1, <3>1, <3>2, ChoiceKeeps
  <2>3. CASE defaultLogin # s.value
    <3>1. UNCHANGED <<defaultLogin, rolledBack>> BY <1>3, <2>3 DEF SelectionSaveFails
    <3>2. outdated' => rolledBack' BY <1>1, <3>1 DEF AccountInv
    <3> QED BY <1>1, <2>1, <3>1, <3>2, NoMoves, ChoiceKeeps
  <2> QED BY <2>2, <2>3
<1>4. CASE s.what # "default"
  <2>1. /\ selection' = [selection EXCEPT ![s.what] = s.previous] \/ selection' = selection
        /\ InvalidatedContext(s.what) /\ UNCHANGED <<defaultLogin, rolledBack>>
    BY <1>4 DEF SelectionSaveFails
  <2>2. /\ selection' = [q \in Repositories |-> selection'[q]]
        /\ \A q \in Repositories : q # s.what => selection'[q] = selection[q]
    BY <1>2, <2>1
  <2>3. /\ revision' = revision + 1 /\ revisions' \in [Repositories -> 0..revision']
        /\ defaultRevision' \in 0..revision' /\ revision' \in Nat
        /\ \A q \in Repositories : ChoiceMoves(q)
    BY <1>1, <1>2, <2>1, <2>2, InvalidatedMoves
  <2>4. ChoiceStep BY <1>2, <2>1, <2>3 DEF ChoiceStep
  <2>5. outdated' => rolledBack' BY <1>1, <2>1 DEF AccountInv
  <2> QED BY <1>1, <2>2, <2>3, <2>4, <2>5, ChoiceKeeps
<1> QED BY <1>3, <1>4

\* The accounts are checked: what was verified is forgotten, and there may be a default.
LEMMA InventoryKeeps ==
  ASSUME AccountInv, CheckInventory PROVE AccountInv'
<1>1. /\ contexts' = [r \in Repositories |-> NoLogin]
      /\ UNCHANGED <<selection, revisions, mutation, edit, adoption, outdated, rolledBack>>
  BY DEF CheckInventory
<1>2. \/ \E login : NewDefault(login)
      \/ UNCHANGED <<defaultLogin, revision, defaultRevision>>
  BY DEF CheckInventory
<1>3. /\ ChoiceStep /\ defaultRevision' \in 0..revision' /\ revisions' \in [Repositories -> 0..revision']
      /\ selection' = [q \in Repositories |-> selection'[q]]
  BY <1>1, <1>2, DefaultMoves, NoMoves
<1>4. revision \in Nat /\ revision' \in Nat /\ revision' >= revision
  BY <1>3 DEF ChoiceStep, AccountInv, AccountTypes
<1>5. AccountTypes' BY <1>1, <1>3, <1>4 DEF AccountInv, AccountTypes
<1>6. \A r \in Repositories : Verifies(r)' BY <1>1 DEF Verifies
<1>7. outdated' => rolledBack' BY <1>1 DEF AccountInv
<1>8. edit' # Idle => Remembered(edit)'
  BY <1>1, <1>3, <1>4, RememberedStays DEF AccountInv, Remembered, Remembers
<1>9. adoption' # Idle => Remembered(adoption)'
  BY <1>1, <1>3, <1>4, RememberedStays DEF AccountInv, Remembered, Remembers
<1>10. /\ mutation'.stage \in {"authenticating", "reading"} => Remembered(mutation)'
       /\ mutation'.stage = "authenticating" => mutation'.login = mutation'.choice[2]
  BY <1>1, <1>3, <1>4, RememberedStays DEF AccountInv, Remembered, Remembers
<1> QED BY <1>5, <1>6, <1>7, <1>8, <1>9, <1>10 DEF AccountInv

------------------------------
(* What is begun is remembered with the choice of now. *)

\* The revision of a repository is one that was given.
LEMMA RevisionForType ==
  ASSUME AccountTypes, NEW r \in Repositories PROVE RevisionFor(r) \in 0..revision
BY DEF AccountTypes, RevisionFor, Max2

LEMMA PrepareEditKeeps ==
  ASSUME AccountInv, PrepareEdit PROVE AccountInv'
<1>1. PICK r \in Repositories :
        edit' = [stage |-> "prepared", r |-> r, revision |-> RevisionFor(r), choice |-> Choice(r)]
  BY DEF PrepareEdit
<1>2. /\ UNCHANGED <<selection, defaultLogin, revision, revisions, defaultRevision, rolledBack>>
      /\ UNCHANGED <<mutation, adoption, outdated, contexts>>
  BY DEF PrepareEdit, identities
<1>3. /\ \A q : RevisionFor(q)' = RevisionFor(q) /\ Choice(q)' = Choice(q) /\ Resolved(q)' = Resolved(q)
      /\ AccountTypes /\ RevisionFor(r) \in 0..revision
  BY <1>2, NoMoves, RevisionForType DEF AccountInv
<1>4. Remembered(edit)' BY <1>1, <1>2, <1>3 DEF Remembered, Remembers
<1>5. AccountTypes' BY <1>2, <1>3 DEF AccountTypes
<1> QED BY <1>2, <1>3, <1>4, <1>5 DEF AccountInv, Remembered, Remembers, Verifies

LEMMA BeginAdoptionKeeps ==
  ASSUME AccountInv, BeginAdoption PROVE AccountInv'
<1>1. PICK r \in Repositories :
        adoption' = [stage |-> "probing", r |-> r, revision |-> RevisionFor(r), choice |-> Choice(r)]
  BY DEF BeginAdoption
<1>2. /\ UNCHANGED <<selection, defaultLogin, revision, revisions, defaultRevision, rolledBack>>
      /\ UNCHANGED <<mutation, edit, outdated, contexts>>
  BY DEF BeginAdoption, identities
<1>3. /\ \A q : RevisionFor(q)' = RevisionFor(q) /\ Choice(q)' = Choice(q) /\ Resolved(q)' = Resolved(q)
      /\ AccountTypes /\ RevisionFor(r) \in 0..revision
  BY <1>2, NoMoves, RevisionForType DEF AccountInv
<1>4. Remembered(adoption)' BY <1>1, <1>2, <1>3 DEF Remembered, Remembers
<1>5. AccountTypes' BY <1>2, <1>3 DEF AccountTypes
<1> QED BY <1>2, <1>3, <1>4, <1>5 DEF AccountInv, Remembered, Remembers, Verifies

\* An edit is made only for the choice that its author saw.
LEMMA SendEditKeeps ==
  ASSUME AccountInv, SendEdit PROVE AccountInv'
<1>1. /\ edit' = Idle /\ UNCHANGED <<defaultLogin, defaultRevision, mutation, adoption, rolledBack>>
      /\ contexts' = contexts /\ Remembered(edit)
  BY DEF SendEdit, identities, AccountInv
<1>2. CASE edit.revision = RevisionFor(edit.r)
  <2>1. PICK choice \in Logins \cup {"default"} : Select(edit.r, choice) BY <1>2 DEF SendEdit
  <2>2. outdated' = (outdated \/ edit.choice # Choice(edit.r)) BY <1>2 DEF SendEdit
  <2>3. outdated' => rolledBack' BY <1>1, <1>2, <2>2 DEF AccountInv, Remembered, Remembers
  <2>4. edit.r \in Repositories BY <1>1 DEF Remembered
  <2> QED BY <1>1, <2>1, <2>3, <2>4, SelectMoves, ChoiceKeeps
<1>3. CASE edit.revision # RevisionFor(edit.r)
  <2>1. UNCHANGED <<selection, revision, revisions, outdated>> BY <1>3 DEF SendEdit
  <2>2. outdated' => rolledBack' BY <1>1, <2>1 DEF AccountInv
  <2> QED BY <1>1, <2>1, <2>2, NoMoves, ChoiceKeeps
<1> QED BY <1>2, <1>3

\* Nor does an account that was found replace a choice made meanwhile.
LEMMA AdoptKeeps ==
  ASSUME AccountInv, Adopt PROVE AccountInv'
<1>1. /\ adoption' = Idle /\ UNCHANGED <<defaultLogin, defaultRevision, mutation, edit, rolledBack>>
      /\ contexts' = contexts /\ Remembered(adoption)
  BY DEF Adopt, identities, AccountInv
<1>2. CASE Adopts(adoption)
  <2>1. PICK login : Select(adoption.r, login) BY <1>2 DEF Adopt
  <2>2. outdated' = (outdated \/ adoption.choice # Choice(adoption.r)) BY <1>2 DEF Adopt
  <2>3. outdated' => rolledBack' BY <1>1, <1>2, <2>2 DEF AccountInv, Remembered, Remembers, Adopts
  <2>4. adoption.r \in Repositories BY <1>1 DEF Remembered
  <2> QED BY <1>1, <2>1, <2>3, <2>4, SelectMoves, ChoiceKeeps
<1>3. CASE ~Adopts(adoption)
  <2>1. UNCHANGED <<selection, revision, revisions, outdated>> BY <1>3 DEF Adopt
  <2>2. outdated' => rolledBack' BY <1>1, <2>1 DEF AccountInv
  <2> QED BY <1>1, <2>1, <2>2, NoMoves, ChoiceKeeps
<1> QED BY <1>2, <1>3

LEMMA NothingToAdoptKeeps ==
  ASSUME AccountInv, NothingToAdopt PROVE AccountInv'
<1>1. /\ UNCHANGED <<selection, defaultLogin, revision, revisions, defaultRevision, rolledBack>>
      /\ UNCHANGED <<mutation, edit, outdated, contexts>> /\ adoption' = Idle
  BY DEF NothingToAdopt, identities
<1>2. outdated' => rolledBack' BY <1>1 DEF AccountInv
<1> QED BY <1>1, <1>2, NoMoves, ChoiceKeeps

LEMMA CliKeeps ==
  ASSUME AccountInv, CliChanges PROVE AccountInv'
<1>1. /\ UNCHANGED <<selection, defaultLogin, revision, revisions, defaultRevision, rolledBack>>
      /\ UNCHANGED <<mutation, edit, adoption, outdated, contexts>>
  BY DEF CliChanges
<1>2. outdated' => rolledBack' BY <1>1 DEF AccountInv
<1> QED BY <1>1, <1>2, NoMoves, ChoiceKeeps

------------------------------
(* Changes of something on GitHub. *)

\* The choices are left alone: what doesn't concern the mutation stays.
LEMMA MutationKeeps ==
  ASSUME AccountInv, UNCHANGED <<selection, defaultLogin, revision, revisions, defaultRevision, rolledBack>>,
         UNCHANGED <<edit, adoption, contexts>>, outdated' => rolledBack',
         mutation'.stage \in {"none", "reviewed", "authenticating", "reading"},
         mutation'.stage = "reviewed" => mutation'.r \in Repositories,
         mutation'.stage \in {"authenticating", "reading"} => Remembered(mutation)',
         mutation'.stage = "authenticating" => mutation'.login = mutation'.choice[2]
  PROVE  AccountInv'
<1>1. \A q : RevisionFor(q)' = RevisionFor(q) /\ Choice(q)' = Choice(q) /\ Resolved(q)' = Resolved(q)
  BY NoMoves
<1>2. AccountTypes' BY DEF AccountInv, AccountTypes
<1> QED BY <1>1, <1>2 DEF AccountInv, Remembered, Remembers, Verifies

LEMMA ReviewKeeps ==
  ASSUME AccountInv, Review PROVE AccountInv'
<1>1. PICK r \in Repositories : mutation' = [stage |-> "reviewed", r |-> r, expected |-> Shown(r)]
  BY DEF Review
<1>2. /\ UNCHANGED <<selection, defaultLogin, revision, revisions, defaultRevision, rolledBack>>
      /\ UNCHANGED <<edit, adoption, contexts>> /\ (outdated' => rolledBack')
  BY DEF Review, identities, AccountInv
<1>3. mutation'.stage = "reviewed" /\ mutation'.r = r BY <1>1
<1> QED BY <1>2, <1>3, MutationKeeps

LEMMA BeginMutationKeeps ==
  ASSUME AccountInv, BeginGitHubMutation PROVE AccountInv'
<1>1. mutation' = [stage |-> "authenticating", r |-> mutation.r, expected |-> mutation.expected,
                   choice |-> Choice(mutation.r), login |-> Resolved(mutation.r), revision |-> RevisionFor(mutation.r)]
  BY DEF BeginGitHubMutation
<1>2. /\ UNCHANGED <<selection, defaultLogin, revision, revisions, defaultRevision, rolledBack>>
      /\ UNCHANGED <<edit, adoption, contexts>> /\ (outdated' => rolledBack')
  BY DEF BeginGitHubMutation, identities, AccountInv
<1>3. mutation.r \in Repositories /\ RevisionFor(mutation.r) \in 0..revision
  BY RevisionForType DEF BeginGitHubMutation, AccountInv, AccountTypes
<1>4. \A q : RevisionFor(q)' = RevisionFor(q) /\ Choice(q)' = Choice(q) BY <1>2, NoMoves
<1>5. /\ mutation'.stage = "authenticating" /\ mutation'.r = mutation.r /\ mutation'.revision = RevisionFor(mutation.r)
      /\ mutation'.choice = Choice(mutation.r) /\ mutation'.login = Resolved(mutation.r)
  BY <1>1
<1>6. Remembered(mutation)' BY <1>2, <1>3, <1>4, <1>5 DEF Remembered, Remembers
<1>7. mutation'.login = mutation'.choice[2] BY <1>5 DEF Choice
<1> QED BY <1>2, <1>5, <1>6, <1>7, MutationKeeps

\* The identity is remembered for the choice it was verified for, and GitHub is asked with it
\* only while the revision is the reviewed one.
LEMMA AuthenticateKeeps ==
  ASSUME AccountInv, Authenticate PROVE AccountInv'
<1> DEFINE stays == mutation.revision = RevisionFor(mutation.r)
           other == contexts[mutation.r] # NoLogin /\ contexts[mutation.r].revision = mutation.revision
                    /\ contexts[mutation.r].login # Token
<1>0. PICK r : r = mutation.r OBVIOUS
<1>1. /\ mutation.stage = "authenticating" /\ Token # NoLogin /\ mutation.login \in {NoLogin, Token}
      /\ UNCHANGED <<selection, defaultLogin, defaultRevision, edit, adoption, outdated, rolledBack>>
      /\ AccountTypes /\ Remembered(mutation) /\ mutation.login = mutation.choice[2]
      /\ (outdated' => rolledBack') /\ r \in Repositories /\ mutation.revision \in 0..revision /\ revision \in Nat
  BY <1>0 DEF Authenticate, AccountInv, AccountTypes, Remembered
<1>2. contexts' = IF stays THEN [contexts EXCEPT ![r] = [login |-> Token, revision |-> IF stays /\ other THEN revision + 1 ELSE mutation.revision]]
                  ELSE contexts
  BY <1>0 DEF Authenticate
<1>3. CASE stays /\ other
  <2>1. InvalidatedContext(r) /\ mutation' = Idle BY <1>0, <1>3 DEF Authenticate
  <2>2. /\ selection' = [q \in Repositories |-> selection'[q]]
        /\ \A q \in Repositories : q # r => selection'[q] = selection[q]
    BY <1>1 DEF AccountTypes
  <2>3. /\ revision' = revision + 1 /\ revisions' \in [Repositories -> 0..revision']
        /\ defaultRevision' \in 0..revision' /\ revision' \in Nat
        /\ (\A q \in Repositories : ChoiceMoves(q)) /\ RevisionFor(r)' = revision + 1
    BY <1>1, <2>1, <2>2, InvalidatedMoves
  <2>4. ChoiceStep BY <1>1, <2>3 DEF ChoiceStep
  <2>5. contexts' = [contexts EXCEPT ![r] = [login |-> Token, revision |-> revision + 1]]
    BY <1>2, <1>3
  <2>6. /\ contexts' = [q \in Repositories |-> contexts'[q]]
        /\ \A q \in Repositories : contexts'[q] = IF q = r THEN [login |-> Token, revision |-> revision + 1] ELSE contexts[q]
    BY <2>5 DEF AccountInv, AccountTypes
  <2>7. \A q \in Repositories : contexts'[q] # NoLogin => contexts'[q].revision \in 0..revision'
    BY <1>1, <2>3, <2>6 DEF AccountTypes
  <2>8. AccountTypes' BY <2>1, <2>2, <2>3, <2>6, <2>7 DEF AccountTypes, Idle
  <2>9. rolledBack' \/ (\A q \in Repositories : Verifies(q)')
    <3> SUFFICES ASSUME ~rolledBack', NEW q \in Repositories PROVE Verifies(q)'
      OBVIOUS
    <3>1. CASE q = r
      <4>1. mutation.choice = Choice(r) BY <1>0, <1>1, <1>3 DEF Remembered, Remembers
      <4>2. Resolved(r) \in {NoLogin, Token} BY <1>1, <4>1 DEF Choice
      <4>3. Resolved(r)' = Resolved(r) BY <1>1 DEF Resolved, ResolvedFrom
      <4> QED BY <2>6, <3>1, <4>2, <4>3 DEF Verifies
    <3>2. CASE q # r
      <4>1. /\ ChoiceMoves(q) /\ Verifies(q) /\ contexts'[q] = contexts[q]
            /\ (contexts[q] # NoLogin => contexts[q].revision \in 0..revision)
        BY <1>1, <2>3, <2>6, <3>2 DEF AccountInv, AccountTypes
      <4> QED BY <1>1, <4>1 DEF ChoiceMoves, Verifies
    <3> QED BY <3>1, <3>2
  <2>10. edit' # Idle => Remembered(edit)'
    BY <1>1, <2>3, <2>4, RememberedStays DEF AccountInv, Remembered, Remembers
  <2>11. adoption' # Idle => Remembered(adoption)'
    BY <1>1, <2>3, <2>4, RememberedStays DEF AccountInv, Remembered, Remembers
  <2> QED BY <1>1, <2>1, <2>8, <2>9, <2>10, <2>11 DEF AccountInv, Idle
<1>4. CASE ~(stays /\ other)
  <2>1. UNCHANGED <<revision, revisions>> BY <1>0, <1>4 DEF Authenticate
  <2>2. \A q : RevisionFor(q)' = RevisionFor(q) /\ Choice(q)' = Choice(q) /\ Resolved(q)' = Resolved(q)
    BY <1>1, <2>1, NoMoves
  <2>3. contexts' = IF stays THEN [contexts EXCEPT ![r] = [login |-> Token, revision |-> mutation.revision]] ELSE contexts
    BY <1>2, <1>4
  <2>4. /\ contexts' = [q \in Repositories |-> contexts'[q]]
        /\ \A q \in Repositories : \/ contexts'[q] = contexts[q]
                                   \/ q = r /\ stays /\ contexts'[q] = [login |-> Token, revision |-> mutation.revision]
    BY <2>3 DEF AccountInv, AccountTypes
  <2>5. \A q \in Repositories : contexts'[q] # NoLogin => contexts'[q].revision \in 0..revision'
    BY <1>1, <2>1, <2>4 DEF AccountTypes
  <2>6. rolledBack' \/ (\A q \in Repositories : Verifies(q)')
    <3> SUFFICES ASSUME ~rolledBack', NEW q \in Repositories PROVE Verifies(q)'
      OBVIOUS
    <3>1. CASE contexts'[q] = contexts[q] BY <1>1, <2>2, <3>1 DEF AccountInv, Verifies
    <3>2. CASE q = r /\ stays /\ contexts'[q] = [login |-> Token, revision |-> mutation.revision]
      <4>1. mutation.choice = Choice(r) BY <1>0, <1>1, <3>2 DEF Remembered, Remembers
      <4>2. Resolved(r)' \in {NoLogin, Token} BY <1>1, <2>2, <4>1 DEF Choice
      <4> QED BY <3>2, <4>2 DEF Verifies
    <3> QED BY <2>4, <3>1, <3>2
  <2>7. \/ mutation' = Idle
        \/ mutation' = [stage |-> "reading", r |-> r, expected |-> mutation.expected, choice |-> mutation.choice,
                        token |-> Token, revision |-> mutation.revision]
    BY <1>0, <1>4 DEF Authenticate
  <2>8. /\ mutation'.stage \in {"none", "reading"}
        /\ mutation'.stage = "reading" =>
             mutation'.r = r /\ mutation'.revision = mutation.revision /\ mutation'.choice = mutation.choice
    BY <2>7 DEF Idle
  <2>9. mutation'.stage = "reading" => Remembered(mutation)'
    BY <1>0, <1>1, <2>1, <2>2, <2>8 DEF Remembered, Remembers
  <2>10. AccountTypes' BY <1>1, <2>1, <2>4, <2>5, <2>8 DEF AccountTypes
  <2>11. (edit' # Idle => Remembered(edit)') /\ (adoption' # Idle => Remembered(adoption)')
    BY <1>1, <2>1, <2>2 DEF AccountInv, Remembered, Remembers
  <2> QED BY <1>1, <2>6, <2>8, <2>9, <2>10, <2>11 DEF AccountInv
<1> QED BY <1>3, <1>4

LEMMA AuthenticationFailsKeeps ==
  ASSUME AccountInv, AuthenticationFails PROVE AccountInv'
<1>1. /\ UNCHANGED <<selection, defaultLogin, revision, revisions, defaultRevision, rolledBack>>
      /\ UNCHANGED <<edit, adoption, outdated>> /\ mutation' = Idle
      /\ (contexts' = contexts \/ contexts' = [contexts EXCEPT ![mutation.r] = NoLogin])
  BY DEF AuthenticationFails
<1>2. \A q : RevisionFor(q)' = RevisionFor(q) /\ Choice(q)' = Choice(q) /\ Resolved(q)' = Resolved(q)
  BY <1>1, NoMoves
<1>3. /\ contexts' = [q \in Repositories |-> contexts'[q]]
      /\ \A q \in Repositories : contexts'[q] = contexts[q] \/ contexts'[q] = NoLogin
  BY <1>1 DEF AccountInv, AccountTypes
<1>4. AccountTypes' BY <1>1, <1>3 DEF AccountInv, AccountTypes, Idle
<1>5. rolledBack' \/ (\A q \in Repositories : Verifies(q)')
  BY <1>1, <1>2, <1>3 DEF AccountInv, Verifies
<1>6. (edit' # Idle => Remembered(edit)') /\ (adoption' # Idle => Remembered(adoption)') /\ (outdated' => rolledBack')
  BY <1>1, <1>2 DEF AccountInv, Remembered, Remembers
<1> QED BY <1>1, <1>4, <1>5, <1>6 DEF AccountInv, Idle

\* GitHub is changed with the identity that was reviewed, while the choice is the reviewed one.
LEMMA ActKeeps ==
  ASSUME AccountInv, Act PROVE AccountInv'
<1>1. /\ UNCHANGED <<selection, defaultLogin, revision, revisions, defaultRevision, rolledBack>>
      /\ UNCHANGED <<edit, adoption, contexts>> /\ mutation' = Idle /\ mutation.stage = "reading"
  BY DEF Act, identities
<1>2. Verified(mutation, mutation.revision, mutation.token) =>
        mutation.revision = RevisionFor(mutation.r) /\ mutation.token = mutation.expected.login
  BY DEF Verified
<1>3. Remembered(mutation) /\ (outdated => rolledBack) BY <1>1 DEF AccountInv
<1>4. outdated' => rolledBack'
  <2>1. outdated' = (outdated \/ (Verified(mutation, mutation.revision, mutation.token)
                                  /\ (mutation.choice # Choice(mutation.r) \/ mutation.token # mutation.expected.login)))
    BY DEF Act
  <2> QED BY <1>1, <1>2, <1>3, <2>1 DEF Remembered, Remembers
<1>5. mutation'.stage = "none" BY <1>1 DEF Idle
<1> QED BY <1>1, <1>4, <1>5, MutationKeeps

------------------------------
(* The theorem. *)

LEMMA AccountsBegin == AccountsInit => AccountInv
<1> HAVE AccountsInit
<1>1. AccountTypes BY DEF AccountsInit, AccountTypes, Idle
<1>2. \A r \in Repositories : Verifies(r) BY DEF AccountsInit, Verifies
<1> QED BY <1>1, <1>2 DEF AccountsInit, AccountInv, Idle

LEMMA AccountsStep == AccountInv /\ [AccountsNext]_accountVars => AccountInv'
<1> SUFFICES ASSUME AccountInv, [AccountsNext]_accountVars PROVE AccountInv'
  OBVIOUS
<1>1. CASE SetSelection \/ PrepareEdit \/ SendEdit \/ SetDefaultAccount \/ CheckInventory \/ SaveEnds \/ SelectionSaveFails
  BY <1>1, SetSelectionKeeps, PrepareEditKeeps, SendEditKeeps, SetDefaultKeeps, InventoryKeeps, SaveEndsKeeps, SaveFailsKeeps
<1>2. CASE Review \/ BeginGitHubMutation \/ Authenticate \/ AuthenticationFails \/ Act
  BY <1>2, ReviewKeeps, BeginMutationKeeps, AuthenticateKeeps, AuthenticationFailsKeeps, ActKeeps
<1>3. CASE BeginAdoption \/ Adopt \/ NothingToAdopt \/ CliChanges
  BY <1>3, BeginAdoptionKeeps, AdoptKeeps, NothingToAdoptKeeps, CliKeeps
<1>4. CASE UNCHANGED accountVars
  <2>1. /\ UNCHANGED <<selection, defaultLogin, revision, revisions, defaultRevision, rolledBack>>
        /\ UNCHANGED <<mutation, edit, adoption, outdated, contexts>>
    BY <1>4 DEF accountVars
  <2>2. outdated' => rolledBack' BY <2>1 DEF AccountInv
  <2> QED BY <2>1, <2>2, NoMoves, ChoiceKeeps
<1> QED BY <1>1, <1>2, <1>3, <1>4 DEF AccountsNext

\* GitHub is changed, and an account edited or adopted, only for the choice that the user saw, and
\* the account shown as verified is the one the repository uses (GitHubAccountsService.ts,
\* GitHubAccess.ts), except after a default that couldn't be saved was put back.
THEOREM AccountsAreAsChosen == AccountsSpec => []AccountsHold
<1>1. AccountInv => AccountsHold BY DEF AccountInv, AccountsHold, ChoicesHold, ShownIsUsed, Verifies
<1> QED BY <1>1, AccountsBegin, AccountsStep, PTL DEF AccountsSpec

------------------------------
(* Generations.  Versions only grow: what was read and is read again *)
(* unchanged has not changed in between, when the model answered. *)

Active == {"first", "second", "answering", "content again", "instructions again"}

\* How far a generation has read, of a repository that is at `now`.
Progressing(g, now) ==
  /\ g.step = "second" => g.used[ReadFirst] <= now[ReadFirst]
  /\ g.step = "answering" => \A x \in Content : g.used[x] <= now[x]
  /\ g.step \in {"content again", "instructions again"} =>
       \A x \in Content : g.used[x] <= g.answered[x] /\ g.answered[x] <= now[x]
  /\ g.step = "instructions again" => g.answered["content"] <= g.again
  /\ g.step = "result" => g.used = g.answered

Sound(n) ==
  /\ n \in registered => generations[n].step \in Active
  /\ generations[n].step \in Active => n \in registered \/ aiClosed
  /\ Progressing(generations[n], readable[generations[n].shelf])
  /\ generations[n].aborted /\ ~generations[n].missed /\ ~aiClosed =>
       generations[n].step \notin {"instructions again", "result"}
  /\ aiClosed /\ generations[n].step = "answering" => generations[n].aborted \/ generations[n].gone

\* A request that is waited for is of what the tab shows, or its result won't be shown.
Expected(g, tab) ==
  \/ g.shelf = tab.shelf
  \/ flavor = "message" /\ (g.missed \/ (g.aborted /\ g.step \notin {"instructions again", "result"}))

Waits(t) ==
  aiTabs[t].request # 0 =>
    /\ aiTabs[t].request \in Ids /\ generations[aiTabs[t].request].tab = t
    /\ generations[aiTabs[t].request].step # "over"
    /\ Expected(generations[aiTabs[t].request], aiTabs[t])

Shows(t) ==
  aiTabs[t].box # 0 =>
    /\ aiTabs[t].box \in Ids
    /\ flavor = "draft" \/ ~generations[aiTabs[t].box].missed => generations[aiTabs[t].box].shelf = aiTabs[t].shelf

GenerationShape ==
  /\ flavor \in {"message", "draft"} /\ generations \in Seq(Generation) /\ registered \subseteq Ids
  /\ aiClosed \in BOOLEAN /\ readable \in [Shelves -> Reading]
  /\ aiTabs \in [Tabs -> [shelf : Shelves, request : Nat, box : Nat]]

GenerationInv ==
  /\ GenerationShape
  /\ \A n \in Ids : Sound(n)
  /\ \A t \in Tabs : Waits(t) /\ Shows(t)

\* One generation goes on, and is as it should be; the others are, too.
LEMMA OneIsSound ==
  ASSUME GenerationInv, NEW n \in Ids, NEW g \in Generation,
         generations' = [generations EXCEPT ![n] = g],
         UNCHANGED <<flavor, aiClosed, readable>>,
         registered' \subseteq registered \cup {n}, registered \ {n} \subseteq registered',
         g.aborted /\ ~g.missed => g.step \notin {"instructions again", "result"} \/ aiClosed,
         n \in registered' => g.step \in Active,
         g.step \in Active => n \in registered' \/ aiClosed,
         aiClosed /\ g.step = "answering" => g.aborted \/ g.gone,
         Progressing(g, readable[g.shelf])
  PROVE  /\ generations' \in Seq(Generation) /\ Ids' = Ids /\ registered' \subseteq Ids
         /\ generations'[n] = g /\ \A m \in Ids : m # n => generations'[m] = generations[m]
         /\ \A m \in Ids : Sound(m)'
<1>1. GenerationShape /\ Ids' = Ids /\ generations'[n] = g /\ \A m \in Ids : m # n => generations'[m] = generations[m]
  BY DEF GenerationInv, GenerationShape, Ids
<1>2. generations' \in Seq(Generation)
  <2>1. generations \in Seq(Generation) /\ n \in 1..Len(generations)
    BY <1>1, LenProperties DEF GenerationShape, Ids
  <2>2. [generations EXCEPT ![n] = g] \in Seq(Generation) BY <2>1, ExceptSeq
  <2> QED BY <2>2
<1>3. ReadFirst' = ReadFirst BY DEF ReadFirst
<1>4. ASSUME NEW m \in Ids PROVE Sound(m)'
  <2>1. CASE m = n BY <1>1, <1>3, <2>1 DEF Sound, Progressing
  <2>2. CASE m # n
    <3>1. generations'[m] = generations[m] /\ Sound(m) /\ (m \in registered' <=> m \in registered)
      BY <1>1, <2>2 DEF GenerationInv
    <3> QED BY <1>3, <3>1 DEF Sound, Progressing
  <2> QED BY <2>1, <2>2
<1> QED BY <1>1, <1>2, <1>4 DEF GenerationShape

\* One generation goes on; the tabs and the repositories stay as they are.
LEMMA OneGoesOn ==
  ASSUME GenerationInv, NEW n \in Ids, NEW g \in Generation,
         generations' = [generations EXCEPT ![n] = g],
         UNCHANGED <<flavor, aiClosed, aiTabs, readable>>,
         registered' \subseteq registered \cup {n}, registered \ {n} \subseteq registered',
         g.tab = generations[n].tab, g.shelf = generations[n].shelf, g.step # "over",
         generations[n].aborted => g.aborted, generations[n].missed => g.missed,
         g.aborted /\ ~g.missed => g.step \notin {"instructions again", "result"} \/ aiClosed,
         generations[n].aborted /\ ~generations[n].missed /\ g.step \in {"instructions again", "result"} =>
           generations[n].step \in {"instructions again", "result"} \/ g.missed,
         n \in registered' => g.step \in Active,
         g.step \in Active => n \in registered' \/ aiClosed,
         aiClosed /\ g.step = "answering" => g.aborted \/ g.gone,
         Progressing(g, readable[g.shelf])
  PROVE  GenerationInv'
<1>1. /\ generations' \in Seq(Generation) /\ Ids' = Ids /\ registered' \subseteq Ids
      /\ generations'[n] = g /\ \A m \in Ids : m # n => generations'[m] = generations[m]
      /\ \A m \in Ids : Sound(m)'
  BY OneIsSound
<1>2. GenerationShape' BY <1>1 DEF GenerationInv, GenerationShape
<1>3. ASSUME NEW t \in Tabs PROVE Waits(t)' /\ Shows(t)'
  <2>1. Waits(t) /\ Shows(t) BY DEF GenerationInv
  <2>2. Waits(t)'
    <3>1. CASE aiTabs[t].request = n BY <1>1, <2>1, <3>1 DEF Waits, Expected
    <3>2. CASE aiTabs[t].request # n BY <1>1, <2>1, <3>2 DEF Waits, Expected
    <3> QED BY <3>1, <3>2
  <2>3. Shows(t)'
    <3>1. CASE aiTabs[t].box = n BY <1>1, <2>1, <3>1 DEF Shows
    <3>2. CASE aiTabs[t].box # n BY <1>1, <2>1, <3>2 DEF Shows
    <3> QED BY <3>1, <3>2
  <2> QED BY <2>2, <2>3
<1> QED BY <1>1, <1>2, <1>3 DEF GenerationInv

\* Only its step changes.
LEMMA StepMoves ==
  ASSUME NEW g \in Generation, NEW step \in Steps
  PROVE  LET h == [g EXCEPT !.step = step] IN
         /\ h \in Generation /\ h.step = step
         /\ h.tab = g.tab /\ h.shelf = g.shelf /\ h.aborted = g.aborted /\ h.gone = g.gone
         /\ h.used = g.used /\ h.again = g.again /\ h.answered = g.answered /\ h.missed = g.missed
BY DEF Generation

\* A generation that ends otherwise than with a result.
LEMMA EndKeeps ==
  ASSUME GenerationInv, NEW n \in Ids, NEW step \in {"failed", "cancelled"}, GoesTo(n, step),
         UNCHANGED <<flavor, aiClosed, aiTabs, readable>>, registered' = registered \ {n}
  PROVE  GenerationInv'
<1> DEFINE g == [generations[n] EXCEPT !.step = step]
<1>1. generations[n] \in Generation
  BY ElementOfSeq, LenProperties DEF GenerationInv, GenerationShape, Ids
<1>2. /\ g \in Generation /\ g.step = step
      /\ g.tab = generations[n].tab /\ g.shelf = generations[n].shelf /\ g.aborted = generations[n].aborted /\ g.missed = generations[n].missed
  BY <1>1, StepMoves DEF Steps, Ended
<1>3. generations' = [generations EXCEPT ![n] = g] BY DEF GoesTo
<1>4. Progressing(g, readable[g.shelf]) BY <1>2 DEF Progressing
<1>5. step \notin Active /\ step \notin {"instructions again", "result", "answering", "over"} /\ n \notin registered'
  BY DEF Active
<1> HIDE DEF g
<1> QED BY <1>2, <1>3, <1>4, <1>5, OneGoesOn

LEMMA StatusKnownKeeps ==
  ASSUME GenerationInv, NEW n \in Ids, StatusKnown(n) PROVE GenerationInv'
<1>1. /\ generations[n] \in Generation /\ generations[n].step = "status" /\ n \notin registered
      /\ UNCHANGED <<flavor, aiClosed, aiTabs, readable>>
  <2>1. generations[n] \in Generation
    BY ElementOfSeq, LenProperties DEF GenerationInv, GenerationShape, Ids
  <2>2. generations[n].step = "status" /\ Sound(n) /\ UNCHANGED <<flavor, aiClosed, aiTabs, readable>>
    BY DEF StatusKnown, Is, GenerationInv
  <2> QED BY <2>1, <2>2 DEF Sound, Active
<1>2. CASE generations[n].gone
  <2>1. GoesTo(n, "cancelled") /\ registered' = registered \ {n} /\ UNCHANGED <<flavor, aiClosed, aiTabs, readable>>
    BY <1>1, <1>2 DEF StatusKnown
  <2> QED BY <2>1, EndKeeps
<1>3. CASE ~generations[n].gone
  <2> DEFINE g == [generations[n] EXCEPT !.step = "first"]
  <2>1. /\ g \in Generation /\ g.step = "first"
        /\ g.tab = generations[n].tab /\ g.shelf = generations[n].shelf /\ g.aborted = generations[n].aborted /\ g.missed = generations[n].missed
    BY <1>1, StepMoves DEF Steps, Ended
  <2>2. generations' = [generations EXCEPT ![n] = g] /\ registered' = registered \cup {n} /\ UNCHANGED <<flavor, aiClosed, aiTabs, readable>>
    BY <1>3 DEF StatusKnown, GoesTo
  <2>3. Progressing(g, readable[g.shelf]) BY <2>1 DEF Progressing
  <2>4. g.step \in Active /\ n \in registered' /\ g.step \notin {"instructions again", "result", "answering", "over"}
    BY <2>1, <2>2 DEF Active
  <2> HIDE DEF g
  <2> QED BY <2>1, <2>2, <2>3, <2>4, OneGoesOn
<1> QED BY <1>2, <1>3

LEMMA StatusRefusesKeeps ==
  ASSUME GenerationInv, NEW n \in Ids, StatusRefuses(n) PROVE GenerationInv'
<1>1. n \notin registered BY DEF StatusRefuses, Is, GenerationInv, Sound, Active
<1> QED BY <1>1, EndKeeps DEF StatusRefuses

\* What a generation and a repository are made of.
LEMMA GenerationParts ==
  ASSUME GenerationInv, NEW n \in Ids
  PROVE  /\ generations[n] \in Generation /\ generations[n].shelf \in Shelves /\ generations[n].tab \in Tabs
         /\ readable[generations[n].shelf] \in Reading /\ generations[n].used \in Reading /\ generations[n].answered \in Reading
         /\ generations[n].again \in 0..MaxEdits
         /\ ReadFirst \in Content /\ ReadSecond \in Content /\ Content = {ReadFirst, ReadSecond} /\ ReadFirst # ReadSecond
<1>1. generations[n] \in Generation
  BY ElementOfSeq, LenProperties DEF GenerationInv, GenerationShape, Ids
<1>2. ReadFirst \in Content BY DEF ReadFirst, Content
<1>3. \E x \in Content : x # ReadFirst BY DEF Content
<1>4. ReadSecond \in Content /\ ReadSecond # ReadFirst BY <1>3 DEF ReadSecond
<1>5. Content = {ReadFirst, ReadSecond} BY <1>2, <1>4 DEF Content
<1> QED BY <1>1, <1>2, <1>4, <1>5 DEF Generation, GenerationInv, GenerationShape

LEMMA ReadsKeeps ==
  ASSUME GenerationInv, NEW n \in Ids, Reads(n) PROVE GenerationInv'
<1> DEFINE now == readable[generations[n].shelf]
<1>1. /\ generations[n] \in Generation /\ generations[n].used \in Reading /\ now \in Reading
      /\ generations[n].answered \in Reading /\ generations[n].again \in 0..MaxEdits
      /\ ReadFirst \in Content /\ Sound(n) /\ UNCHANGED <<flavor, aiClosed, aiTabs, readable>>
  BY GenerationParts DEF GenerationInv, Reads
<1>2. CASE generations[n].step = "first"
  <2> DEFINE u == [generations[n].used EXCEPT ![ReadFirst] = now[ReadFirst]]
             g == [generations[n] EXCEPT !.used = u, !.step = "second"]
  <2>1. u \in Reading /\ u[ReadFirst] = now[ReadFirst] /\ now[ReadFirst] \in 0..MaxEdits
    BY <1>1 DEF Reading
  <2>2. generations' = [generations EXCEPT ![n].used[ReadFirst] = now[ReadFirst], ![n].step = "second"] /\ registered' = registered
    BY <1>2 DEF Reads, Is
  <2>3. generations' = [generations EXCEPT ![n] = g] BY <2>2
  <2> HIDE DEF u
  <2>4. /\ g \in Generation /\ g.step = "second" /\ g.used = u
        /\ g.tab = generations[n].tab /\ g.shelf = generations[n].shelf /\ g.aborted = generations[n].aborted /\ g.missed = generations[n].missed
    BY <1>1, <2>1 DEF Generation, Steps
  <2> HIDE DEF g
  <2>5. Progressing(g, readable[g.shelf]) BY <2>1, <2>4 DEF Progressing
  <2>6. g.step \in Active /\ (n \in registered' \/ aiClosed) /\ g.step \notin {"instructions again", "result", "answering", "over"}
    BY <1>1, <1>2, <2>2, <2>4 DEF Active, Sound
  <2> QED BY <1>1, <2>2, <2>3, <2>4, <2>5, <2>6, OneGoesOn
<1>3. CASE generations[n].step = "content again" /\ Aborted(n)
  BY <1>1, <1>3, EndKeeps DEF Reads, Is, EndsAs
<1>4. CASE generations[n].step = "content again" /\ ~Aborted(n)
  <2> DEFINE g == [generations[n] EXCEPT !.again = now["content"], !.step = "instructions again"]
  <2>1. now["content"] \in 0..MaxEdits /\ \A x \in Content : now[x] \in 0..MaxEdits /\ generations[n].used[x] \in 0..MaxEdits /\ generations[n].answered[x] \in 0..MaxEdits
    BY <1>1 DEF Reading, Content
  <2>2. generations' = [generations EXCEPT ![n].again = now["content"], ![n].step = "instructions again"] /\ registered' = registered
    BY <1>4 DEF Reads, Is
  <2>3. generations' = [generations EXCEPT ![n] = g] BY <2>2
  <2>4. /\ g \in Generation /\ g.step = "instructions again" /\ g.used = generations[n].used /\ g.answered = generations[n].answered
        /\ g.again = now["content"]
        /\ g.tab = generations[n].tab /\ g.shelf = generations[n].shelf /\ g.aborted = generations[n].aborted /\ g.missed = generations[n].missed
    BY <1>1, <2>1 DEF Generation, Steps
  <2> HIDE DEF g
  <2>5. Progressing(g, readable[g.shelf]) BY <1>1, <1>4, <2>1, <2>4 DEF Progressing, Sound, Content
  <2>6. g.step \in Active /\ (n \in registered' \/ aiClosed) /\ ~g.aborted /\ g.step \notin {"answering", "over"}
    BY <1>1, <1>4, <2>2, <2>4 DEF Active, Sound, Aborted
  <2>7. ~generations[n].aborted BY <1>4 DEF Aborted
  <2> QED BY <1>1, <2>2, <2>3, <2>4, <2>5, <2>6, <2>7, OneGoesOn
<1> QED BY <1>2, <1>3, <1>4 DEF Reads, Is

LEMMA StartKeeps ==
  ASSUME GenerationInv, NEW n \in Ids, StartProgram(n) PROVE GenerationInv'
<1> DEFINE now == readable[generations[n].shelf]
<1>1. /\ generations[n] \in Generation /\ generations[n].used \in Reading /\ now \in Reading
      /\ ReadFirst \in Content /\ ReadSecond \in Content /\ Content = {ReadFirst, ReadSecond} /\ ReadFirst # ReadSecond
      /\ Sound(n) /\ generations[n].step = "second" /\ UNCHANGED <<flavor, aiClosed, aiTabs, readable>>
  BY GenerationParts DEF GenerationInv, StartProgram, Is
<1>2. CASE Aborted(n)
  <2>1. EndsAs(n, "cancelled") BY <1>2 DEF StartProgram
  <2> QED BY <1>1, <2>1, EndKeeps DEF EndsAs
<1>3. CASE ~Aborted(n) /\ aiClosed
  <2>1. EndsAs(n, "failed") BY <1>3 DEF StartProgram, RunnerTakes
  <2> QED BY <1>1, <2>1, EndKeeps DEF EndsAs
<1>4. CASE ~Aborted(n) /\ ~aiClosed
  <2> DEFINE u == [generations[n].used EXCEPT ![ReadSecond] = now[ReadSecond]]
             g == [generations[n] EXCEPT !.used = u, !.step = "answering"]
  <2>1. u \in Reading /\ u[ReadSecond] = now[ReadSecond] /\ u[ReadFirst] = generations[n].used[ReadFirst]
    BY <1>1 DEF Reading
  <2>2. generations' = [generations EXCEPT ![n].used[ReadSecond] = now[ReadSecond], ![n].step = "answering"] /\ registered' = registered
    BY <1>4 DEF StartProgram, RunnerTakes
  <2>3. generations' = [generations EXCEPT ![n] = g] BY <2>2
  <2>4. generations[n].used[ReadFirst] <= now[ReadFirst] BY <1>1 DEF Sound, Progressing
  <2>5. now[ReadSecond] \in 0..MaxEdits BY <1>1 DEF Reading
  <2>6. \A x \in Content : u[x] <= now[x] BY <1>1, <2>1, <2>4, <2>5
  <2> HIDE DEF u
  <2>7. /\ g \in Generation /\ g.step = "answering" /\ g.used = u
        /\ g.tab = generations[n].tab /\ g.shelf = generations[n].shelf /\ g.aborted = generations[n].aborted /\ g.missed = generations[n].missed
    BY <1>1, <2>1 DEF Generation, Steps
  <2> HIDE DEF g
  <2>8. Progressing(g, readable[g.shelf]) BY <2>6, <2>7 DEF Progressing
  <2>9. g.step \in Active /\ (n \in registered' \/ aiClosed) /\ g.step \notin {"instructions again", "result", "over"}
    BY <1>1, <2>2, <2>7 DEF Active, Sound
  <2> QED BY <1>1, <1>4, <2>2, <2>3, <2>7, <2>8, <2>9, OneGoesOn
<1> QED BY <1>2, <1>3, <1>4

\* The model has answered: what was used is not newer than what there is.
LEMMA AnswersKeeps ==
  ASSUME GenerationInv, NEW n \in Ids, ProgramAnswers(n) PROVE GenerationInv'
<1> DEFINE now == readable[generations[n].shelf]
           g == [generations[n] EXCEPT !.step = "content again", !.answered = now]
<1>1. /\ generations[n] \in Generation /\ now \in Reading
      /\ Sound(n) /\ generations[n].step = "answering" /\ UNCHANGED <<flavor, aiClosed, aiTabs, readable, registered>>
  BY GenerationParts DEF GenerationInv, ProgramAnswers, Is
<1>2. generations' = [generations EXCEPT ![n] = g] BY DEF ProgramAnswers
<1>3. /\ g \in Generation /\ g.step = "content again" /\ g.used = generations[n].used /\ g.answered = now
      /\ g.tab = generations[n].tab /\ g.shelf = generations[n].shelf /\ g.aborted = generations[n].aborted /\ g.missed = generations[n].missed
  BY <1>1 DEF Generation, Steps
<1> HIDE DEF g
<1>4. \A x \in Content : generations[n].used[x] <= now[x] /\ now[x] <= now[x]
  <2>1. \A x \in Content : now[x] \in Int BY <1>1, GenerationsAssumption DEF Reading
  <2> QED BY <1>1, <2>1 DEF Sound, Progressing
<1>5. Progressing(g, readable[g.shelf]) BY <1>3, <1>4 DEF Progressing
<1>6. g.step \in Active /\ (n \in registered' \/ aiClosed) /\ g.step \notin {"instructions again", "result", "answering", "over"}
  BY <1>1, <1>3 DEF Active, Sound
<1> QED BY <1>1, <1>2, <1>3, <1>5, <1>6, OneGoesOn

LEMMA KilledKeeps ==
  ASSUME GenerationInv, NEW n \in Ids, ProgramKilled(n) \/ GenerationFails(n) PROVE GenerationInv'
BY EndKeeps DEF ProgramKilled, GenerationFails, EndsAs

\* Unchanged the second time, it was the same when the model answered.
LEMMA AgainKeeps ==
  ASSUME GenerationInv, NEW n \in Ids, ReadsInstructionsAgain(n) PROVE GenerationInv'
<1> DEFINE now == readable[generations[n].shelf]
<1>1. /\ generations[n] \in Generation /\ generations[n].used \in Reading /\ now \in Reading
      /\ generations[n].answered \in Reading /\ generations[n].again \in 0..MaxEdits
      /\ Sound(n) /\ generations[n].step = "instructions again" /\ UNCHANGED <<flavor, aiClosed, aiTabs, readable>>
  BY GenerationParts DEF GenerationInv, ReadsInstructionsAgain, Is
<1>2. CASE Changed(n)
  <2>1. EndsAs(n, "failed") BY <1>2 DEF ReadsInstructionsAgain
  <2> QED BY <1>1, <2>1, EndKeeps DEF EndsAs
<1>3. CASE ~Changed(n)
  <2> DEFINE g == [generations[n] EXCEPT !.step = "result"]
  <2>1. generations' = [generations EXCEPT ![n] = g] /\ registered' = registered \ {n}
    BY <1>3 DEF ReadsInstructionsAgain, EndsAs, GoesTo
  <2>2. /\ g \in Generation /\ g.step = "result" /\ g.used = generations[n].used /\ g.answered = generations[n].answered
        /\ g.tab = generations[n].tab /\ g.shelf = generations[n].shelf /\ g.aborted = generations[n].aborted /\ g.missed = generations[n].missed
    BY <1>1, StepMoves DEF Steps, Ended
  <2> HIDE DEF g
  <2>3. /\ \A x \in Content : generations[n].used[x] <= generations[n].answered[x] /\ generations[n].answered[x] <= now[x]
        /\ generations[n].answered["content"] <= generations[n].again
    BY <1>1 DEF Sound, Progressing
  <2>4. generations[n].again = generations[n].used["content"] /\ now["instructions"] = generations[n].used["instructions"]
    BY <1>3 DEF Changed
  <2>5. ASSUME NEW x \in Content PROVE generations[n].used[x] = generations[n].answered[x]
    <3>1. generations[n].used[x] \in Int /\ generations[n].answered[x] \in Int /\ now[x] \in Int
      <4>1. \A f \in Reading : f[x] \in Int BY GenerationsAssumption DEF Reading
      <4> QED BY <1>1, <4>1
    <3>2. x = "content" \/ x = "instructions" BY DEF Content
    <3> QED BY <2>3, <2>4, <3>1, <3>2
  <2>6. generations[n].used = generations[n].answered
    <3>1. /\ generations[n].used = [x \in Content |-> generations[n].used[x]]
          /\ generations[n].answered = [x \in Content |-> generations[n].answered[x]]
      BY <1>1 DEF Reading
    <3> QED BY <2>5, <3>1
  <2>7. Progressing(g, readable[g.shelf]) BY <2>2, <2>6 DEF Progressing
  <2>8. g.step \notin Active /\ n \notin registered' /\ g.step \notin {"answering", "over"}
    BY <2>1, <2>2 DEF Active
  <2>9. generations[n].aborted /\ ~generations[n].missed => aiClosed BY <1>1 DEF Sound
  <2> QED BY <1>1, <2>1, <2>2, <2>7, <2>8, <2>9, OneGoesOn
<1> QED BY <1>2, <1>3

\* Generations that are where they were, some of them cancelled.
Since(m) ==
  /\ generations'[m].tab = generations[m].tab /\ generations'[m].shelf = generations[m].shelf
  /\ generations'[m].step = generations[m].step
  /\ generations[m].aborted => generations'[m].aborted
  /\ generations[m].missed => generations'[m].missed

\* A tab that stays as it is, or waits for nothing any more, waits and shows as it did.
LEMMA TabsStay ==
  ASSUME GenerationInv, NEW t \in Tabs, flavor' = flavor, Ids' = Ids,
         aiTabs'[t].shelf = aiTabs[t].shelf, aiTabs'[t].box = aiTabs[t].box,
         aiTabs'[t].request \in {0, aiTabs[t].request},
         \A m \in Ids : Since(m)
  PROVE  Waits(t)' /\ Shows(t)'
<1>1. Waits(t) /\ Shows(t) BY DEF GenerationInv
<1>2. Waits(t)' BY <1>1 DEF Waits, Expected, Since
<1>3. Shows(t)' BY <1>1 DEF Shows, Since
<1> QED BY <1>2, <1>3

\* A cancellation: what it cancels gives no result, or the cancellation was missed.
LEMMA CancelParts ==
  ASSUME GenerationInv, NEW t \in Tabs, generations' = Cancelled(aiTabs[t].request),
         UNCHANGED <<flavor, aiClosed, readable, registered>>
  PROVE  /\ generations' \in Seq(Generation) /\ Ids' = Ids
         /\ \A m \in Ids : Sound(m)' /\ Since(m)
         /\ aiTabs[t].request # 0 =>
              \/ generations'[aiTabs[t].request].missed
              \/ /\ generations'[aiTabs[t].request].aborted
                 /\ generations'[aiTabs[t].request].step \notin {"instructions again", "result"}
<1>1. PICK n : n = aiTabs[t].request OBVIOUS
<1>2. CASE n = 0
  <2>1. generations' = generations BY <1>1, <1>2 DEF Cancelled
  <2>2. ReadFirst' = ReadFirst /\ Ids' = Ids BY <2>1 DEF ReadFirst, Ids
  <2>3. \A m \in Ids : Sound(m)' /\ Since(m)
    BY <2>1, <2>2 DEF GenerationInv, Sound, Progressing, Since
  <2> QED BY <1>1, <1>2, <2>1, <2>2, <2>3 DEF GenerationInv, GenerationShape
<1>3. CASE n # 0
  <2> DEFINE g == [generations[n] EXCEPT !.aborted = @ \/ n \in registered,
                                         !.missed = @ \/ n \notin registered \/ Is(n, "instructions again")]
  <2>1. n \in Ids /\ generations[n] \in Generation /\ Sound(n)
    BY <1>1, <1>3, GenerationParts DEF GenerationInv, Waits
  <2>2. generations' = [generations EXCEPT ![n].aborted = @ \/ n \in registered,
                                           ![n].missed = @ \/ n \notin registered \/ Is(n, "instructions again")]
    BY <1>1, <1>3 DEF Cancelled
  <2>3. generations' = [generations EXCEPT ![n] = g] BY <2>2
  <2>4. g \in Generation BY <2>1 DEF Generation
  <2>5. /\ g.step = generations[n].step /\ g.tab = generations[n].tab /\ g.shelf = generations[n].shelf
        /\ g.used = generations[n].used /\ g.again = generations[n].again /\ g.answered = generations[n].answered
        /\ g.gone = generations[n].gone
        /\ g.aborted = (generations[n].aborted \/ n \in registered)
        /\ g.missed = (generations[n].missed \/ n \notin registered \/ Is(n, "instructions again"))
    BY <2>1 DEF Generation
  <2> HIDE DEF g
  <2>6. g.missed \/ (g.aborted /\ g.step \notin {"instructions again", "result"})
    BY <2>1, <2>5 DEF Sound, Is, Active
  <2>7. Progressing(g, readable[g.shelf]) BY <2>1, <2>5 DEF Sound, Progressing
  <2>8. /\ generations' \in Seq(Generation) /\ Ids' = Ids
        /\ generations'[n] = g /\ \A m \in Ids : m # n => generations'[m] = generations[m]
        /\ \A m \in Ids : Sound(m)'
    <3>1. registered' \subseteq registered \cup {n} /\ registered \ {n} \subseteq registered'
      OBVIOUS
    <3>2. g.aborted /\ ~g.missed => g.step \notin {"instructions again", "result"} BY <2>6
    <3>3. /\ n \in registered' => g.step \in Active
          /\ g.step \in Active => n \in registered' \/ aiClosed
      BY <2>1, <2>5 DEF Sound
    <3>4. aiClosed /\ g.step = "answering" => g.aborted \/ g.gone BY <2>1, <2>5 DEF Sound
    <3> QED BY <2>1, <2>3, <2>4, <2>7, <3>1, <3>2, <3>3, <3>4, OneIsSound
  <2>9. \A m \in Ids : Since(m) BY <2>5, <2>8 DEF Since
  <2> QED BY <1>1, <2>6, <2>8, <2>9
<1> QED BY <1>2, <1>3

LEMMA CancelKeeps ==
  ASSUME GenerationInv, NEW t \in Tabs, CancelGeneration(t) PROVE GenerationInv'
<1>1. /\ generations' = Cancelled(aiTabs[t].request) /\ UNCHANGED <<flavor, aiClosed, readable, registered, aiTabs>>
  BY DEF CancelGeneration
<1>2. /\ generations' \in Seq(Generation) /\ Ids' = Ids
      /\ \A m \in Ids : Sound(m)' /\ Since(m)
  BY <1>1, CancelParts
<1>3. \A q \in Tabs : Waits(q)' /\ Shows(q)' BY <1>1, <1>2, TabsStay
<1>4. GenerationShape' BY <1>1, <1>2 DEF GenerationInv, GenerationShape
<1> QED BY <1>2, <1>3, <1>4 DEF GenerationInv

\* A tab that shows something else waits for nothing of the old, or for what won't be shown.
LEMMA ShowOtherKeeps ==
  ASSUME GenerationInv, NEW t \in Tabs, ShowOther(t) PROVE GenerationInv'
<1>1. PICK s \in Shelves : aiTabs' = [aiTabs EXCEPT ![t] = [shelf |-> s, request |-> Awaited(t), box |-> 0]]
  BY DEF ShowOther
<1>2. generations' = Cancelled(aiTabs[t].request) /\ UNCHANGED <<flavor, aiClosed, readable, registered>>
  BY DEF ShowOther
<1>3. /\ generations' \in Seq(Generation) /\ Ids' = Ids
      /\ \A m \in Ids : Sound(m)' /\ Since(m)
      /\ aiTabs[t].request # 0 =>
           \/ generations'[aiTabs[t].request].missed
           \/ /\ generations'[aiTabs[t].request].aborted
              /\ generations'[aiTabs[t].request].step \notin {"instructions again", "result"}
  BY <1>2, CancelParts
<1>4. /\ aiTabs \in [Tabs -> [shelf : Shelves, request : Nat, box : Nat]]
      /\ Awaited(t) \in {0, aiTabs[t].request} /\ (Awaited(t) # 0 => flavor = "message") /\ Waits(t)
      /\ Awaited(t) \in Nat
  BY DEF GenerationInv, GenerationShape, Awaited
<1>5. aiTabs' \in [Tabs -> [shelf : Shelves, request : Nat, box : Nat]] BY <1>1, <1>4
<1>6. aiTabs'[t].request = Awaited(t) /\ aiTabs'[t].box = 0 BY <1>1, <1>4
<1>7. ASSUME NEW q \in Tabs PROVE Waits(q)' /\ Shows(q)'
  <2>1. CASE q = t
    <3>1. Shows(q)' BY <1>6, <2>1 DEF Shows
    <3>2. Waits(q)'
      <4>1. CASE Awaited(t) = 0 BY <1>6, <2>1, <4>1 DEF Waits
      <4>2. CASE Awaited(t) # 0
        <5>1. PICK n : n = aiTabs[t].request OBVIOUS
        <5>2. Awaited(t) = n /\ n # 0 /\ n \in Ids /\ generations[n].tab = t /\ generations[n].step # "over"
          BY <1>4, <4>2, <5>1 DEF Waits
        <5>3. generations'[n].tab = t /\ generations'[n].step # "over" BY <1>3, <5>2 DEF Since
        <5>4. aiTabs'[q].request = n /\ flavor' = "message" BY <1>2, <1>4, <1>6, <2>1, <4>2, <5>2
        <5>5. Expected(generations[n], aiTabs[q])' BY <1>3, <5>1, <5>2, <5>4 DEF Expected
        <5> QED BY <1>3, <2>1, <5>2, <5>3, <5>4, <5>5 DEF Waits
      <4> QED BY <4>1, <4>2
    <3> QED BY <3>1, <3>2
  <2>2. CASE q # t
    <3>1. aiTabs'[q] = aiTabs[q] BY <1>1, <1>4, <2>2
    <3> QED BY <1>2, <1>3, <3>1, TabsStay
  <2> QED BY <2>1, <2>2
<1>8. GenerationShape' BY <1>2, <1>3, <1>5 DEF GenerationInv, GenerationShape
<1> QED BY <1>3, <1>7, <1>8 DEF GenerationInv

LEMMA AbandonedKeeps ==
  ASSUME GenerationInv, NEW n \in Ids, Abandoned(n) PROVE GenerationInv'
<1> DEFINE g == [generations[n] EXCEPT !.gone = TRUE]
<1>1. /\ generations[n] \in Generation /\ Sound(n) /\ UNCHANGED <<flavor, registered, aiClosed, readable>>
      /\ aiTabs' = [t \in Tabs |-> [aiTabs[t] EXCEPT !.request = IF @ = n THEN 0 ELSE @]]
  BY GenerationParts DEF GenerationInv, Abandoned
<1>2. generations' = [generations EXCEPT ![n] = g] BY DEF Abandoned
<1>3. /\ g \in Generation /\ g.step = generations[n].step /\ g.tab = generations[n].tab /\ g.shelf = generations[n].shelf
      /\ g.used = generations[n].used /\ g.again = generations[n].again /\ g.answered = generations[n].answered
      /\ g.aborted = generations[n].aborted /\ g.missed = generations[n].missed /\ g.gone
  BY <1>1 DEF Generation
<1> HIDE DEF g
<1>4. Progressing(g, readable[g.shelf]) BY <1>1, <1>3 DEF Sound, Progressing
<1>5. /\ generations' \in Seq(Generation) /\ Ids' = Ids
      /\ generations'[n] = g /\ \A m \in Ids : m # n => generations'[m] = generations[m]
      /\ \A m \in Ids : Sound(m)'
  <2>1. /\ g.aborted /\ ~g.missed => g.step \notin {"instructions again", "result"} \/ aiClosed
        /\ n \in registered' => g.step \in Active
        /\ g.step \in Active => n \in registered' \/ aiClosed
        /\ aiClosed /\ g.step = "answering" => g.aborted \/ g.gone
    BY <1>1, <1>3 DEF Sound
  <2>2. registered' \subseteq registered \cup {n} /\ registered \ {n} \subseteq registered' BY <1>1
  <2> QED BY <1>1, <1>2, <1>3, <1>4, <2>1, <2>2, OneIsSound
<1>6. \A m \in Ids : Since(m) BY <1>3, <1>5 DEF Since
<1>7. aiTabs \in [Tabs -> [shelf : Shelves, request : Nat, box : Nat]]
  BY DEF GenerationInv, GenerationShape
<1>8. /\ aiTabs' \in [Tabs -> [shelf : Shelves, request : Nat, box : Nat]]
      /\ \A t \in Tabs : /\ aiTabs'[t].shelf = aiTabs[t].shelf /\ aiTabs'[t].box = aiTabs[t].box
                         /\ aiTabs'[t].request \in {0, aiTabs[t].request}
  BY <1>1, <1>7
<1>9. \A t \in Tabs : Waits(t)' /\ Shows(t)' BY <1>1, <1>5, <1>6, <1>8, TabsStay
<1>10. GenerationShape' BY <1>1, <1>5, <1>8 DEF GenerationInv, GenerationShape
<1> QED BY <1>5, <1>9, <1>10 DEF GenerationInv

\* What is left of a generation that is over.
LEMMA OverParts ==
  ASSUME NEW n, generations[n] \in Generation
  PROVE  /\ Over(n) \in Generation /\ Over(n).step = "over" /\ Over(n).aborted = FALSE
         /\ Over(n).tab = generations[n].tab /\ Over(n).shelf = generations[n].shelf /\ Over(n).missed = generations[n].missed
<1>1. "over" \in Steps BY DEF Steps, Ended
<1>2. Unread \in Reading BY GenerationsAssumption DEF Unread, Reading
<1>3. MaxEdits \in Nat BY GenerationsAssumption
<1>4. 0 \in 0..MaxEdits BY <1>3
<1>5. PICK h, g : h = generations[n] /\ g = Over(n) OBVIOUS
<1>6. /\ h \in Generation
      /\ g = [h EXCEPT !.step = "over", !.aborted = FALSE, !.gone = FALSE, !.used = Unread, !.again = 0, !.answered = Unread]
  BY <1>5 DEF Over
<1>7. g \in Generation /\ g.step = "over" /\ g.aborted = FALSE /\ g.tab = h.tab /\ g.shelf = h.shelf /\ g.missed = h.missed
  BY <1>1, <1>2, <1>4, <1>6 DEF Generation
<1> QED BY <1>5, <1>7

\* The caller is told; only what is still waited for is shown.
LEMMA DeliveredKeeps ==
  ASSUME GenerationInv, NEW n \in Ids, Delivered(n) PROVE GenerationInv'
<1>1. PICK t : t = generations[n].tab OBVIOUS
<1>2. PICK mine \in BOOLEAN : mine <=> aiTabs[t].request = n OBVIOUS
<1>3. PICK gave \in BOOLEAN : gave <=> generations[n].step = "result" OBVIOUS
<1>4. /\ UNCHANGED <<flavor, registered, aiClosed, readable>>
      /\ generations[n].step \in Ended \ {"over"}
      /\ generations' = [generations EXCEPT ![n] = Over(n)]
      /\ aiTabs' = [aiTabs EXCEPT ![t].box = IF mine /\ gave THEN n ELSE @,
                                  ![t].request = IF mine THEN 0 ELSE @]
  BY <1>1, <1>2, <1>3 DEF Delivered, Is
<1>5. generations[n] \in Generation /\ Sound(n) /\ t \in Tabs /\ n \notin registered /\ n \in Nat
  <2>1. Sound(n) /\ n \in Nat BY LenProperties DEF GenerationInv, GenerationShape, Ids
  <2> QED BY <1>1, <1>4, <2>1, GenerationParts DEF Sound, Active, Ended
<1> DEFINE g == Over(n)
<1>7. /\ g \in Generation /\ g.step = "over" /\ g.tab = t /\ g.shelf = generations[n].shelf
      /\ g.missed = generations[n].missed /\ g.aborted = FALSE
  BY <1>1, <1>5, OverParts
<1>8. generations' = [generations EXCEPT ![n] = g] BY <1>4
<1> HIDE DEF g
<1>9. /\ generations' \in Seq(Generation) /\ Ids' = Ids
      /\ generations'[n] = g /\ \A m \in Ids : m # n => generations'[m] = generations[m]
      /\ \A m \in Ids : Sound(m)'
  <2>1. Progressing(g, readable[g.shelf]) BY <1>7 DEF Progressing
  <2>2. /\ ~g.aborted /\ g.step \notin Active /\ g.step # "answering" BY <1>7 DEF Active
  <2>3. registered' \subseteq registered \cup {n} /\ registered \ {n} \subseteq registered' /\ n \notin registered'
    BY <1>4, <1>5
  <2> QED BY <1>4, <1>7, <1>8, <2>1, <2>2, <2>3, OneIsSound
<1>10. aiTabs \in [Tabs -> [shelf : Shelves, request : Nat, box : Nat]]
  BY DEF GenerationInv, GenerationShape
<1>11. /\ aiTabs' \in [Tabs -> [shelf : Shelves, request : Nat, box : Nat]]
       /\ aiTabs'[t].shelf = aiTabs[t].shelf
       /\ aiTabs'[t].box = (IF mine /\ gave THEN n ELSE aiTabs[t].box)
       /\ aiTabs'[t].request = (IF mine THEN 0 ELSE aiTabs[t].request)
       /\ \A q \in Tabs : q # t => aiTabs'[q] = aiTabs[q]
  BY <1>4, <1>5, <1>10
<1>12. ASSUME NEW q \in Tabs PROVE Waits(q)' /\ Shows(q)'
  <2>1. Waits(q) /\ Shows(q) BY DEF GenerationInv
  <2>2. aiTabs'[q].request # n /\ aiTabs'[q].request \in {0, aiTabs[q].request} /\ aiTabs'[q].shelf = aiTabs[q].shelf
    <3>1. CASE q = t BY <1>2, <1>5, <1>11, <3>1 DEF Ids, GenerationInv, GenerationShape
    <3>2. CASE q # t
      <4>1. aiTabs[q].request # n
        BY <1>1, <1>5, <2>1, <3>2, LenProperties DEF Waits, Ids, GenerationInv, GenerationShape
      <4> QED BY <1>11, <3>2, <4>1
    <3> QED BY <3>1, <3>2
  <2>3. Waits(q)'
    <3>1. PICK m : m = aiTabs'[q].request OBVIOUS
    <3>2. CASE m = 0 BY <3>1, <3>2 DEF Waits
    <3>3. CASE m # 0
      <4>1. m = aiTabs[q].request /\ m # n /\ m \in Ids BY <2>1, <2>2, <3>1, <3>3 DEF Waits
      <4>2. generations'[m] = generations[m] BY <1>9, <4>1
      <4>3. Expected(generations[m], aiTabs[q])'
        BY <1>4, <2>1, <2>2, <3>3, <4>1, <4>2 DEF Waits, Expected
      <4> QED BY <1>9, <2>1, <3>1, <3>3, <4>1, <4>2, <4>3 DEF Waits
    <3> QED BY <3>2, <3>3
  <2>4. Shows(q)'
    <3>1. CASE q = t /\ mine /\ gave
      <4>1. aiTabs'[q].box = n BY <1>11, <3>1
      <4>2. Expected(generations[n], aiTabs[t])
        BY <1>2, <1>5, <2>1, <3>1, LenProperties DEF Waits, Ids, GenerationInv, GenerationShape
      <4>3. flavor = "draft" \/ ~generations[n].missed => generations[n].shelf = aiTabs[t].shelf
        BY <1>3, <3>1, <4>2 DEF Expected
      <4> QED BY <1>4, <1>7, <1>9, <1>11, <3>1, <4>1, <4>3 DEF Shows
    <3>2. CASE ~(q = t /\ mine /\ gave)
      <4>1. aiTabs'[q].box = aiTabs[q].box BY <1>11, <3>2
      <4>2. \A m \in Ids : generations'[m].missed = generations[m].missed /\ generations'[m].shelf = generations[m].shelf
        BY <1>7, <1>9
      <4> QED BY <1>4, <1>9, <2>1, <2>2, <4>1, <4>2 DEF Shows
    <3> QED BY <3>1, <3>2
  <2> QED BY <2>3, <2>4
<1>13. GenerationShape' BY <1>4, <1>9, <1>11 DEF GenerationInv, GenerationShape
<1> QED BY <1>9, <1>12, <1>13 DEF GenerationInv

\* What has been read of a repository has been read of its later versions.
LEMMA StillReads ==
  ASSUME NEW g \in Generation, NEW here \in Reading, NEW there \in Reading, ReadFirst \in Content,
         \A y \in Content : here[y] <= there[y], Progressing(g, here)
  PROVE  Progressing(g, there)
<1>1. MaxEdits \in Nat BY GenerationsAssumption
<1>2. ASSUME NEW f \in Reading, NEW y \in Content, f[y] <= here[y] PROVE f[y] <= there[y]
  <2>1. f[y] \in Int /\ here[y] \in Int /\ there[y] \in Int /\ here[y] <= there[y]
    BY <1>1 DEF Reading
  <2> QED BY <1>2, <2>1
<1>3. g.used \in Reading /\ g.answered \in Reading BY DEF Generation
<1>4. g.step = "second" => g.used[ReadFirst] <= there[ReadFirst]
  BY <1>2, <1>3, Zenon DEF Progressing
<1>5. g.step = "answering" => \A y \in Content : g.used[y] <= there[y]
  BY <1>2, <1>3, Zenon DEF Progressing
<1>6. g.step \in {"content again", "instructions again"} =>
        \A y \in Content : g.used[y] <= g.answered[y] /\ g.answered[y] <= there[y]
  BY <1>2, <1>3, Zenon DEF Progressing
<1> QED BY <1>4, <1>5, <1>6, Zenon DEF Progressing

\* Versions only grow.
LEMMA ChangesKeep ==
  ASSUME GenerationInv, SomethingChanges PROVE GenerationInv'
<1>1. PICK s \in Shelves, x \in Content :
        /\ readable[s]["content"] + readable[s]["instructions"] < MaxEdits
        /\ readable' = [readable EXCEPT ![s][x] = @ + 1]
        /\ UNCHANGED <<flavor, generations, registered, aiClosed, aiTabs>>
  BY DEF SomethingChanges
<1>2. MaxEdits \in Nat /\ readable \in [Shelves -> Reading] /\ readable[s] \in Reading
  BY GenerationsAssumption DEF GenerationInv, GenerationShape
<1>3. /\ readable[s]["content"] \in 0..MaxEdits /\ readable[s]["instructions"] \in 0..MaxEdits
      /\ x = "content" \/ x = "instructions"
  BY <1>2 DEF Reading, Content
<1>4. readable[s][x] + 1 \in 0..MaxEdits BY <1>1, <1>2, <1>3
<1> DEFINE now == [readable[s] EXCEPT ![x] = readable[s][x] + 1]
<1>5. now \in Reading /\ \A y \in Content : readable[s][y] \in Int /\ now[y] \in Int /\ readable[s][y] <= now[y]
  BY <1>2, <1>4 DEF Reading
<1>6. readable' = [readable EXCEPT ![s] = now] BY <1>1
<1> HIDE DEF now
<1>7. /\ readable' \in [Shelves -> Reading]
      /\ \A q \in Shelves, y \in Content : readable[q][y] \in Int /\ readable'[q][y] \in Int /\ readable[q][y] <= readable'[q][y]
  BY <1>2, <1>5, <1>6 DEF Reading
<1>8. ASSUME NEW n \in Ids PROVE Sound(n)'
  <2>1. /\ generations[n].shelf \in Shelves /\ Sound(n) /\ ReadFirst \in Content
        /\ generations[n].used \in Reading /\ generations[n].answered \in Reading
    BY GenerationParts DEF GenerationInv
  <2>2. \A y \in Content : generations[n].used[y] \in Int /\ generations[n].answered[y] \in Int
    BY <1>2, <2>1 DEF Reading
  <2>3. \A y \in Content : /\ readable[generations[n].shelf][y] \in Int /\ readable'[generations[n].shelf][y] \in Int
                           /\ readable[generations[n].shelf][y] <= readable'[generations[n].shelf][y]
    BY <1>7, <2>1
  <2>4. ReadFirst' = ReadFirst BY <1>1 DEF ReadFirst
  <2>5. Progressing(generations[n], readable[generations[n].shelf])'
    <3>1. PICK g, here, there : /\ g = generations[n] /\ here = readable[generations[n].shelf]
                                /\ there = readable'[generations[n].shelf]
      OBVIOUS
    <3>2. g \in Generation /\ here \in Reading /\ there \in Reading /\ \A y \in Content : here[y] <= there[y]
      BY <1>2, <1>7, <2>1, <2>3, <3>1, GenerationParts
    <3>3. Progressing(g, here) BY <2>1, <3>1 DEF Sound
    <3>4. Progressing(g, there) BY <2>1, <3>2, <3>3, StillReads
    <3> QED BY <1>1, <2>4, <3>1, <3>4 DEF Progressing
  <2> QED BY <1>1, <2>1, <2>5 DEF Sound
<1>9. Ids' = Ids BY <1>1 DEF Ids
<1>10. \A t \in Tabs : Waits(t)' /\ Shows(t)'
  BY <1>1, <1>9 DEF GenerationInv, Waits, Shows, Expected
<1>11. GenerationShape' BY <1>1, <1>7, <1>9 DEF GenerationInv, GenerationShape
<1> QED BY <1>8, <1>9, <1>10, <1>11 DEF GenerationInv

\* A function on the indexes of a sequence is one.
LEMMA FunctionIsSeq ==
  ASSUME NEW S, NEW k \in Nat, NEW f \in [1..k -> S]
  PROVE  f \in Seq(S) /\ Len(f) = k
<1>1. f \in Seq(S) OBVIOUS
<1>2. DOMAIN f = 1..k OBVIOUS
<1> QED BY <1>1, <1>2, LenProperties

\* What was registered is aborted.
LEMMA CloseKeeps ==
  ASSUME GenerationInv, CloseGenerations PROVE GenerationInv'
<1>1. /\ ~aiClosed /\ aiClosed' = TRUE /\ registered' = {} /\ UNCHANGED <<flavor, aiTabs, readable>>
      /\ generations' = [n \in Ids |-> [generations[n] EXCEPT !.aborted = @ \/ n \in registered]]
  BY DEF CloseGenerations
<1>2. ASSUME NEW n \in Ids
      PROVE  /\ generations'[n] \in Generation /\ Since(n) /\ (n \in registered => generations'[n].aborted)
             /\ generations'[n].gone = generations[n].gone /\ generations'[n].used = generations[n].used
             /\ generations'[n].again = generations[n].again /\ generations'[n].answered = generations[n].answered
  <2>1. PICK h, g : h = generations[n] /\ g = generations'[n] OBVIOUS
  <2>2. h \in Generation BY <2>1, GenerationParts
  <2>3. g = [h EXCEPT !.aborted = @ \/ n \in registered] BY <1>1, <2>1
  <2>4. /\ g \in Generation /\ g.aborted = (h.aborted \/ n \in registered)
        /\ g.tab = h.tab /\ g.shelf = h.shelf /\ g.step = h.step /\ g.missed = h.missed
        /\ g.gone = h.gone /\ g.used = h.used /\ g.again = h.again /\ g.answered = h.answered
    BY <2>2, <2>3 DEF Generation
  <2> QED BY <2>1, <2>4 DEF Since
<1>3. Len(generations) \in Nat /\ Ids = 1..Len(generations)
  BY LenProperties DEF GenerationInv, GenerationShape, Ids
<1>4. generations' \in [1..Len(generations) -> Generation] BY <1>1, <1>2, <1>3
<1>5. generations' \in Seq(Generation) BY <1>3, <1>4, FunctionIsSeq
<1>6. Ids' = Ids BY <1>3, <1>4 DEF Ids
<1>7. ASSUME NEW n \in Ids PROVE Sound(n)'
  <2>1. Sound(n) /\ ReadFirst' = ReadFirst BY <1>1 DEF GenerationInv, ReadFirst
  <2>2. Progressing(generations[n], readable[generations[n].shelf])'
    BY <1>1, <1>2, <2>1 DEF Sound, Progressing, Since
  <2>3. generations'[n].step = "answering" => generations'[n].aborted
    BY <1>1, <1>2, <2>1 DEF Sound, Since, Active
  <2> QED BY <1>1, <2>2, <2>3 DEF Sound
<1>8. \A t \in Tabs : Waits(t)' /\ Shows(t)' BY <1>1, <1>2, <1>6, TabsStay
<1>9. GenerationShape' BY <1>1, <1>5, <1>6 DEF GenerationInv, GenerationShape
<1> QED BY <1>6, <1>7, <1>8, <1>9 DEF GenerationInv

\* A new generation is of what its tab shows.
LEMMA GenerateKeeps ==
  ASSUME GenerationInv, NEW t \in Tabs, Generate(t) PROVE GenerationInv'
<1>1. PICK step \in {"failed", "status"} :
        generations' = Append(generations,
          [tab |-> t, shelf |-> aiTabs[t].shelf, step |-> step,
           aborted |-> FALSE, gone |-> FALSE, used |-> Unread, again |-> 0, answered |-> Unread, missed |-> FALSE])
  BY DEF Generate
<1>2. UNCHANGED <<flavor, registered, aiClosed, readable>> /\ aiTabs' = [aiTabs EXCEPT ![t].request = Len(generations) + 1]
  BY DEF Generate
<1>3. /\ generations \in Seq(Generation) /\ aiTabs \in [Tabs -> [shelf : Shelves, request : Nat, box : Nat]]
      /\ Len(generations) \in Nat /\ Ids = 1..Len(generations)
  BY LenProperties DEF GenerationInv, GenerationShape, Ids
<1>4. PICK k \in Nat : k = Len(generations) BY <1>3
<1>5. PICK g : g = [tab |-> t, shelf |-> aiTabs[t].shelf, step |-> step,
                    aborted |-> FALSE, gone |-> FALSE, used |-> Unread, again |-> 0, answered |-> Unread, missed |-> FALSE]
  OBVIOUS
<1>6. g \in Generation /\ g.tab = t /\ g.shelf = aiTabs[t].shelf /\ g.step = step /\ g.aborted = FALSE
  <2>1. Unread \in Reading BY GenerationsAssumption DEF Unread, Reading
  <2>2. MaxEdits \in Nat BY GenerationsAssumption
  <2>3. 0 \in 0..MaxEdits /\ step \in Steps /\ aiTabs[t].shelf \in Shelves
    <3>1. step \in Steps BY DEF Steps, Ended
    <3>2. aiTabs[t].shelf \in Shelves BY <1>3
    <3> QED BY <2>2, <3>1, <3>2
  <2> QED BY <1>5, <2>1, <2>3 DEF Generation
<1>7. generations' = Append(generations, g) BY <1>1, <1>5
<1>8. /\ generations' \in Seq(Generation) /\ Len(generations') = k + 1
      /\ \A i \in 1..k : generations'[i] = generations[i]
      /\ generations'[k + 1] = g
  BY <1>3, <1>4, <1>6, <1>7, AppendProperties
<1>9. Ids' = 1..(k + 1) /\ Ids = 1..k /\ Ids' = Ids \cup {k + 1} /\ k + 1 \notin Ids
  BY <1>3, <1>4, <1>8, LenProperties DEF Ids
<1>10. registered \subseteq Ids BY DEF GenerationInv, GenerationShape
<1>11. ASSUME NEW n \in Ids' PROVE Sound(n)'
  <2>1. ReadFirst' = ReadFirst BY <1>2 DEF ReadFirst
  <2>2. CASE n \in Ids
    <3>1. Sound(n) /\ generations'[n] = generations[n] BY <1>8, <1>9, <2>2 DEF GenerationInv
    <3> QED BY <1>2, <2>1, <3>1 DEF Sound, Progressing
  <2>3. CASE n = k + 1 BY <1>2, <1>6, <1>8, <1>9, <1>10, <2>3 DEF Sound, Progressing, Active
  <2> QED BY <1>9, <2>2, <2>3
<1>12. /\ aiTabs' \in [Tabs -> [shelf : Shelves, request : Nat, box : Nat]]
       /\ aiTabs'[t].shelf = aiTabs[t].shelf /\ aiTabs'[t].box = aiTabs[t].box /\ aiTabs'[t].request = k + 1
       /\ \A q \in Tabs : q # t => aiTabs'[q] = aiTabs[q]
  BY <1>2, <1>3, <1>4
<1>13. ASSUME NEW q \in Tabs PROVE Waits(q)' /\ Shows(q)'
  <2>1. Waits(q) /\ Shows(q) BY DEF GenerationInv
  <2>2. Shows(q)'
    <3>1. aiTabs'[q].shelf = aiTabs[q].shelf /\ aiTabs'[q].box = aiTabs[q].box BY <1>12
    <3> QED BY <1>2, <1>8, <1>9, <2>1, <3>1 DEF Shows
  <2>3. Waits(q)'
    <3>1. CASE q = t
      <4>1. g.step # "over" BY <1>6
      <4>2. generations'[k + 1].shelf = aiTabs'[t].shelf BY <1>6, <1>8, <1>12
      <4> QED BY <1>6, <1>8, <1>9, <1>12, <3>1, <4>1, <4>2 DEF Waits, Expected
    <3>2. CASE q # t BY <1>2, <1>8, <1>9, <1>12, <2>1, <3>2 DEF Waits, Expected
    <3> QED BY <3>1, <3>2
  <2> QED BY <2>2, <2>3
<1>14. GenerationShape' BY <1>2, <1>8, <1>9, <1>10, <1>12 DEF GenerationInv, GenerationShape
<1> QED BY <1>11, <1>13, <1>14 DEF GenerationInv

LEMMA GenerationsBegin == GenerationsInit => GenerationInv
<1> HAVE GenerationsInit
<1>1. Ids = {} /\ registered = {} BY DEF GenerationsInit, Ids
<1>2. Unread \in Reading BY GenerationsAssumption DEF Unread, Reading
<1>3. GenerationShape
  <2>1. readable \in [Shelves -> Reading] BY <1>2 DEF GenerationsInit
  <2>2. aiTabs \in [Tabs -> [shelf : Shelves, request : Nat, box : Nat]] BY DEF GenerationsInit
  <2>3. generations \in Seq(Generation) BY EmptySeq DEF GenerationsInit
  <2> QED BY <1>1, <2>1, <2>2, <2>3 DEF GenerationsInit, GenerationShape
<1>4. \A t \in Tabs : aiTabs[t].request = 0 /\ aiTabs[t].box = 0 BY DEF GenerationsInit
<1> QED BY <1>1, <1>3, <1>4 DEF GenerationInv, Waits, Shows

LEMMA GenerationsStep == GenerationInv /\ [GenerationsNext]_aiVars => GenerationInv'
<1> SUFFICES ASSUME GenerationInv, [GenerationsNext]_aiVars PROVE GenerationInv'
  OBVIOUS
<1>1. CASE SomethingChanges \/ CloseGenerations BY <1>1, ChangesKeep, CloseKeeps
<1>2. CASE \E t \in Tabs : Generate(t) \/ CancelGeneration(t) \/ ShowOther(t)
  BY <1>2, GenerateKeeps, CancelKeeps, ShowOtherKeeps
<1>3. CASE \E n \in Ids : StatusKnown(n) \/ StatusRefuses(n) \/ Reads(n) \/ StartProgram(n) \/ ProgramAnswers(n)
  BY <1>3, StatusKnownKeeps, StatusRefusesKeeps, ReadsKeeps, StartKeeps, AnswersKeeps
<1>4. CASE \E n \in Ids : ProgramKilled(n) \/ GenerationFails(n) \/ ReadsInstructionsAgain(n) \/ Abandoned(n) \/ Delivered(n)
  BY <1>4, KilledKeeps, AgainKeeps, AbandonedKeeps, DeliveredKeeps
<1>5. CASE UNCHANGED aiVars
  BY <1>5 DEF aiVars, GenerationInv, GenerationShape, Sound, Progressing, Waits, Shows, Expected, Ids, ReadFirst
<1> QED BY <1>1, <1>2, <1>3, <1>4, <1>5 DEF GenerationsNext

\* A result is of what there was when the model answered and is shown only for what it was asked
\* for, a cancelled generation gives none, no program outlives close, and nothing stays registered
\* (CommitMessageService.ts, PullRequestDraftService.ts), for any tabs, repositories and versions.
THEOREM GenerationsStayCurrent == GenerationsSpec => []GenerationsHold
<1>1. GenerationInv => GenerationsHold
  <2> SUFFICES ASSUME GenerationInv PROVE GenerationsHold
    OBVIOUS
  <2>1. ResultsAreCurrent /\ CancelledIsCancelled
    BY DEF GenerationInv, Sound, Progressing, ResultsAreCurrent, CancelledIsCancelled, Is
  <2>2. ShownIsAskedFor BY DEF GenerationInv, Shows, ShownIsAskedFor
  <2>3. NoProgramAfterClose BY DEF GenerationInv, Sound, NoProgramAfterClose, Is, Aborted
  <2>4. FreeAfterwards
    <3>1. \A n \in registered : n \in Ids BY DEF GenerationInv, GenerationShape
    <3> QED BY <3>1 DEF GenerationInv, Sound, FreeAfterwards, Active, Ended
  <2> QED BY <2>1, <2>2, <2>3, <2>4 DEF GenerationsHold
<1> QED BY <1>1, GenerationsBegin, GenerationsStep, PTL DEF GenerationsSpec

------------------------------
(* Actions on pull requests.  Commits are numbered as they are pushed: a *)
(* pull request whose branch is where it was read is where it was read. *)

Branch == Nat \cup {NoBranch}

PullRequest == [state : PullRequestState, draft : BOOLEAN, queued : BOOLEAN, auto : BOOLEAN, head : Nat,
                branch : Branch, status : Status, text : Nat]

\* The branch has what the pull request has, and perhaps more.
BranchHas(p) == p.branch # NoBranch => p.head <= p.branch

\* p is later than q.
IsLater(q, p) ==
  /\ p \in PullRequest /\ BranchHas(p) /\ q.head <= p.head
  /\ q.state = "MERGED" => p.state = "MERGED"

ActionShape ==
  /\ pr \in PullRequest /\ mergeQueue \in BOOLEAN /\ others \in 0..MaxOthers /\ actions \in 0..MaxActions
  /\ removed \in BOOLEAN /\ blindly \in BOOLEAN
  /\ op.stage \in Stage
  /\ op.stage = "none" => op.outcome \in Outcome /\ op.branchDeleted \in BOOLEAN
  /\ op.stage # "none" => op.action \in PullRequestAction /\ op.seen \in PullRequest

ActionInv ==
  /\ ActionShape
  /\ BranchHas(pr)
  /\ op.stage \in {"checked", "removing"} => op.read.head \in Nat /\ op.read.head <= pr.head
  /\ op.stage = "checked" /\ op.action # "edit" => op.read.head = op.seen.head
  /\ op.stage = "removing" => op.action = "merge" /\ op.outcome = "merged" /\ pr.state = "MERGED"
  /\ op.stage # "none" /\ pr.branch = NoBranch => removed
  /\ unseen = FALSE /\ lost = FALSE

\* One step of the action tells the truth.
Truthful ==
  /\ op'.stage = "none" /\ op.stage # "none" /\ op'.outcome = "merged" => pr'.state = "MERGED"
  /\ op'.stage = "none" /\ op.stage # "none" /\ op'.outcome = "queued" => pr.queued
  /\ op'.stage = "none" /\ op.stage # "none" /\ op'.branchDeleted => removed'
  /\ op'.stage = "none" /\ op.stage \in {"executed", "removing"} => op'.outcome # "failed"

\* A change of one flag, of the status or of the text keeps the commits where they are.
LEMMA FlagsAreLater ==
  ASSUME NEW q \in PullRequest, BranchHas(q)
  PROVE  /\ \A b \in BOOLEAN : /\ IsLater(q, [q EXCEPT !.draft = b]) /\ [q EXCEPT !.draft = b].branch = q.branch
                               /\ IsLater(q, [q EXCEPT !.queued = b]) /\ [q EXCEPT !.queued = b].branch = q.branch
                               /\ IsLater(q, [q EXCEPT !.auto = b]) /\ [q EXCEPT !.auto = b].branch = q.branch
         /\ \A s \in Status : IsLater(q, [q EXCEPT !.status = s]) /\ [q EXCEPT !.status = s].branch = q.branch
         /\ IsLater(q, [q EXCEPT !.text = @ + 1]) /\ [q EXCEPT !.text = @ + 1].branch = q.branch
<1> USE DEF PullRequest, IsLater, BranchHas
<1>1. ASSUME NEW b \in BOOLEAN
      PROVE  /\ IsLater(q, [q EXCEPT !.draft = b]) /\ [q EXCEPT !.draft = b].branch = q.branch
             /\ IsLater(q, [q EXCEPT !.queued = b]) /\ [q EXCEPT !.queued = b].branch = q.branch
             /\ IsLater(q, [q EXCEPT !.auto = b]) /\ [q EXCEPT !.auto = b].branch = q.branch
  OBVIOUS
<1>2. ASSUME NEW s \in Status PROVE IsLater(q, [q EXCEPT !.status = s]) /\ [q EXCEPT !.status = s].branch = q.branch
  OBVIOUS
<1>3. ASSUME NEW t \in Nat PROVE IsLater(q, [q EXCEPT !.text = t]) /\ [q EXCEPT !.text = t].branch = q.branch
  OBVIOUS
<1>4. [q EXCEPT !.text = @ + 1] = [q EXCEPT !.text = q.text + 1] /\ q.text + 1 \in Nat OBVIOUS
<1> QED BY <1>1, <1>2, <1>3, <1>4, Zenon

\* Merging, closing and reopening.
LEMMA StatesAreLater ==
  ASSUME NEW q \in PullRequest, BranchHas(q)
  PROVE  /\ IsLater(q, Merge(q)) /\ Merge(q).branch = q.branch /\ Merge(q).head = q.head
         /\ Close(q) \in PullRequest /\ Close(q).branch = q.branch /\ Close(q).head = q.head
         /\ q.state = "OPEN" => IsLater(q, Close(q))
         /\ q.state = "CLOSED" /\ q.branch # NoBranch =>
              /\ IsLater(q, [q EXCEPT !.state = "OPEN", !.head = q.branch])
              /\ [q EXCEPT !.state = "OPEN", !.head = q.branch].branch = q.branch
<1> USE DEF PullRequest, IsLater, BranchHas
<1>1. "MERGED" \in PullRequestState /\ "CLOSED" \in PullRequestState /\ "OPEN" \in PullRequestState
  BY DEF PullRequestState
<1>2. Merge(q) \in PullRequest /\ Merge(q).state = "MERGED" /\ Merge(q).branch = q.branch /\ Merge(q).head = q.head
  BY <1>1 DEF Merge
<1>3. Close(q) \in PullRequest /\ Close(q).branch = q.branch /\ Close(q).head = q.head
  BY <1>1 DEF Close
<1>4. ASSUME q.branch # NoBranch PROVE q.branch \in Nat BY <1>4 DEF Branch
<1>5. ASSUME NEW h \in Nat
      PROVE  /\ [q EXCEPT !.state = "OPEN", !.head = h] \in PullRequest
             /\ [q EXCEPT !.state = "OPEN", !.head = h].head = h
             /\ [q EXCEPT !.state = "OPEN", !.head = h].branch = q.branch
  <2>1. PICK p \in PullRequest : p = [q EXCEPT !.state = "OPEN"] BY <1>1
  <2>2. [p EXCEPT !.head = h] \in PullRequest OBVIOUS
  <2>3. [q EXCEPT !.state = "OPEN", !.head = h] = [p EXCEPT !.head = h] BY <2>1
  <2> QED BY <2>1, <2>2, <2>3
<1>6. IsLater(q, Merge(q)) /\ (q.state = "OPEN" => IsLater(q, Close(q))) BY <1>2, <1>3
<1>7. ASSUME q.state = "CLOSED", q.branch # NoBranch
      PROVE  /\ IsLater(q, [q EXCEPT !.state = "OPEN", !.head = q.branch])
             /\ [q EXCEPT !.state = "OPEN", !.head = q.branch].branch = q.branch
  <2>1. q.branch \in Nat /\ q.head <= q.branch BY <1>4, <1>7
  <2>2. PICK p : p = [q EXCEPT !.state = "OPEN", !.head = q.branch] OBVIOUS
  <2>3. p \in PullRequest /\ p.head = q.branch /\ p.branch = q.branch BY <1>5, <2>1, <2>2
  <2>4. IsLater(q, p) BY <1>7, <2>1, <2>3
  <2> QED BY <2>2, <2>3, <2>4
<1> HIDE DEF PullRequest, IsLater, BranchHas
<1> QED BY <1>2, <1>3, <1>6, <1>7

\* Pushing to the branch, and removing it.
LEMMA BranchesAreLater ==
  ASSUME NEW q \in PullRequest, BranchHas(q)
  PROVE  /\ \A s \in Status, n \in Nat : q.head <= n /\ q.state = "OPEN" =>
              IsLater(q, [q EXCEPT !.head = n, !.branch = n, !.queued = FALSE, !.status = s])
         /\ \A s \in Status, n \in Nat : q.head <= n =>
              IsLater(q, [q EXCEPT !.head = n, !.branch = n, !.status = s])
         /\ \A n \in Nat : q.head <= n => IsLater(q, [q EXCEPT !.branch = n])
         /\ LET p == [(IF q.state = "OPEN" THEN Close(q) ELSE q) EXCEPT !.branch = NoBranch]
            IN  IsLater(q, p) /\ p.branch = NoBranch
<1> USE DEF PullRequest, IsLater, BranchHas
<1>1. ASSUME NEW n \in Nat PROVE n \in Branch BY DEF Branch
<1>2. ASSUME NEW n \in Nat, NEW s \in Status, q.head <= n
      PROVE  /\ IsLater(q, [q EXCEPT !.head = n, !.branch = n, !.queued = FALSE, !.status = s])
             /\ IsLater(q, [q EXCEPT !.head = n, !.branch = n, !.status = s])
  <2>1. PICK p \in PullRequest : p = [q EXCEPT !.head = n, !.branch = n] BY <1>1
  <2>2. [p EXCEPT !.status = s] \in PullRequest /\ [p EXCEPT !.queued = FALSE, !.status = s] \in PullRequest
    OBVIOUS
  <2>3. /\ [q EXCEPT !.head = n, !.branch = n, !.queued = FALSE, !.status = s] = [p EXCEPT !.queued = FALSE, !.status = s]
        /\ [q EXCEPT !.head = n, !.branch = n, !.status = s] = [p EXCEPT !.status = s]
    BY <2>1
  <2> QED BY <1>2, <2>1, <2>2, <2>3
<1>3. ASSUME NEW n \in Nat, q.head <= n PROVE IsLater(q, [q EXCEPT !.branch = n]) BY <1>1, <1>3
<1>4. ASSUME NEW p \in PullRequest, p.head = q.head, q.state = "MERGED" => p.state = "MERGED"
      PROVE  IsLater(q, [p EXCEPT !.branch = NoBranch]) /\ [p EXCEPT !.branch = NoBranch].branch = NoBranch
  <2>1. NoBranch \in Branch BY DEF Branch
  <2> QED BY <1>4, <2>1
<1>5. Close(q) \in PullRequest /\ Close(q).head = q.head BY StatesAreLater
<1>6. CASE q.state = "OPEN" BY <1>2, <1>3, <1>4, <1>5, <1>6
<1>7. CASE q.state # "OPEN" BY <1>2, <1>3, <1>4, <1>7
<1> QED BY <1>6, <1>7

\* What GitHub does when it is asked, with the head that is named.
LEMMA EffectIsLater ==
  ASSUME pr \in PullRequest, BranchHas(pr), mergeQueue \in BOOLEAN, NEW action \in PullRequestAction, NEW head \in Nat,
         NEW p \in Effect(pr, action, head)
  PROVE  /\ IsLater(pr, p)
         /\ action \in {"merge", "enable-auto-merge", "update-branch"} => pr.head = head
         /\ action = "delete-branch" => pr.branch = head /\ p.branch = NoBranch
         /\ p.branch = NoBranch => pr.branch = NoBranch \/ action = "delete-branch"
<1>1. CASE action = "merge" /\ ~mergeQueue
  <2>1. p = Merge(pr) /\ pr.head = head BY <1>1 DEF Effect
  <2> QED BY <1>1, <2>1, StatesAreLater
<1>2. CASE action = "merge" /\ mergeQueue
  <2>1. p \in {[pr EXCEPT !.queued = TRUE], [pr EXCEPT !.auto = TRUE]} /\ pr.head = head
    BY <1>2 DEF Effect
  <2> QED BY <1>2, <2>1, FlagsAreLater
<1>3. CASE action = "enable-auto-merge"
  <2>1. p = [pr EXCEPT !.auto = TRUE] /\ pr.head = head BY <1>3 DEF Effect
  <2> QED BY <1>3, <2>1, FlagsAreLater
<1>4. CASE action = "disable-auto-merge"
  <2>1. p = [pr EXCEPT !.auto = FALSE] BY <1>4 DEF Effect
  <2> QED BY <1>4, <2>1, FlagsAreLater
<1>5. CASE action = "update-branch"
  <2>1. PICK s \in Status : p = [pr EXCEPT !.head = head + 1, !.branch = head + 1, !.status = s]
    BY <1>5 DEF Effect
  <2>2. pr.head = head BY <1>5 DEF Effect
  <2>3. IsLater(pr, p)
    <3>1. head + 1 \in Nat /\ pr.head <= head + 1 BY <2>2
    <3> QED BY <2>1, <3>1, BranchesAreLater
  <2>4. p.branch = head + 1 /\ head + 1 # NoBranch BY <2>1, ActionsAssumption DEF PullRequest
  <2> QED BY <1>5, <2>2, <2>3, <2>4
<1>6. CASE action = "delete-branch"
  <2>1. p = [(IF pr.state = "OPEN" THEN Close(pr) ELSE pr) EXCEPT !.branch = NoBranch] /\ pr.branch = head
    BY <1>6 DEF Effect
  <2> QED BY <1>6, <2>1, BranchesAreLater
<1>7. CASE action \in {"ready", "draft"}
  <2>1. PICK b \in BOOLEAN : p = [pr EXCEPT !.draft = b] BY <1>7 DEF Effect
  <2> QED BY <1>7, <2>1, FlagsAreLater
<1>8. CASE action = "close"
  <2>1. p = Close(pr) /\ pr.state = "OPEN" BY <1>8 DEF Effect
  <2> QED BY <1>8, <2>1, StatesAreLater
<1>9. CASE action = "reopen"
  <2>1. p = [pr EXCEPT !.state = "OPEN", !.head = pr.branch] /\ pr.state = "CLOSED" /\ pr.branch # NoBranch
    BY <1>9 DEF Effect
  <2> QED BY <1>9, <2>1, StatesAreLater
<1>10. CASE action = "review"
  <2>1. p = pr BY <1>10 DEF Effect
  <2> QED BY <1>10, <2>1 DEF IsLater, PullRequest
<1>11. CASE action = "edit"
  <2>1. p = [pr EXCEPT !.text = @ + 1] BY <1>11 DEF Effect
  <2> QED BY <1>11, <2>1, FlagsAreLater
<1> QED BY <1>1, <1>2, <1>3, <1>4, <1>5, <1>6, <1>7, <1>8, <1>9, <1>10, <1>11 DEF PullRequestAction

\* And what others do to it.
LEMMA OthersAreLater ==
  ASSUME ActionInv, OthersAct
  PROVE  IsLater(pr, pr')
<1>1. pr \in PullRequest /\ BranchHas(pr) BY DEF ActionInv, ActionShape
<1>2. ASSUME NEW status \in Status, pr.branch # NoBranch,
             pr' = IF pr.state = "OPEN"
                   THEN [pr EXCEPT !.head = pr.branch + 1, !.branch = pr.branch + 1, !.queued = FALSE, !.status = status]
                   ELSE [pr EXCEPT !.branch = pr.branch + 1]
      PROVE  IsLater(pr, pr')
  <2>1. pr.branch + 1 \in Nat /\ pr.head <= pr.branch + 1
    BY <1>1, <1>2 DEF PullRequest, Branch, BranchHas
  <2>2. CASE pr.state = "OPEN" BY <1>1, <1>2, <2>1, <2>2, BranchesAreLater
  <2>3. CASE pr.state # "OPEN" BY <1>1, <1>2, <2>1, <2>3, BranchesAreLater
  <2> QED BY <2>2, <2>3
<1>3. ASSUME NEW status \in Status, pr' = [pr EXCEPT !.status = status] PROVE IsLater(pr, pr')
  BY <1>1, <1>3, FlagsAreLater
<1>4. ASSUME pr.state = "OPEN", pr' = Merge(pr) \/ pr' = Close(pr) PROVE IsLater(pr, pr')
  BY <1>1, <1>4, StatesAreLater
<1>5. ASSUME pr.state = "CLOSED", pr.branch # NoBranch, pr' = [pr EXCEPT !.state = "OPEN", !.head = pr.branch]
      PROVE  IsLater(pr, pr')
  BY <1>1, <1>5, StatesAreLater
<1>6. ASSUME pr' = [(IF pr.state = "OPEN" THEN Close(pr) ELSE pr) EXCEPT !.branch = NoBranch] PROVE IsLater(pr, pr')
  BY <1>1, <1>6, BranchesAreLater
<1>7. ASSUME \/ pr' = [pr EXCEPT !.draft = ~pr.draft] \/ pr' = [pr EXCEPT !.auto = ~pr.auto]
             \/ pr' = [pr EXCEPT !.text = @ + 1]
      PROVE  IsLater(pr, pr')
  <2>1. (~pr.draft) \in BOOLEAN /\ (~pr.auto) \in BOOLEAN OBVIOUS
  <2> QED BY <1>1, <1>7, <2>1, FlagsAreLater
<1> QED BY <1>2, <1>3, <1>4, <1>5, <1>6, <1>7 DEF OthersAct

LEMMA ActionsBegin == ActionsInit => ActionInv
<1> SUFFICES ASSUME ActionsInit PROVE ActionInv
  OBVIOUS
<1> USE ActionsAssumption DEF ActionsInit, ActionEnded
<1>1. pr \in PullRequest /\ BranchHas(pr)
  <2>1. "OPEN" \in PullRequestState /\ 0 \in Branch /\ 0 \in Nat BY DEF PullRequestState, Branch
  <2>2. pr \in PullRequest BY <2>1 DEF PullRequest
  <2>3. pr.head = 0 /\ pr.branch = 0 OBVIOUS
  <2> QED BY <2>2, <2>3 DEF BranchHas
<1>2. op.stage = "none" /\ op.outcome = "none" /\ op.branchDeleted = FALSE OBVIOUS
<1>3. others \in 0..MaxOthers /\ actions \in 0..MaxActions OBVIOUS
<1> QED BY <1>1, <1>2, <1>3 DEF ActionInv, ActionShape, Stage, Outcome

\* Others push, merge, close or remove between any two steps.
LEMMA OthersKeep ==
  ASSUME ActionInv, OthersAct
  PROVE  ActionInv' /\ Truthful
<1>1. IsLater(pr, pr') BY OthersAreLater
<1>2. op' = op /\ mergeQueue' = mergeQueue /\ actions' = actions /\ blindly' = blindly /\ unseen' = unseen /\ lost' = lost
  BY DEF OthersAct
<1>3. removed' = (removed \/ pr'.branch = NoBranch) BY DEF OthersAct
<1>4. others' \in 0..MaxOthers
  <2>1. others < MaxOthers /\ others' = others + 1 BY DEF OthersAct
  <2> QED BY <2>1, ActionsAssumption DEF ActionInv, ActionShape
<1>5. ActionShape' BY <1>1, <1>2, <1>3, <1>4 DEF ActionInv, ActionShape, IsLater
<1>6. BranchHas(pr)' BY <1>1 DEF IsLater, BranchHas
<1>7. op.stage \in {"checked", "removing"} => op.read.head <= pr'.head
  BY <1>1 DEF ActionInv, ActionShape, IsLater, PullRequest
<1>8. op.stage = "removing" => pr'.state = "MERGED" BY <1>1 DEF ActionInv, IsLater
<1> QED BY <1>2, <1>3, <1>5, <1>6, <1>7, <1>8 DEF ActionInv, Truthful

\* The user asks, the checks pass or not: nothing happens at GitHub.
LEMMA AskingKeeps ==
  ASSUME ActionInv, BeginAction \/ Check \/ Refuse
  PROVE  ActionInv' /\ Truthful
<1>1. CASE BeginAction
  <2>1. PICK action \in PullRequestAction, deleteBranch \in BOOLEAN :
          op' = [stage |-> "begun", action |-> action, deleteBranch |-> deleteBranch, seen |-> pr]
    BY <1>1 DEF BeginAction
  <2>2. op'.stage = "begun" /\ op'.action = action /\ op'.seen = pr BY <2>1
  <2>3. /\ pr' = pr /\ mergeQueue' = mergeQueue /\ others' = others /\ unseen' = unseen /\ lost' = lost
        /\ blindly' = blindly /\ removed' = (pr.branch = NoBranch) /\ op.stage = "none"
    BY <1>1 DEF BeginAction
  <2>4. actions' \in 0..MaxActions
    BY <1>1, ActionsAssumption DEF BeginAction, ActionInv, ActionShape
  <2>5. ActionShape' BY <2>2, <2>3, <2>4 DEF ActionInv, ActionShape, Stage
  <2> QED BY <2>2, <2>3, <2>5 DEF ActionInv, BranchHas, Truthful
<1>2. ASSUME op' = ActionEnded("failed", FALSE), op.stage \in {"begun", "checked"},
             UNCHANGED <<pr, mergeQueue, others, actions, removed, unseen, lost, blindly>>
      PROVE  ActionInv' /\ Truthful
  <2>1. op'.stage = "none" /\ op'.outcome = "failed" /\ op'.branchDeleted = FALSE
    BY <1>2 DEF ActionEnded
  <2>2. ActionShape' BY <1>2, <2>1 DEF ActionInv, ActionShape, Stage, Outcome
  <2> QED BY <1>2, <2>1, <2>2 DEF ActionInv, BranchHas, Truthful
<1>3. CASE Check
  <2> DEFINE gone == op.action = "delete-branch" /\ pr.state # "OPEN" /\ pr.branch = NoBranch
  <2>1. op.stage = "begun" /\ UNCHANGED <<pr, mergeQueue, others, actions, removed, unseen, lost, blindly>>
    BY <1>3 DEF Check
  <2>2. CASE gone
    <3>1. op' = ActionEnded("done", TRUE) BY <1>3, <2>2 DEF Check, EndAction
    <3>2. op'.stage = "none" /\ op'.outcome = "done" /\ op'.branchDeleted = TRUE
      BY <3>1 DEF ActionEnded
    <3>3. removed BY <2>1, <2>2 DEF ActionInv
    <3>4. ActionShape' BY <2>1, <3>2 DEF ActionInv, ActionShape, Stage, Outcome
    <3> QED BY <2>1, <3>2, <3>3, <3>4 DEF ActionInv, BranchHas, Truthful
  <2>3. CASE ~gone /\ StillSeen(pr, op) /\ Allowed(pr, op.action)
    <3>1. op' = [stage |-> "checked", action |-> op.action, deleteBranch |-> op.deleteBranch, seen |-> op.seen, read |-> pr]
      BY <1>3, <2>3 DEF Check
    <3>2. op'.stage = "checked" /\ op'.action = op.action /\ op'.seen = op.seen /\ op'.read = pr
      BY <3>1
    <3>3. op.action # "edit" => pr.head = op.seen.head BY <2>3 DEF StillSeen
    <3>4. pr.head \in Nat /\ pr.head <= pr.head BY DEF ActionInv, ActionShape, PullRequest
    <3>5. ActionShape' BY <2>1, <3>2 DEF ActionInv, ActionShape, Stage
    <3> QED BY <2>1, <3>2, <3>3, <3>4, <3>5 DEF ActionInv, BranchHas, Truthful
  <2>4. CASE ~gone /\ ~(StillSeen(pr, op) /\ Allowed(pr, op.action))
    BY <1>2, <1>3, <2>1, <2>4 DEF Check, EndAction
  <2> QED BY <2>2, <2>3, <2>4
<1>4. CASE Refuse BY <1>2, <1>4 DEF Refuse, EndAction
<1> QED BY <1>1, <1>3, <1>4

\* What a request that was checked does at GitHub, whether its answer arrives or not.
LEMMA RequestKeeps ==
  ASSUME ActionInv, op.stage = "checked",
         NEW p \in Effect(pr, op.action, HeadSent(op)), pr' = p, Records(op.action, p)
  PROVE  /\ pr' \in PullRequest /\ BranchHas(pr') /\ removed' \in BOOLEAN /\ blindly' \in BOOLEAN
         /\ unseen' = FALSE /\ lost' = FALSE /\ (pr'.branch = NoBranch => removed')
<1>1. op.read.head \in Nat /\ op.read.head <= pr.head /\ op.action \in PullRequestAction
  BY DEF ActionInv, ActionShape
<1>2. pr \in PullRequest /\ BranchHas(pr) /\ mergeQueue \in BOOLEAN BY DEF ActionInv, ActionShape
<1>3. /\ IsLater(pr, p)
      /\ op.action \in {"merge", "enable-auto-merge", "update-branch"} => pr.head = op.read.head
      /\ op.action = "delete-branch" => pr.branch = op.read.head
  BY <1>1, <1>2, EffectIsLater DEF HeadSent
<1>4. op.action = "delete-branch" => pr.head = op.read.head /\ pr.branch = pr.head
  BY <1>1, <1>2, <1>3, ActionsAssumption DEF BranchHas, PullRequest
<1>5. op.action \in NamesItsHead => pr.head = op.seen.head BY <1>3, <1>4 DEF NamesItsHead, ActionInv
<1>6. unseen = FALSE /\ lost = FALSE /\ removed \in BOOLEAN /\ blindly \in BOOLEAN
  BY DEF ActionInv, ActionShape
<1>7. unseen' = FALSE BY <1>5, <1>6 DEF Records
<1>8. lost' = FALSE BY <1>4, <1>6 DEF Records
<1>9. removed' \in BOOLEAN /\ blindly' \in BOOLEAN /\ (p.branch = NoBranch => removed')
  BY <1>6 DEF Records
<1> QED BY <1>3, <1>7, <1>8, <1>9 DEF IsLater

\* GitHub is asked: it does it, refuses, or does it and its answer is lost.
LEMMA AskingGitHubKeeps ==
  ASSUME ActionInv, Execute \/ ExecuteFails
  PROVE  ActionInv' /\ Truthful
<1>1. op.stage = "checked" /\ UNCHANGED <<mergeQueue, others, actions>> BY DEF Execute, ExecuteFails
<1>2. CASE Execute
  <2>1. PICK p \in Effect(pr, op.action, HeadSent(op)) :
          /\ pr' = p /\ Records(op.action, p)
          /\ IF op.action \in {"review", "edit"} THEN EndAction("done", FALSE)
             ELSE op' = [stage |-> "executed", action |-> op.action, deleteBranch |-> op.deleteBranch, seen |-> op.seen]
    BY <1>2 DEF Execute
  <2>2. /\ pr' \in PullRequest /\ BranchHas(pr') /\ removed' \in BOOLEAN /\ blindly' \in BOOLEAN
        /\ unseen' = FALSE /\ lost' = FALSE /\ (pr'.branch = NoBranch => removed')
    BY <1>1, <2>1, RequestKeeps
  <2>3. \/ op'.stage = "none" /\ op'.outcome = "done" /\ op'.branchDeleted = FALSE
        \/ op'.stage = "executed" /\ op'.action = op.action /\ op'.seen = op.seen
    BY <2>1 DEF EndAction, ActionEnded
  <2>4. ActionShape' BY <1>1, <2>2, <2>3 DEF ActionInv, ActionShape, Stage, Outcome
  <2> QED BY <1>1, <2>2, <2>3, <2>4 DEF ActionInv, BranchHas, Truthful
<1>3. CASE ExecuteFails
  <2>1. op'.stage = "none" /\ op'.outcome = "failed" /\ op'.branchDeleted = FALSE
    BY <1>3 DEF ExecuteFails, EndAction, ActionEnded
  <2>2. /\ pr' \in PullRequest /\ BranchHas(pr') /\ removed' \in BOOLEAN /\ blindly' \in BOOLEAN
        /\ unseen' = FALSE /\ lost' = FALSE
    <3>1. CASE UNCHANGED <<pr, removed, unseen, lost, blindly>>
      BY <3>1 DEF ActionInv, ActionShape, BranchHas
    <3>2. CASE \E p \in Effect(pr, op.action, HeadSent(op)) : pr' = p /\ Records(op.action, p)
      BY <1>1, <3>2, RequestKeeps
    <3> QED BY <1>3, <3>1, <3>2 DEF ExecuteFails
  <2>3. ActionShape' BY <1>1, <2>1, <2>2 DEF ActionInv, ActionShape, Stage, Outcome
  <2> QED BY <1>1, <2>1, <2>2, <2>3 DEF ActionInv, BranchHas, Truthful
<1> QED BY <1>2, <1>3

\* What happened is read, or cannot be.
LEMMA ReadingKeeps ==
  ASSUME ActionInv, ReadAfter \/ ReadAfterFails
  PROVE  ActionInv' /\ Truthful
<1>1. op.stage = "executed" /\ UNCHANGED <<pr, mergeQueue, others, actions, removed, unseen, lost, blindly>>
  BY DEF ReadAfter, ReadAfterFails
<1>2. ASSUME NEW outcome \in Outcome \ {"failed"}, op' = ActionEnded(outcome, FALSE),
             outcome = "merged" => pr.state = "MERGED", outcome = "queued" => pr.queued
      PROVE  ActionInv' /\ Truthful
  <2>1. op'.stage = "none" /\ op'.outcome = outcome /\ op'.branchDeleted = FALSE
    BY <1>2 DEF ActionEnded
  <2>2. ActionShape' BY <1>1, <1>2, <2>1 DEF ActionInv, ActionShape, Stage
  <2> QED BY <1>1, <1>2, <2>1, <2>2 DEF ActionInv, BranchHas, Truthful
<1>3. ASSUME NEW action
      PROVE  /\ OutcomeOf(action, pr) \in Outcome \ {"failed"}
             /\ OutcomeOf(action, pr) = "merged" => pr.state = "MERGED"
             /\ OutcomeOf(action, pr) = "queued" => pr.queued
  BY DEF OutcomeOf, Outcome
<1>4. CASE ReadAfterFails
  <2>1. op' = ActionEnded("unconfirmed", FALSE) /\ "unconfirmed" \in Outcome \ {"failed"}
    BY <1>4 DEF ReadAfterFails, EndAction, FailedRead, Outcome
  <2> QED BY <1>2, <2>1
<1>5. CASE ReadAfter
  <2>1. CASE op.action = "merge" /\ op.deleteBranch /\ pr.state = "MERGED" /\ BranchRemovable(pr)
    <3>1. op' = [stage |-> "removing", action |-> "merge", seen |-> op.seen, read |-> pr, outcome |-> OutcomeOf("merge", pr)]
      BY <1>5, <2>1 DEF ReadAfter
    <3>2. OutcomeOf("merge", pr) = "merged" BY <2>1 DEF OutcomeOf
    <3>3. op'.stage = "removing" /\ op'.action = "merge" /\ op'.seen = op.seen /\ op'.read = pr /\ op'.outcome = "merged"
      BY <3>1, <3>2
    <3>4. pr.head \in Nat /\ pr.head <= pr.head BY DEF ActionInv, ActionShape, PullRequest
    <3>5. ActionShape' BY <1>1, <3>3 DEF ActionInv, ActionShape, Stage, PullRequestAction
    <3> QED BY <1>1, <2>1, <3>3, <3>4, <3>5 DEF ActionInv, BranchHas, Truthful
  <2>2. CASE ~(op.action = "merge" /\ op.deleteBranch /\ pr.state = "MERGED" /\ BranchRemovable(pr))
    <3>1. op' = ActionEnded(OutcomeOf(op.action, pr), FALSE) BY <1>5, <2>2 DEF ReadAfter, EndAction
    <3> QED BY <1>2, <1>3, <3>1
  <2> QED BY <2>1, <2>2
<1> QED BY <1>4, <1>5

\* The branch of a merged pull request is removed at the commit that was read.
LEMMA RemovingKeeps ==
  ASSUME ActionInv, RemoveBranch
  PROVE  ActionInv' /\ Truthful
<1>1. op.stage = "removing" /\ UNCHANGED <<mergeQueue, others, actions>> BY DEF RemoveBranch
<1>2. /\ op.action = "merge" /\ op.outcome = "merged" /\ pr.state = "MERGED" /\ op.read.head \in Nat
      /\ op.read.head <= pr.head
  BY <1>1 DEF ActionInv
<1>3. /\ pr \in PullRequest /\ BranchHas(pr) /\ mergeQueue \in BOOLEAN /\ unseen = FALSE /\ lost = FALSE
      /\ removed \in BOOLEAN /\ blindly \in BOOLEAN
  BY DEF ActionInv, ActionShape
<1>4. ASSUME NEW branchDeleted \in BOOLEAN, op' = ActionEnded(op.outcome, branchDeleted), pr' \in PullRequest, BranchHas(pr'),
             pr'.state = "MERGED", removed' \in BOOLEAN, blindly' \in BOOLEAN, branchDeleted => removed',
             unseen' = FALSE, lost' = FALSE
      PROVE  ActionInv' /\ Truthful
  <2>1. op'.stage = "none" /\ op'.outcome = "merged" /\ op'.branchDeleted = branchDeleted
    BY <1>2, <1>4 DEF ActionEnded
  <2>2. ActionShape' BY <1>1, <1>4, <2>1 DEF ActionInv, ActionShape, Stage, Outcome
  <2> QED BY <1>1, <1>4, <2>1, <2>2 DEF ActionInv, BranchHas, Truthful
<1>5. CASE EndAction(op.outcome, FALSE) /\ UNCHANGED <<pr, removed, unseen, lost, blindly>>
  BY <1>2, <1>3, <1>4, <1>5 DEF EndAction, BranchHas
<1>6. CASE \E p \in Effect(pr, "delete-branch", HeadSent(op)) :
             /\ pr' = p /\ Records("delete-branch", p)
             /\ EndAction(op.outcome, TRUE) \/ EndAction(op.outcome, FALSE)
  <2>1. PICK p \in Effect(pr, "delete-branch", HeadSent(op)) :
             /\ pr' = p /\ Records("delete-branch", p)
             /\ EndAction(op.outcome, TRUE) \/ EndAction(op.outcome, FALSE)
    BY <1>6
  <2>2. IsLater(pr, p) /\ pr.branch = op.read.head /\ p.branch = NoBranch
    BY <1>2, <1>3, EffectIsLater DEF HeadSent, PullRequestAction
  <2>3. pr.branch = pr.head BY <1>2, <1>3, <2>2, ActionsAssumption DEF BranchHas, PullRequest
  <2>4. unseen' = FALSE BY <1>2, <1>3, <2>1 DEF Records
  <2>5. lost' = FALSE BY <1>3, <2>1, <2>3 DEF Records
  <2>6. removed' = TRUE /\ blindly' \in BOOLEAN BY <1>3, <2>1, <2>2 DEF Records
  <2>7. pr' \in PullRequest /\ BranchHas(pr') /\ pr'.state = "MERGED"
    BY <1>2, <2>1, <2>2 DEF IsLater
  <2> QED BY <1>4, <2>1, <2>4, <2>5, <2>6, <2>7 DEF EndAction
<1> QED BY <1>5, <1>6 DEF RemoveBranch

LEMMA ActionsStep == ActionInv /\ [ActionsNext]_actionVars => ActionInv' /\ [Truthful]_actionVars
<1>1. ASSUME ActionInv, UNCHANGED actionVars PROVE ActionInv'
  BY <1>1 DEF ActionInv, ActionShape, BranchHas, actionVars
<1> QED BY <1>1, OthersKeep, AskingKeeps, AskingGitHubKeeps, ReadingKeeps, RemovingKeeps DEF ActionsNext

\* An action on a pull request never merges, arms, updates or removes a commit its user had not
\* seen, and reports what happened, whatever others do meanwhile
\* (PullRequestActionRunner).
THEOREM ActionsTellTheTruth == ActionsSpec => ActionsHold
<1>1. ActionInv => ActionsTypeOK /\ OnlySeenCommits
  <2> SUFFICES ASSUME ActionInv PROVE ActionsTypeOK /\ OnlySeenCommits
    OBVIOUS
  <2>1. ActionShape /\ unseen = FALSE /\ lost = FALSE BY DEF ActionInv
  <2>2. op.stage # "none" => op.seen.head \in Nat /\ op.seen.text \in Nat
    BY <2>1 DEF ActionShape, PullRequest
  <2> QED BY <2>1, <2>2 DEF ActionShape, ActionsTypeOK, OnlySeenCommits, PullRequest, Branch
<1>2. ActionsSpec => [](ActionsTypeOK /\ OnlySeenCommits)
  BY <1>1, ActionsBegin, ActionsStep, PTL DEF ActionsSpec
<1>3. ActionsSpec => [][Truthful]_actionVars BY ActionsBegin, ActionsStep, PTL DEF ActionsSpec
<1> QED BY <1>2, <1>3 DEF ActionsHold, ReportsWhatHappened, Truthful

------------------------------
(* Clones.  At most one job runs, the last one.  One that has reserved its *)
(* folder found none, so no other job has left anything there. *)

CloneContent == {{}, {"partial"}, {"whole"}, {"foreign"}}

Follower == [mode : {"idle", "starting", "dialog", "background", "resuming"}, job : Nat, remembered : Nat, failures : Nat]

\* The job has reserved its folder.
Reserved(job) == job.stage \in {"cloning", "asking", "cloning again", "tidying", "preparing", "adopting"}

\* It has ended, and says that it has left something.
LeftSomething(job) == job.state \in {"failed", "cancelled"} /\ job.kept

Whole == folder = {"whole"}

CloneShape ==
  /\ cloneJobs \in Seq(CloneJob)
  /\ followers \in [Cloners -> Follower]
  /\ folder \in CloneContent \cup {Absent}

\* One job, by itself and beside the others.
JobIsSound(j) ==
  /\ cloneJobs[j].state = "running" <=> cloneJobs[j].stage # "over"
  /\ cloneJobs[j].state = "running" => j = Len(cloneJobs) /\ ~cloneJobs[j].kept
  /\ cloneJobs[j].stage \in {"preparing", "adopting"} \/ cloneJobs[j].state = "completed" => Whole
  /\ LeftSomething(cloneJobs[j]) => folder \notin {Absent, {}}
  /\ Reserved(cloneJobs[j]) => \A k \in Jobs : ~LeftSomething(cloneJobs[k])

\* A running job is followed, or its tab has lost it.
IsFollowed(j) ==
  LET f == followers[cloneJobs[j].by] IN
  cloneJobs[j].state = "running" /\ <<cloneJobs[j].by, j>> \notin cloneMishaps => j \in {f.job, f.remembered}

\* What a tab follows.
FollowerIsSound(t) ==
  /\ followers[t].mode # "idle" => followers[t].job \in Jobs
  /\ followers[t].remembered \in Jobs \cup {NoJob}
  /\ followers[t].mode \in {"dialog", "background", "resuming"} => followers[t].job = followers[t].remembered
  /\ followers[t].mode = "idle" => followers[t].job = NoJob
  /\ followers[t].mode = "starting" /\ followers[t].remembered \in Jobs =>
       cloneJobs[followers[t].remembered].state # "running"

CloneInv ==
  /\ CloneShape
  /\ \A j \in Jobs : JobIsSound(j) /\ IsFollowed(j)
  /\ \A t \in Cloners : FollowerIsSound(t)
  /\ \A a \in announced : a[3] = "cloned" => Whole

\* The contents are told apart.
LEMMA ContentsDiffer ==
  /\ {} # {"partial"} /\ {} # {"whole"} /\ {} # {"foreign"}
  /\ {"partial"} # {"whole"} /\ {"partial"} # {"foreign"} /\ {"whole"} # {"foreign"}
  /\ Absent # {} /\ Absent # {"partial"} /\ Absent # {"whole"} /\ Absent # {"foreign"}
<1>1. /\ {} # {"partial"} /\ {} # {"whole"} /\ {} # {"foreign"}
      /\ {"partial"} # {"whole"} /\ {"partial"} # {"foreign"} /\ {"whole"} # {"foreign"}
  OBVIOUS
<1>2. \A s \in SUBSET {"partial", "whole", "foreign"} : Absent # s BY CloneAssumption
<1>3. /\ {} \in SUBSET {"partial", "whole", "foreign"} /\ {"partial"} \in SUBSET {"partial", "whole", "foreign"}
      /\ {"whole"} \in SUBSET {"partial", "whole", "foreign"} /\ {"foreign"} \in SUBSET {"partial", "whole", "foreign"}
  OBVIOUS
<1> QED BY <1>1, <1>2, <1>3, Zenon

\* What a whole repository and what others have written stays, whatever happens.
LEMMA ContentStays ==
  ASSUME CloneShape, ClonesNext, folder \in {{"whole"}, {"foreign"}}
  PROVE  folder' = folder
<1>1. folder \notin {Absent, {}, {"partial"}} BY ContentsDiffer
<1>2. ASSUME NEW j \in Jobs, Reserve(j) \/ GitReceives(j) \/ GitClones(j) PROVE folder' = folder
  BY <1>1, <1>2 DEF Reserve, GitReceives, GitClones
<1>3. Cleared = {folder} /\ Removed = folder BY <1>1 DEF Cleared, Removed
<1>4. ASSUME NEW j \in Jobs, GitFails(j) \/ Tidy(j) PROVE folder' = folder
  BY <1>3, <1>4 DEF GitFails, Tidy
<1>5. ASSUME NEW j \in Jobs, AskAccounts(j) \/ NotAgain(j) \/ Prepare(j) \/ AdoptAccount(j) \/ ForgetJob(j)
      PROVE  folder' = folder
  BY <1>5 DEF AskAccounts, NotAgain, Prepare, AdoptAccount, ForgetJob
<1>6. ASSUME OthersWrite \/ CloneServerRestarts PROVE folder' = folder
  BY <1>1, <1>3, <1>6 DEF OthersWrite, CloneServerRestarts
<1>7. ASSUME NEW t \in Cloners,
             \/ StartClone(t) \/ StartAnswered(t) \/ RunInBackground(t) \/ Poll(t) \/ PollFails(t)
             \/ CancelClone(t) \/ Reload(t) \/ Resume(t)
      PROVE  folder' = folder
  BY <1>7 DEF StartClone, StartAnswered, RunInBackground, Poll, PollFails, CancelClone, Reload, Resume, jobVars
<1> QED BY <1>2, <1>4, <1>5, <1>6, <1>7 DEF ClonesNext

\* A job goes on to g, and the folder to what it makes of it.
LEMMA JobGoesOn ==
  ASSUME CloneInv, NEW j \in Jobs, NEW g \in CloneJob, cloneJobs' = [cloneJobs EXCEPT ![j] = g],
         UNCHANGED <<followers, announced, cloneMishaps>>, folder' \in CloneContent \cup {Absent},
         g.by = cloneJobs[j].by, g.state = "running" <=> g.stage # "over",
         g.state = "running" => cloneJobs[j].state = "running" /\ ~g.kept,
         g.stage \in {"preparing", "adopting"} \/ g.state = "completed" => Whole',
         LeftSomething(g) => folder' \notin {Absent, {}} /\ Reserved(cloneJobs[j]),
         Reserved(g) => Reserved(cloneJobs[j]) \/ folder = Absent,
         Whole => Whole', folder \notin {Absent, {}} => folder' \notin {Absent, {}} \/ Reserved(cloneJobs[j])
  PROVE  CloneInv'
<1>1. cloneJobs \in Seq(CloneJob) /\ Jobs = 1..Len(cloneJobs) /\ followers \in [Cloners -> Follower]
  BY DEF CloneInv, CloneShape, Jobs
<1>2. cloneJobs' \in Seq(CloneJob) BY <1>1, ExceptSeq
<1>3. /\ Jobs' = Jobs /\ Len(cloneJobs') = Len(cloneJobs) /\ cloneJobs'[j] = g
      /\ \A k \in Jobs : k # j => cloneJobs'[k] = cloneJobs[k]
  BY <1>1, ExceptSeq DEF Jobs
<1>4. \A k \in Jobs : JobIsSound(k) BY DEF CloneInv
<1>5. Reserved(g) => \A k \in Jobs : ~LeftSomething(cloneJobs[k]) BY <1>4 DEF JobIsSound
<1>6. ASSUME NEW k \in Jobs PROVE JobIsSound(k)'
  <2>1. CASE k = j
    <3>1. Reserved(g) => ~LeftSomething(g) BY DEF Reserved, LeftSomething
    <3>2. Reserved(g) => \A i \in Jobs' : ~LeftSomething(cloneJobs'[i]) BY <1>3, <1>5, <3>1
    <3>3. g.state = "running" => j = Len(cloneJobs') /\ ~g.kept BY <1>3, <1>4 DEF JobIsSound
    <3> QED BY <1>3, <2>1, <3>2, <3>3 DEF JobIsSound
  <2>2. CASE k # j
    <3>1. cloneJobs'[k] = cloneJobs[k] /\ JobIsSound(k) BY <1>3, <1>4, <2>2
    <3>2. LeftSomething(cloneJobs[k]) => folder' \notin {Absent, {}} BY <1>4, <3>1 DEF JobIsSound
    <3>3. Reserved(cloneJobs[k]) => ~LeftSomething(g)
      <4> SUFFICES ASSUME Reserved(cloneJobs[k]) PROVE ~LeftSomething(g)
        OBVIOUS
      <4>1. cloneJobs[k].state = "running" /\ k = Len(cloneJobs) BY <3>1 DEF JobIsSound, Reserved
      <4>2. ~Reserved(cloneJobs[j]) BY <1>4, <2>2, <4>1 DEF JobIsSound, Reserved
      <4> QED BY <4>2
    <3>4. Reserved(cloneJobs[k]) => \A i \in Jobs' : ~LeftSomething(cloneJobs'[i])
      BY <1>3, <3>1, <3>3 DEF JobIsSound
    <3> QED BY <1>3, <3>1, <3>2, <3>4 DEF JobIsSound
  <2> QED BY <2>1, <2>2
<1>7. ASSUME NEW k \in Jobs PROVE IsFollowed(k)' BY <1>3 DEF IsFollowed, CloneInv
<1>8. \A t \in Cloners : FollowerIsSound(t)' BY <1>1, <1>3 DEF FollowerIsSound, CloneInv
<1>9. CloneShape' BY <1>2 DEF CloneShape, CloneInv
<1> QED BY <1>3, <1>6, <1>7, <1>8, <1>9 DEF CloneInv

\* A tab changes what it follows.
LEMMA TabGoesOn ==
  ASSUME CloneInv, NEW t \in Cloners, NEW g \in Follower, followers' = [followers EXCEPT ![t] = g],
         cloneJobs' = cloneJobs, folder' = folder,
         \A a \in announced' : a \in announced \/ (a[3] = "cloned" => Whole),
         \A k \in Jobs : cloneJobs[k].by = t /\ cloneJobs[k].state = "running"
                           /\ k \in {followers[t].job, followers[t].remembered} =>
                         k \in {g.job, g.remembered} \/ <<t, k>> \in cloneMishaps',
         cloneMishaps \subseteq cloneMishaps',
         g.mode # "idle" => g.job \in Jobs, g.remembered \in Jobs \cup {NoJob},
         g.mode \in {"dialog", "background", "resuming"} => g.job = g.remembered, g.mode = "idle" => g.job = NoJob,
         g.mode # "starting"
  PROVE  CloneInv'
<1>1. cloneJobs \in Seq(CloneJob) /\ followers \in [Cloners -> Follower] /\ Jobs' = Jobs
  BY DEF CloneInv, CloneShape, Jobs
<1>2. followers' \in [Cloners -> Follower] /\ followers'[t] = g /\ \A u \in Cloners : u # t => followers'[u] = followers[u]
  BY <1>1
<1>3. CloneShape' BY <1>2 DEF CloneInv, CloneShape
<1>4. ASSUME NEW k \in Jobs PROVE JobIsSound(k)' BY <1>1 DEF CloneInv, JobIsSound, Whole
<1>5. ASSUME NEW k \in Jobs PROVE IsFollowed(k)'
  <2>1. IsFollowed(k) /\ cloneJobs[k] \in CloneJob BY <1>1 DEF CloneInv, Jobs
  <2>2. cloneJobs[k].by \in Cloners BY <2>1 DEF CloneJob
  <2>3. CASE cloneJobs[k].by = t BY <1>2, <2>1, <2>3 DEF IsFollowed
  <2>4. CASE cloneJobs[k].by # t BY <1>2, <2>1, <2>2, <2>4 DEF IsFollowed
  <2> QED BY <2>3, <2>4
<1>6. ASSUME NEW u \in Cloners PROVE FollowerIsSound(u)'
  <2>1. CASE u = t BY <1>1, <1>2, <2>1 DEF FollowerIsSound
  <2>2. CASE u # t BY <1>1, <1>2, <2>2 DEF FollowerIsSound, CloneInv
  <2> QED BY <2>1, <2>2
<1>7. \A a \in announced' : a[3] = "cloned" => Whole' BY DEF CloneInv, Whole
<1> QED BY <1>1, <1>3, <1>4, <1>5, <1>6, <1>7 DEF CloneInv

\* Facts about a job that is at work.
LEMMA AtWork ==
  ASSUME CloneInv, NEW j \in Jobs
  PROVE  /\ cloneJobs[j] \in CloneJob /\ JobIsSound(j)
         /\ cloneJobs[j].stage # "over" => cloneJobs[j].state = "running" /\ ~cloneJobs[j].kept
         /\ folder \in CloneContent \cup {Absent}
<1> QED BY DEF CloneInv, CloneShape, Jobs, JobIsSound

\* A job that goes to another stage.
LEMMA JobStaged ==
  ASSUME NEW j \in Jobs, cloneJobs[j] \in CloneJob, cloneJobs \in Seq(CloneJob), NEW s \in JobStages
  PROVE  \E g \in CloneJob :
           /\ g = [cloneJobs[j] EXCEPT !.stage = s]
           /\ g.stage = s /\ g.state = cloneJobs[j].state /\ g.by = cloneJobs[j].by /\ g.kept = cloneJobs[j].kept
           /\ Moves(j, s) => cloneJobs' = [cloneJobs EXCEPT ![j] = g]
<1>1. PICK q \in CloneJob : q = cloneJobs[j] OBVIOUS
<1>2. PICK g : g = [q EXCEPT !.stage = s] OBVIOUS
<1>3. g \in CloneJob /\ g.stage = s /\ g.state = q.state /\ g.by = q.by /\ g.kept = q.kept
  BY <1>1, <1>2 DEF CloneJob
<1>4. Moves(j, s) => cloneJobs' = [cloneJobs EXCEPT ![j] = g] BY <1>1, <1>2 DEF Moves
<1> QED BY <1>1, <1>2, <1>3, <1>4

EndState == {"completed", "failed", "cancelled"}

\* A job that ends.
LEMMA JobEnded ==
  ASSUME NEW j \in Jobs, cloneJobs[j] \in CloneJob, cloneJobs \in Seq(CloneJob), NEW e \in EndState
  PROVE  \E g \in CloneJob :
           /\ g = [cloneJobs[j] EXCEPT !.stage = "over", !.state = e]
           /\ g.stage = "over" /\ g.state = e /\ g.by = cloneJobs[j].by /\ g.kept = cloneJobs[j].kept
           /\ CloneEnds(j, e) => cloneJobs' = [cloneJobs EXCEPT ![j] = g]
<1>1. PICK q \in CloneJob : q = cloneJobs[j] OBVIOUS
<1>2. PICK g : g = [q EXCEPT !.stage = "over", !.state = e] OBVIOUS
<1>3. g \in CloneJob /\ g.stage = "over" /\ g.state = e /\ g.by = q.by /\ g.kept = q.kept
  BY <1>1, <1>2 DEF CloneJob, JobStages, EndState
<1>4. CloneEnds(j, e) => cloneJobs' = [cloneJobs EXCEPT ![j] = g] BY <1>1, <1>2 DEF CloneEnds
<1> QED BY <1>1, <1>2, <1>3, <1>4

LEMMA ClonesBegin == ClonesInit => CloneInv
<1> SUFFICES ASSUME ClonesInit PROVE CloneInv
  OBVIOUS
<1>1. Jobs = {} BY DEF ClonesInit, Jobs
<1>2. cloneJobs \in Seq(CloneJob) BY EmptySeq DEF ClonesInit
<1>3. folder \in CloneContent \cup {Absent} BY DEF ClonesInit, CloneContent
<1>4. \A t \in Cloners : followers[t] = IdleTab BY DEF ClonesInit
<1>5. IdleTab \in Follower BY DEF IdleTab, Follower, NoJob
<1>6. followers \in [Cloners -> Follower] BY <1>5 DEF ClonesInit
<1>7. \A t \in Cloners : FollowerIsSound(t)
  <2> SUFFICES ASSUME NEW t \in Cloners PROVE FollowerIsSound(t)
    OBVIOUS
  <2>1. followers[t].mode = "idle" /\ followers[t].job = NoJob /\ followers[t].remembered = NoJob
    BY <1>4 DEF IdleTab
  <2> QED BY <2>1 DEF FollowerIsSound
<1>8. announced = {} BY DEF ClonesInit
<1> QED BY <1>1, <1>2, <1>3, <1>6, <1>7, <1>8 DEF CloneInv, CloneShape

\* A stage that a job goes to, without an end.
LEMMA StageKeeps ==
  ASSUME CloneInv, NEW j \in Jobs, NEW s \in JobStages, s # "over", Moves(j, s), UNCHANGED tabVars,
         folder' \in CloneContent \cup {Absent}, cloneJobs[j].stage # "over",
         s \in {"preparing", "adopting"} => Whole',
         s = "checking" \/ Reserved(cloneJobs[j]) \/ folder = Absent,
         Whole => Whole', folder \notin {Absent, {}} => folder' \notin {Absent, {}} \/ Reserved(cloneJobs[j])
  PROVE  CloneInv'
<1>1. cloneJobs \in Seq(CloneJob) /\ cloneJobs[j] \in CloneJob /\ cloneJobs[j].state = "running" /\ ~cloneJobs[j].kept
  BY AtWork DEF CloneInv, CloneShape
<1>2. PICK g \in CloneJob : /\ cloneJobs' = [cloneJobs EXCEPT ![j] = g]
                            /\ g.stage = s /\ g.state = "running" /\ g.by = cloneJobs[j].by /\ ~g.kept
  BY <1>1, JobStaged
<1>3. ~LeftSomething(g) /\ (Reserved(g) => s # "checking") BY <1>2 DEF LeftSomething, Reserved
<1>4. UNCHANGED <<followers, announced, cloneMishaps>> BY DEF tabVars
<1> QED BY <1>1, <1>2, <1>3, <1>4, JobGoesOn

\* The end of a job that leaves the folder as it is.
LEMMA CloneEndKeeps ==
  ASSUME CloneInv, NEW j \in Jobs, NEW e \in EndState, CloneEnds(j, e), UNCHANGED tabVars,
         folder' = folder, cloneJobs[j].stage # "over", e = "completed" => Whole
  PROVE  CloneInv'
<1>1. /\ cloneJobs \in Seq(CloneJob) /\ cloneJobs[j] \in CloneJob /\ cloneJobs[j].state = "running" /\ ~cloneJobs[j].kept
      /\ folder \in CloneContent \cup {Absent}
  BY AtWork DEF CloneInv, CloneShape
<1>2. PICK g \in CloneJob : /\ cloneJobs' = [cloneJobs EXCEPT ![j] = g]
                            /\ g.stage = "over" /\ g.state = e /\ g.by = cloneJobs[j].by /\ ~g.kept
  <2>1. PICK g \in CloneJob :
           /\ g = [cloneJobs[j] EXCEPT !.stage = "over", !.state = e]
           /\ g.stage = "over" /\ g.state = e /\ g.by = cloneJobs[j].by /\ g.kept = cloneJobs[j].kept
           /\ CloneEnds(j, e) => cloneJobs' = [cloneJobs EXCEPT ![j] = g]
    BY <1>1, JobEnded, Zenon
  <2> QED BY <1>1, <2>1, Zenon
<1>3. ~LeftSomething(g) /\ ~Reserved(g) /\ e # "running" /\ (Whole => Whole')
  BY <1>2 DEF LeftSomething, Reserved, Whole, EndState
<1>4. UNCHANGED <<followers, announced, cloneMishaps>> BY DEF tabVars
<1>5. e = "completed" => Whole' BY DEF Whole
<1> QED BY <1>1, <1>2, <1>3, <1>4, <1>5, JobGoesOn

\* The folder is reserved, or the job ends.
LEMMA ReserveKeeps ==
  ASSUME CloneInv, NEW j \in Jobs, Reserve(j)
  PROVE  CloneInv'
<1>1. cloneJobs[j].stage = "checking" /\ UNCHANGED tabVars BY DEF Reserve, JobIs
<1>2. CASE folder = Absent /\ ~cloneJobs[j].aborted
  <2>1. Moves(j, "cloning") /\ folder' = {} BY <1>2 DEF Reserve
  <2>2. {} \in CloneContent /\ ~Whole BY <1>2, ContentsDiffer DEF CloneContent, Whole
  <2> QED BY <1>1, <1>2, <2>1, <2>2, StageKeeps DEF JobStages
<1>3. CASE ~(folder = Absent /\ ~cloneJobs[j].aborted)
  <2>1. CloneEnds(j, FailedState(j)) /\ folder' = folder BY <1>3 DEF Reserve
  <2>2. FailedState(j) \in EndState /\ FailedState(j) # "completed" BY DEF FailedState, EndState
  <2> QED BY <1>1, <2>1, <2>2, CloneEndKeeps
<1> QED BY <1>2, <1>3

\* Git writes, clones, or fails.
LEMMA GitKeeps ==
  ASSUME CloneInv, NEW j \in Jobs, GitReceives(j) \/ GitClones(j) \/ GitFails(j)
  PROVE  CloneInv'
<1>1. cloneJobs[j].stage \in {"cloning", "cloning again"} /\ UNCHANGED tabVars
  BY DEF GitReceives, GitClones, GitFails, Attempting, JobIs, tabVars
<1>2. /\ cloneJobs \in Seq(CloneJob) /\ cloneJobs[j] \in CloneJob /\ cloneJobs[j].state = "running" /\ ~cloneJobs[j].kept
      /\ folder \in CloneContent \cup {Absent} /\ Reserved(cloneJobs[j]) /\ UNCHANGED <<followers, announced, cloneMishaps>>
  BY <1>1, AtWork DEF CloneInv, CloneShape, Reserved, tabVars
<1>3. CASE GitReceives(j)
  <2>1. folder = {} /\ folder' = {"partial"} /\ cloneJobs' = cloneJobs BY <1>3 DEF GitReceives
  <2>2. cloneJobs' = [cloneJobs EXCEPT ![j] = cloneJobs[j]] BY <1>2, <2>1
  <2>3. ~Whole /\ {"partial"} \in CloneContent /\ folder' \notin {Absent, {}}
    BY <2>1, ContentsDiffer DEF Whole, CloneContent
  <2>4. ~LeftSomething(cloneJobs[j]) /\ cloneJobs[j].state # "completed" /\ cloneJobs[j].stage # "over"
    BY <1>1, <1>2 DEF LeftSomething
  <2> QED BY <1>1, <1>2, <2>1, <2>2, <2>3, <2>4, JobGoesOn
<1>4. CASE GitClones(j)
  <2>1. folder = {"partial"} /\ folder' = {"whole"} BY <1>4 DEF GitClones
  <2>2. PICK s \in {"tidying", "preparing"}, b \in BOOLEAN : cloneJobs' = [cloneJobs EXCEPT ![j].stage = s, ![j].adopts = b]
    BY <1>4 DEF GitClones, JobIs
  <2>3. PICK h \in CloneJob : /\ h = [cloneJobs[j] EXCEPT !.stage = s]
                              /\ h.stage = s /\ h.state = "running" /\ h.by = cloneJobs[j].by /\ ~h.kept
    <3>1. s \in JobStages BY DEF JobStages
    <3>2. PICK h \in CloneJob :
            /\ h = [cloneJobs[j] EXCEPT !.stage = s]
            /\ h.stage = s /\ h.state = cloneJobs[j].state /\ h.by = cloneJobs[j].by /\ h.kept = cloneJobs[j].kept
      BY <1>2, <3>1, JobStaged, Zenon
    <3> QED BY <1>2, <3>2, Zenon
  <2>4. PICK g : g = [h EXCEPT !.adopts = b] OBVIOUS
  <2>5. g \in CloneJob /\ g.stage = s /\ g.state = "running" /\ g.by = cloneJobs[j].by /\ ~g.kept
    BY <2>3, <2>4 DEF CloneJob
  <2>6. cloneJobs' = [cloneJobs EXCEPT ![j] = g] BY <2>2, <2>3, <2>4
  <2>7. ~Whole /\ Whole' /\ {"whole"} \in CloneContent /\ folder' \notin {Absent, {}}
    BY <2>1, ContentsDiffer DEF Whole, CloneContent
  <2>8. ~LeftSomething(g) /\ g.stage # "over" BY <2>5 DEF LeftSomething
  <2> QED BY <1>2, <2>1, <2>5, <2>6, <2>7, <2>8, JobGoesOn
<1>5. CASE GitFails(j)
  <2>1. folder' = folder \/ (folder = {"partial"} /\ folder' = {}) BY <1>5 DEF GitFails, Cleared
  <2>2. Whole => Whole' BY <2>1, ContentsDiffer DEF Whole
  <2>3. folder' \in CloneContent \cup {Absent} BY <1>2, <2>1 DEF CloneContent
  <2>4. Moves(j, "tidying") \/ Moves(j, "asking") BY <1>5 DEF GitFails
  <2> QED BY <1>1, <1>2, <2>2, <2>3, <2>4, StageKeeps DEF JobStages
<1> QED BY <1>3, <1>4, <1>5

\* A failed job asks for another account, is cancelled in between, or tidies up.
LEMMA FailedJobKeeps ==
  ASSUME CloneInv, NEW j \in Jobs, AskAccounts(j) \/ NotAgain(j) \/ Tidy(j)
  PROVE  CloneInv'
<1>1. cloneJobs[j].stage \in {"asking", "cloning again", "tidying"} /\ UNCHANGED tabVars
  BY DEF AskAccounts, NotAgain, Tidy, JobIs
<1>2. /\ cloneJobs \in Seq(CloneJob) /\ cloneJobs[j] \in CloneJob /\ cloneJobs[j].state = "running" /\ ~cloneJobs[j].kept
      /\ folder \in CloneContent \cup {Absent} /\ Reserved(cloneJobs[j]) /\ UNCHANGED <<followers, announced, cloneMishaps>>
  BY <1>1, AtWork DEF CloneInv, CloneShape, Reserved, tabVars
<1>3. CASE AskAccounts(j) \/ NotAgain(j)
  <2>1. folder' = folder /\ (Moves(j, "cloning again") \/ Moves(j, "tidying"))
    BY <1>3 DEF AskAccounts, NotAgain
  <2>2. Whole => Whole' BY <2>1 DEF Whole
  <2> QED BY <1>1, <1>2, <2>1, <2>2, StageKeeps DEF JobStages
<1>4. CASE Tidy(j)
  <2>1. folder' = Removed BY <1>4 DEF Tidy
  <2>2. folder' \in CloneContent \cup {Absent} /\ folder' # {} /\ (Whole => Whole')
    BY <1>2, <2>1, ContentsDiffer DEF Removed, Whole
  <2>3. PICK h \in CloneJob :
            /\ h = [cloneJobs[j] EXCEPT !.stage = "over", !.state = FailedState(j)]
            /\ h.stage = "over" /\ h.state = FailedState(j) /\ h.by = cloneJobs[j].by /\ h.kept = cloneJobs[j].kept
            /\ CloneEnds(j, FailedState(j)) => cloneJobs' = [cloneJobs EXCEPT ![j] = h]
    <3>1. FailedState(j) \in EndState BY DEF FailedState, EndState
    <3> QED BY <1>2, <3>1, JobEnded, Zenon
  <2>4. PICK b \in BOOLEAN : b = (folder' # Absent) OBVIOUS
  <2>5. PICK g : g = [h EXCEPT !.kept = b] OBVIOUS
  <2>6. g \in CloneJob /\ g.stage = "over" /\ g.state = FailedState(j) /\ g.by = cloneJobs[j].by /\ g.kept = b
    BY <2>3, <2>5 DEF CloneJob
  <2>7. cloneJobs' = [cloneJobs EXCEPT ![j] = g] BY <1>4, <2>3, <2>4, <2>5 DEF Tidy
  <2>8. g.state \notin {"running", "completed"} /\ ~Reserved(g) BY <2>6 DEF FailedState, Reserved
  <2>9. LeftSomething(g) => folder' \notin {Absent, {}} BY <2>2, <2>4, <2>6 DEF LeftSomething
  <2> QED BY <1>2, <2>2, <2>6, <2>7, <2>8, <2>9, JobGoesOn
<1> QED BY <1>3, <1>4

\* A cloned repository is opened, and its account kept.
LEMMA ClonedJobKeeps ==
  ASSUME CloneInv, NEW j \in Jobs, Prepare(j) \/ AdoptAccount(j)
  PROVE  CloneInv'
<1>1. cloneJobs[j].stage \in {"preparing", "adopting"} /\ UNCHANGED tabVars /\ folder' = folder
  BY DEF Prepare, AdoptAccount, JobIs
<1>2. Whole /\ Whole' /\ folder \in CloneContent \cup {Absent} /\ Reserved(cloneJobs[j])
  BY <1>1, AtWork DEF JobIsSound, Reserved, Whole
<1>3. CASE Moves(j, "adopting") BY <1>1, <1>2, <1>3, StageKeeps DEF JobStages
<1>4. CASE CloneEnds(j, FailedState(j)) \/ CloneEnds(j, "completed")
  <2>1. FailedState(j) \in EndState /\ "completed" \in EndState BY DEF FailedState, EndState
  <2> QED BY <1>1, <1>2, <1>4, <2>1, CloneEndKeeps
<1> QED BY <1>3, <1>4 DEF Prepare, AdoptAccount

\* The server forgets a job that is over.
LEMMA ForgettingKeeps ==
  ASSUME CloneInv, NEW j \in Jobs, ForgetJob(j)
  PROVE  CloneInv'
<1>1. cloneJobs[j].stage = "over" /\ folder' = folder /\ UNCHANGED <<followers, announced, cloneMishaps>>
  BY DEF ForgetJob, JobIs, tabVars
<1>2. PICK q \in CloneJob : q = cloneJobs[j] BY AtWork
<1>3. PICK g : g = [q EXCEPT !.state = "gone"] OBVIOUS
<1>4. g \in CloneJob /\ g.stage = "over" /\ g.state = "gone" /\ g.by = cloneJobs[j].by
  BY <1>1, <1>2, <1>3 DEF CloneJob
<1>5. cloneJobs' = [cloneJobs EXCEPT ![j] = g] BY <1>2, <1>3 DEF ForgetJob
<1>6. ~LeftSomething(g) /\ ~Reserved(g) BY <1>4 DEF LeftSomething, Reserved
<1>7. folder' \in CloneContent \cup {Absent} /\ (Whole => Whole') BY <1>1, AtWork DEF Whole
<1> QED BY <1>1, <1>4, <1>5, <1>6, <1>7, JobGoesOn

\* Other programs write to the folder when no clone is at work there.
LEMMA OthersWriteKeeps ==
  ASSUME CloneInv, OthersWrite
  PROVE  CloneInv'
<1>1. folder \in {Absent, {}} /\ folder' = {"foreign"} /\ UNCHANGED <<cloneJobs, followers, announced, cloneMishaps>>
  BY DEF OthersWrite, tabVars
<1>2. ~Whole /\ ~Whole' /\ folder' \notin {Absent, {}} /\ folder' \in CloneContent
  BY <1>1, ContentsDiffer DEF Whole, CloneContent
<1>3. CloneShape' /\ Jobs' = Jobs BY <1>1, <1>2 DEF CloneInv, CloneShape, Jobs
<1>4. ASSUME NEW j \in Jobs PROVE JobIsSound(j)' /\ IsFollowed(j)'
  BY <1>1, <1>2, <1>3 DEF CloneInv, JobIsSound, IsFollowed
<1>5. ASSUME NEW t \in Cloners PROVE FollowerIsSound(t)' BY <1>1, <1>3 DEF CloneInv, FollowerIsSound
<1>6. \A a \in announced' : a[3] = "cloned" => Whole' BY <1>1, <1>2 DEF CloneInv
<1> QED BY <1>3, <1>4, <1>5, <1>6 DEF CloneInv

\* The server starts again: no job runs any more.
LEMMA ServerRestartKeeps ==
  ASSUME CloneInv, CloneServerRestarts
  PROVE  CloneInv'
<1>1. UNCHANGED <<followers, announced, cloneMishaps>> /\ folder' \in Cleared
  BY DEF CloneServerRestarts
<1>2. cloneJobs' = [j \in Jobs |-> [cloneJobs[j] EXCEPT !.state = "gone", !.stage = "over"]]
  BY DEF CloneServerRestarts
<1>3. cloneJobs \in Seq(CloneJob) /\ Jobs = 1..Len(cloneJobs) /\ \A j \in Jobs : cloneJobs[j] \in CloneJob
  BY DEF CloneInv, CloneShape, Jobs
<1>4. ASSUME NEW j \in Jobs PROVE cloneJobs'[j] \in CloneJob /\ cloneJobs'[j].state = "gone" /\ cloneJobs'[j].stage = "over"
  <2>1. PICK q \in CloneJob : q = cloneJobs[j] BY <1>3
  <2>2. PICK g : g = [q EXCEPT !.state = "gone", !.stage = "over"] OBVIOUS
  <2>3. g \in CloneJob /\ g.state = "gone" /\ g.stage = "over" BY <2>2 DEF CloneJob, JobStages
  <2>4. cloneJobs'[j] = g BY <1>2, <2>1, <2>2
  <2> QED BY <2>3, <2>4
<1>5. cloneJobs' \in Seq(CloneJob) /\ Jobs' = Jobs
  <2>1. cloneJobs' \in [1..Len(cloneJobs) -> CloneJob] /\ DOMAIN cloneJobs' = Jobs
    BY <1>2, <1>3, <1>4
  <2>2. Len(cloneJobs) \in Nat BY <1>3
  <2> QED BY <1>3, <2>1, <2>2 DEF Jobs
<1>6. folder' \in CloneContent \cup {Absent} /\ (Whole => Whole')
  <2>1. folder' = folder \/ (folder = {"partial"} /\ folder' = {}) BY <1>1 DEF Cleared
  <2> QED BY <2>1, ContentsDiffer DEF CloneInv, CloneShape, Whole, CloneContent
<1>7. ASSUME NEW j \in Jobs PROVE JobIsSound(j)' /\ IsFollowed(j)'
  BY <1>4, <1>5 DEF JobIsSound, IsFollowed, LeftSomething, Reserved
<1>8. ASSUME NEW t \in Cloners PROVE FollowerIsSound(t)'
  <2>1. FollowerIsSound(t) /\ followers' = followers BY <1>1 DEF CloneInv
  <2>2. \A j \in Jobs : cloneJobs'[j].state # "running" BY <1>4
  <2> QED BY <1>5, <2>1, <2>2 DEF FollowerIsSound
<1>9. \A a \in announced' : a[3] = "cloned" => Whole' BY <1>1, <1>6 DEF CloneInv
<1> QED BY <1>1, <1>5, <1>6, <1>7, <1>8, <1>9 DEF CloneInv, CloneShape

\* Facts about a tab and the job it follows.
LEMMA TabFacts ==
  ASSUME CloneInv, NEW t \in Cloners
  PROVE  /\ followers[t] \in Follower /\ FollowerIsSound(t) /\ Jobs \subseteq Nat /\ NoJob \notin Jobs
         /\ followers[t].job \in Nat
<1>1. Jobs \subseteq Nat /\ NoJob \notin Jobs BY DEF CloneInv, CloneShape, Jobs, NoJob
<1>2. followers[t] \in Follower /\ FollowerIsSound(t) BY DEF CloneInv, CloneShape
<1> QED BY <1>1, <1>2 DEF Follower

\* A clone is started: its job is new, and its tab waits for the answer.
LEMMA CloneStartKeeps ==
  ASSUME CloneInv, NEW t \in Cloners, StartClone(t)
  PROVE  CloneInv'
<1>1. PICK f \in Follower : f = followers[t] /\ f.mode = "idle" BY TabFacts DEF StartClone
<1>2. PICK n \in Nat : n = Len(cloneJobs) BY DEF CloneInv, CloneShape
<1>3. PICK job : job = [state |-> "running", stage |-> "checking", by |-> t, aborted |-> FALSE, adopts |-> FALSE, kept |-> FALSE]
  OBVIOUS
<1>4. /\ job \in CloneJob /\ job.state = "running" /\ job.stage = "checking" /\ job.by = t /\ ~job.kept
      /\ ~Reserved(job) /\ ~LeftSomething(job)
  BY <1>3 DEF CloneJob, JobStages, Reserved, LeftSomething
<1>5. cloneJobs' = Append(cloneJobs, job) /\ UNCHANGED <<folder, announced, cloneMishaps>>
  BY <1>3 DEF StartClone
<1>6. PICK g : g = [f EXCEPT !.mode = "starting", !.job = n + 1] OBVIOUS
<1>7. g \in Follower /\ g.mode = "starting" /\ g.job = n + 1 /\ g.remembered = f.remembered
  <2>1. n + 1 \in Nat BY <1>2
  <2> QED BY <1>6, <2>1 DEF Follower
<1>8. followers' = [followers EXCEPT ![t] = g] BY <1>1, <1>2, <1>6 DEF StartClone
<1>9. followers \in [Cloners -> Follower] /\ cloneJobs \in Seq(CloneJob) /\ Jobs = 1..n
  BY <1>2 DEF CloneInv, CloneShape, Jobs
<1>10. /\ followers' \in [Cloners -> Follower] /\ followers'[t] = g
       /\ \A u \in Cloners : u # t => followers'[u] = followers[u]
  BY <1>7, <1>8, <1>9
<1>11. /\ cloneJobs' \in Seq(CloneJob) /\ Len(cloneJobs') = n + 1 /\ Jobs' = 1..(n + 1)
       /\ \A k \in Jobs : cloneJobs'[k] = cloneJobs[k] /\ cloneJobs[k].state # "running"
       /\ cloneJobs'[n + 1] = job /\ \A k \in Jobs' : k \in Jobs \/ k = n + 1
  <2>1. /\ cloneJobs' \in Seq(CloneJob) /\ Len(cloneJobs') = n + 1 /\ cloneJobs'[n + 1] = job
        /\ \A k \in 1..n : cloneJobs'[k] = cloneJobs[k]
    BY <1>2, <1>4, <1>5, <1>9, AppendProperties
  <2>2. \A k \in Jobs : cloneJobs[k].state # "running" BY DEF StartClone
  <2> QED BY <1>2, <1>9, <2>1, <2>2 DEF Jobs
<1>12. CloneShape' BY <1>5, <1>10, <1>11 DEF CloneInv, CloneShape
<1>13. ASSUME NEW k \in Jobs' PROVE JobIsSound(k)' /\ IsFollowed(k)'
  <2>1. CASE k = n + 1
    <3>1. JobIsSound(k)' BY <1>4, <1>11, <2>1 DEF JobIsSound, Reserved, LeftSomething
    <3>2. IsFollowed(k)' BY <1>4, <1>7, <1>10, <1>11, <2>1 DEF IsFollowed
    <3> QED BY <3>1, <3>2
  <2>2. CASE k \in Jobs
    <3>1. JobIsSound(k) /\ cloneJobs'[k] = cloneJobs[k] /\ cloneJobs[k].state # "running"
      BY <1>11, <2>2 DEF CloneInv
    <3>2. ~Reserved(cloneJobs[k]) BY <3>1 DEF JobIsSound, Reserved
    <3>3. JobIsSound(k)' BY <1>5, <3>1, <3>2 DEF JobIsSound, Whole
    <3>4. IsFollowed(k)' BY <3>1 DEF IsFollowed
    <3> QED BY <3>3, <3>4
  <2> QED BY <1>11, <2>1, <2>2
<1>14. ASSUME NEW u \in Cloners PROVE FollowerIsSound(u)'
  <2>1. FollowerIsSound(u) /\ Jobs \subseteq Jobs' /\ n + 1 \in Jobs'
    BY <1>2, <1>9, <1>11 DEF CloneInv
  <2>4. \A k \in Jobs : cloneJobs'[k] = cloneJobs[k] /\ cloneJobs'[k].state # "running" BY <1>11
  <2>2. CASE u = t
    <3>1. followers'[u] = g /\ f.remembered \in Jobs \cup {NoJob}
      BY <1>1, <1>10, <2>1, <2>2 DEF FollowerIsSound
    <3>2. g.remembered \in Jobs' => g.remembered \in Jobs BY <1>7, <1>11, <3>1, TabFacts DEF NoJob
    <3> QED BY <1>7, <2>1, <2>4, <3>1, <3>2 DEF FollowerIsSound
  <2>3. CASE u # t
    <3>1. followers'[u] = followers[u] BY <1>10, <2>3
    <3>2. followers[u].remembered \in Jobs' => followers[u].remembered \in Jobs
      BY <1>11, <2>1 DEF FollowerIsSound, NoJob
    <3> QED BY <2>1, <2>4, <3>1, <3>2 DEF FollowerIsSound
  <2> QED BY <2>2, <2>3
<1>15. \A a \in announced' : a[3] = "cloned" => Whole' BY <1>5 DEF CloneInv, Whole
<1> QED BY <1>11, <1>12, <1>13, <1>14, <1>15 DEF CloneInv

\* The start is answered, or its answer is lost.
LEMMA AnswerKeeps ==
  ASSUME CloneInv, NEW t \in Cloners, StartAnswered(t)
  PROVE  CloneInv'
<1>1. PICK f \in Follower : f = followers[t] /\ f.mode = "starting" BY TabFacts DEF StartAnswered
<1>2. f.job \in Jobs /\ f.remembered \in Jobs \cup {NoJob} /\ NoJob \notin Jobs /\ f.job \in Nat
  BY <1>1, TabFacts DEF FollowerIsSound
<1>3. UNCHANGED <<cloneJobs, folder>> /\ \A a \in announced : a[3] = "cloned" => Whole
  BY DEF StartAnswered, jobVars, CloneInv
<1>4. CASE Follow(t, [f EXCEPT !.mode = "dialog", !.remembered = f.job]) /\ UNCHANGED <<announced, cloneMishaps>>
  <2>1. PICK g : g = [f EXCEPT !.mode = "dialog", !.remembered = f.job] OBVIOUS
  <2>2. g \in Follower /\ g.mode = "dialog" /\ g.remembered = f.job /\ g.job = f.job
    BY <1>2, <2>1 DEF Follower
  <2>3. followers' = [followers EXCEPT ![t] = g] BY <1>4, <2>1 DEF Follow
  <2>4. \A k \in Jobs : cloneJobs[k].state = "running" /\ k \in {f.job, f.remembered} => k = f.job
    BY <1>1, TabFacts DEF FollowerIsSound
  <2>5. cloneJobs' = cloneJobs /\ folder' = folder /\ cloneMishaps \subseteq cloneMishaps'
    BY <1>1, <1>2, <1>3, <1>4, <2>2, <2>3, <2>4
  <2>6. \A a \in announced' : a \in announced \/ (a[3] = "cloned" => Whole)
    BY <1>1, <1>2, <1>3, <1>4, <2>2, <2>3, <2>4
  <2>7. \A k \in Jobs : cloneJobs[k].by = t /\ cloneJobs[k].state = "running"
                          /\ k \in {followers[t].job, followers[t].remembered} =>
                        k \in {g.job, g.remembered} \/ <<t, k>> \in cloneMishaps'
    BY <1>1, <1>2, <1>3, <1>4, <2>2, <2>3, <2>4
  <2>8. /\ g.mode # "idle" => g.job \in Jobs
        /\ g.remembered \in Jobs \cup {NoJob}
        /\ g.mode \in {"dialog", "background", "resuming"} => g.job = g.remembered
        /\ g.mode = "idle" => g.job = NoJob
        /\ g.mode # "starting"
    BY <1>1, <1>2, <1>3, <1>4, <2>2, <2>3, <2>4
  <2> QED BY <2>2, <2>3, <2>5, <2>6, <2>7, <2>8, TabGoesOn
<1>5. CASE /\ Follow(t, [f EXCEPT !.mode = "idle", !.job = NoJob])
           /\ announced' = announced \cup {<<t, f.job, "unreachable">>}
           /\ cloneMishaps' = cloneMishaps \cup {<<t, f.job>>}
  <2>1. PICK g : g = [f EXCEPT !.mode = "idle", !.job = NoJob] OBVIOUS
  <2>2. g \in Follower /\ g.mode = "idle" /\ g.remembered = f.remembered /\ g.job = NoJob
    BY <2>1 DEF Follower, NoJob
  <2>3. followers' = [followers EXCEPT ![t] = g] BY <1>5, <2>1 DEF Follow
  <2>4. \A k \in Jobs : k \in {f.job, f.remembered} => k = g.remembered \/ <<t, k>> \in cloneMishaps'
    BY <1>5, <2>2
  <2>5. \A a \in announced' : a \in announced \/ (a[3] = "cloned" => Whole) BY <1>5
  <2>6. cloneMishaps \subseteq cloneMishaps' BY <1>5
  <2> QED BY <1>1, <1>2, <1>3, <2>2, <2>3, <2>4, <2>5, <2>6, TabGoesOn
<1> QED BY <1>1, <1>4, <1>5 DEF StartAnswered

\* A question about the job is answered, or fails.
LEMMA PollKeeps ==
  ASSUME CloneInv, NEW t \in Cloners, Poll(t) \/ PollFails(t)
  PROVE  CloneInv'
<1>1. PICK f \in Follower : f = followers[t] /\ f.mode \in {"dialog", "background"}
  BY TabFacts DEF Poll, PollFails
<1>2. f.job \in Jobs /\ f.remembered = f.job /\ NoJob \notin Jobs /\ f.job \in Nat /\ f.failures \in Nat
  BY <1>1, TabFacts DEF FollowerIsSound, Follower
<1>3. UNCHANGED <<cloneJobs, folder, cloneMishaps>> /\ \A a \in announced : a[3] = "cloned" => Whole
  BY DEF Poll, PollFails, jobVars, CloneInv
<1>4. ASSUME NEW n \in Nat, Follow(t, [f EXCEPT !.failures = n]), announced' = announced PROVE CloneInv'
  <2>1. PICK g : g = [f EXCEPT !.failures = n] OBVIOUS
  <2>2. g \in Follower /\ g.mode = f.mode /\ g.remembered = f.job /\ g.job = f.job
    BY <1>2, <2>1 DEF Follower
  <2>3. followers' = [followers EXCEPT ![t] = g] BY <1>4, <2>1 DEF Follow
  <2>4. cloneJobs' = cloneJobs /\ folder' = folder /\ cloneMishaps \subseteq cloneMishaps'
    BY <1>1, <1>2, <1>3, <1>4, <2>2, <2>3
  <2>5. \A a \in announced' : a \in announced \/ (a[3] = "cloned" => Whole)
    BY <1>1, <1>2, <1>3, <1>4, <2>2, <2>3
  <2>6. \A k \in Jobs : cloneJobs[k].by = t /\ cloneJobs[k].state = "running"
                          /\ k \in {followers[t].job, followers[t].remembered} =>
                        k \in {g.job, g.remembered} \/ <<t, k>> \in cloneMishaps'
    BY <1>1, <1>2, <1>3, <1>4, <2>2, <2>3
  <2>7. /\ g.mode # "idle" => g.job \in Jobs
        /\ g.remembered \in Jobs \cup {NoJob}
        /\ g.mode \in {"dialog", "background", "resuming"} => g.job = g.remembered
        /\ g.mode = "idle" => g.job = NoJob
        /\ g.mode # "starting"
    BY <1>1, <1>2, <1>3, <1>4, <2>2, <2>3
  <2> QED BY <2>2, <2>3, <2>4, <2>5, <2>6, <2>7, TabGoesOn
<1>5. ASSUME NEW m \in {f.job, NoJob}, Follow(t, [f EXCEPT !.mode = "idle", !.job = NoJob, !.remembered = m, !.failures = 0]),
             m = NoJob => cloneJobs[f.job].state # "running",
             NEW what, announced' = announced \cup {<<t, f.job, what>>}, what = "cloned" => Whole
      PROVE  CloneInv'
  <2>1. PICK g : g = [f EXCEPT !.mode = "idle", !.job = NoJob, !.remembered = m, !.failures = 0]
    OBVIOUS
  <2>2. g \in Follower /\ g.mode = "idle" /\ g.remembered = m /\ g.job = NoJob
    <3>1. m \in Nat /\ NoJob \in Nat /\ 0 \in Nat BY <1>2 DEF NoJob
    <3> QED BY <2>1, <3>1 DEF Follower
  <2>3. followers' = [followers EXCEPT ![t] = g] BY <1>5, <2>1 DEF Follow
  <2>4. \A k \in Jobs : cloneJobs[k].state = "running" /\ k \in {f.job, f.remembered} => k = m
    BY <1>2, <1>5
  <2>5. \A a \in announced' : a \in announced \/ (a[3] = "cloned" => Whole) BY <1>5
  <2>6. cloneJobs' = cloneJobs /\ folder' = folder /\ cloneMishaps \subseteq cloneMishaps'
    BY <1>1, <1>2, <1>3, <2>2, <2>3, <2>4, <2>5
  <2>7. \A a \in announced' : a \in announced \/ (a[3] = "cloned" => Whole)
    BY <1>1, <1>2, <1>3, <2>2, <2>3, <2>4, <2>5
  <2>8. \A k \in Jobs : cloneJobs[k].by = t /\ cloneJobs[k].state = "running"
                          /\ k \in {followers[t].job, followers[t].remembered} =>
                        k \in {g.job, g.remembered} \/ <<t, k>> \in cloneMishaps'
    BY <1>1, <1>2, <1>3, <2>2, <2>3, <2>4, <2>5
  <2>9. /\ g.mode # "idle" => g.job \in Jobs
        /\ g.remembered \in Jobs \cup {NoJob}
        /\ g.mode \in {"dialog", "background", "resuming"} => g.job = g.remembered
        /\ g.mode = "idle" => g.job = NoJob
        /\ g.mode # "starting"
    BY <1>1, <1>2, <1>3, <2>2, <2>3, <2>4, <2>5
  <2> QED BY <2>2, <2>3, <2>6, <2>7, <2>8, <2>9, TabGoesOn
<1>6. CASE Poll(t)
  <2>1. CASE cloneJobs[f.job].state = "running" BY <1>1, <1>4, <1>6, <2>1 DEF Poll
  <2>2. CASE cloneJobs[f.job].state # "running"
    <3>1. Verdict(f.job) = "cloned" => Whole BY <1>2, <2>2 DEF Verdict, CloneInv, JobIsSound
    <3>2. StillRemembered(f) = NoJob BY <1>2 DEF StillRemembered
    <3>3. /\ Follow(t, [f EXCEPT !.mode = "idle", !.job = NoJob, !.remembered = NoJob, !.failures = 0])
          /\ announced' = announced \cup {<<t, f.job, Verdict(f.job)>>}
      BY <1>1, <1>6, <2>2, <3>2 DEF Poll
    <3> QED BY <1>5, <2>2, <3>1, <3>3
  <2> QED BY <2>1, <2>2
<1>7. CASE PollFails(t)
  <2>1. CASE f.failures + 1 < PollFailures
    <3>1. f.failures + 1 \in Nat /\ Follow(t, [f EXCEPT !.failures = f.failures + 1]) /\ announced' = announced
      BY <1>1, <1>2, <1>7, <2>1 DEF PollFails
    <3> QED BY <1>4, <3>1
  <2>2. CASE ~(f.failures + 1 < PollFailures)
    <3>1. /\ Follow(t, [f EXCEPT !.mode = "idle", !.job = NoJob, !.failures = 0])
          /\ announced' = announced \cup {<<t, f.job, "unreachable">>}
      BY <1>1, <1>7, <2>2 DEF PollFails
    <3>2. [f EXCEPT !.mode = "idle", !.job = NoJob, !.failures = 0] =
          [f EXCEPT !.mode = "idle", !.job = NoJob, !.remembered = f.job, !.failures = 0]
      BY <1>2 DEF Follower
    <3>3. Follow(t, [f EXCEPT !.mode = "idle", !.job = NoJob, !.remembered = f.job, !.failures = 0])
      BY <3>1, <3>2
    <3>4. f.job # NoJob BY <1>2
    <3> QED BY <1>5, <3>1, <3>3, <3>4
  <2> QED BY <2>1, <2>2
<1> QED BY <1>6, <1>7

\* The dialog is closed, the clone goes on.
LEMMA BackgroundKeeps ==
  ASSUME CloneInv, NEW t \in Cloners, RunInBackground(t)
  PROVE  CloneInv'
<1>1. PICK f \in Follower : f = followers[t] /\ f.mode = "dialog" BY TabFacts DEF RunInBackground
<1>2. f.job \in Jobs /\ f.remembered = f.job /\ NoJob \notin Jobs
  BY <1>1, TabFacts DEF FollowerIsSound
<1>3. UNCHANGED <<cloneJobs, folder, cloneMishaps, announced>> /\ \A a \in announced : a[3] = "cloned" => Whole
  BY DEF RunInBackground, jobVars, CloneInv
<1>4. PICK g : g = [f EXCEPT !.mode = "background", !.failures = 0] OBVIOUS
<1>5. g \in Follower /\ g.mode = "background" /\ g.remembered = f.job /\ g.job = f.job
  BY <1>2, <1>4 DEF Follower
<1>6. followers' = [followers EXCEPT ![t] = g] BY <1>1, <1>4 DEF RunInBackground, Follow, KeptInMind
<1>7. cloneJobs' = cloneJobs /\ folder' = folder /\ cloneMishaps \subseteq cloneMishaps'
  BY <1>1, <1>2, <1>3, <1>5, <1>6
<1>8. \A a \in announced' : a \in announced \/ (a[3] = "cloned" => Whole)
  BY <1>1, <1>2, <1>3, <1>5, <1>6
<1>9. \A k \in Jobs : cloneJobs[k].by = t /\ cloneJobs[k].state = "running"
                        /\ k \in {followers[t].job, followers[t].remembered} =>
                      k \in {g.job, g.remembered} \/ <<t, k>> \in cloneMishaps'
  BY <1>1, <1>2, <1>3, <1>5, <1>6
<1>10. /\ g.mode # "idle" => g.job \in Jobs
       /\ g.remembered \in Jobs \cup {NoJob}
       /\ g.mode \in {"dialog", "background", "resuming"} => g.job = g.remembered
       /\ g.mode = "idle" => g.job = NoJob
       /\ g.mode # "starting"
  BY <1>1, <1>2, <1>3, <1>5, <1>6
<1> QED BY <1>5, <1>6, <1>7, <1>8, <1>9, <1>10, TabGoesOn

\* The tab is loaded again, and takes up what it remembers.
LEMMA ReloadKeeps ==
  ASSUME CloneInv, NEW t \in Cloners, Reload(t)
  PROVE  CloneInv'
<1>1. PICK f \in Follower : f = followers[t] BY TabFacts
<1>2. f.remembered \in Jobs \cup {NoJob} /\ NoJob \notin Jobs /\ f.remembered \in Nat
  BY <1>1, TabFacts DEF FollowerIsSound, Follower
<1>3. UNCHANGED <<cloneJobs, folder, announced>> /\ \A a \in announced : a[3] = "cloned" => Whole
  BY DEF Reload, CloneInv
<1>4. PICK m \in {"idle", "resuming"} : m = IF f.remembered = NoJob THEN "idle" ELSE "resuming"
  OBVIOUS
<1>5. PICK g : g = [f EXCEPT !.mode = m, !.job = f.remembered, !.failures = 0] OBVIOUS
<1>6. g \in Follower /\ g.mode = m /\ g.remembered = f.remembered /\ g.job = f.remembered
  BY <1>2, <1>4, <1>5 DEF Follower
<1>7. followers' = [followers EXCEPT ![t] = g] BY <1>1, <1>4, <1>5 DEF Reload, Follow
<1>8. cloneMishaps' = cloneMishaps \cup (IF f.mode = "starting" THEN {<<t, f.job>>} ELSE {})
  BY <1>1 DEF Reload
<1>9. cloneMishaps \subseteq cloneMishaps' /\ (f.mode = "starting" => <<t, f.job>> \in cloneMishaps')
  BY <1>8
<1>10. \A k \in Jobs : k \in {f.job, f.remembered} => k = g.remembered \/ <<t, k>> \in cloneMishaps'
  <2>1. f.mode # "starting" => f.job = f.remembered \/ f.job = NoJob
    BY <1>1, TabFacts DEF FollowerIsSound, Follower
  <2> QED BY <1>2, <1>6, <1>9, <2>1
<1>11. (g.mode # "idle" => g.job \in Jobs) /\ (g.mode = "idle" => g.job = NoJob) /\ g.mode # "starting"
  BY <1>2, <1>4, <1>6
<1>12. cloneJobs' = cloneJobs /\ folder' = folder /\ cloneMishaps \subseteq cloneMishaps'
  BY <1>1, <1>2, <1>3, <1>6, <1>7, <1>9, <1>10, <1>11
<1>13. \A a \in announced' : a \in announced \/ (a[3] = "cloned" => Whole)
  BY <1>1, <1>2, <1>3, <1>6, <1>7, <1>9, <1>10, <1>11
<1>14. \A k \in Jobs : cloneJobs[k].by = t /\ cloneJobs[k].state = "running"
                         /\ k \in {followers[t].job, followers[t].remembered} =>
                       k \in {g.job, g.remembered} \/ <<t, k>> \in cloneMishaps'
  BY <1>1, <1>2, <1>3, <1>6, <1>7, <1>9, <1>10, <1>11
<1>15. /\ g.mode # "idle" => g.job \in Jobs
       /\ g.remembered \in Jobs \cup {NoJob}
       /\ g.mode \in {"dialog", "background", "resuming"} => g.job = g.remembered
       /\ g.mode = "idle" => g.job = NoJob
       /\ g.mode # "starting"
  BY <1>1, <1>2, <1>3, <1>6, <1>7, <1>9, <1>10, <1>11
<1> QED BY <1>6, <1>7, <1>12, <1>13, <1>14, <1>15, TabGoesOn

\* What it remembered is followed again, or forgotten.
LEMMA ResumeKeeps ==
  ASSUME CloneInv, NEW t \in Cloners, Resume(t)
  PROVE  CloneInv'
<1>1. PICK f \in Follower : f = followers[t] /\ f.mode = "resuming" BY TabFacts DEF Resume
<1>2. f.job \in Jobs /\ f.remembered = f.job /\ NoJob \notin Jobs
  BY <1>1, TabFacts DEF FollowerIsSound
<1>3. UNCHANGED <<cloneJobs, folder, announced>> /\ \A a \in announced : a[3] = "cloned" => Whole
  BY DEF Resume, jobVars, CloneInv
<1>4. CASE Follow(t, [f EXCEPT !.mode = "background"]) /\ UNCHANGED cloneMishaps
  <2>1. PICK g : g = [f EXCEPT !.mode = "background"] OBVIOUS
  <2>2. g \in Follower /\ g.mode = "background" /\ g.remembered = f.job /\ g.job = f.job
    BY <1>2, <2>1 DEF Follower
  <2>3. followers' = [followers EXCEPT ![t] = g] BY <1>4, <2>1 DEF Follow
  <2>4. cloneJobs' = cloneJobs /\ folder' = folder /\ cloneMishaps \subseteq cloneMishaps'
    BY <1>1, <1>2, <1>3, <1>4, <2>2, <2>3
  <2>5. \A a \in announced' : a \in announced \/ (a[3] = "cloned" => Whole)
    BY <1>1, <1>2, <1>3, <1>4, <2>2, <2>3
  <2>6. \A k \in Jobs : cloneJobs[k].by = t /\ cloneJobs[k].state = "running"
                          /\ k \in {followers[t].job, followers[t].remembered} =>
                        k \in {g.job, g.remembered} \/ <<t, k>> \in cloneMishaps'
    BY <1>1, <1>2, <1>3, <1>4, <2>2, <2>3
  <2>7. /\ g.mode # "idle" => g.job \in Jobs
        /\ g.remembered \in Jobs \cup {NoJob}
        /\ g.mode \in {"dialog", "background", "resuming"} => g.job = g.remembered
        /\ g.mode = "idle" => g.job = NoJob
        /\ g.mode # "starting"
    BY <1>1, <1>2, <1>3, <1>4, <2>2, <2>3
  <2> QED BY <2>2, <2>3, <2>4, <2>5, <2>6, <2>7, TabGoesOn
<1>5. CASE /\ Follow(t, [f EXCEPT !.mode = "idle", !.job = NoJob, !.remembered = NoJob])
           /\ cloneMishaps' = cloneMishaps \cup (IF cloneJobs[f.job].state # "gone" THEN {<<t, f.job>>} ELSE {})
  <2>1. PICK g : g = [f EXCEPT !.mode = "idle", !.job = NoJob, !.remembered = NoJob] OBVIOUS
  <2>2. g \in Follower /\ g.mode = "idle" /\ g.remembered = NoJob /\ g.job = NoJob
    BY <2>1 DEF Follower, NoJob
  <2>3. followers' = [followers EXCEPT ![t] = g] BY <1>5, <2>1 DEF Follow
  <2>4. cloneMishaps \subseteq cloneMishaps' /\ (cloneJobs[f.job].state = "running" => <<t, f.job>> \in cloneMishaps')
    BY <1>5
  <2>5. \A k \in Jobs : cloneJobs[k].state = "running" /\ k \in {f.job, f.remembered} => <<t, k>> \in cloneMishaps'
    BY <1>2, <2>4
  <2> QED BY <1>1, <1>2, <1>3, <2>2, <2>3, <2>4, <2>5, TabGoesOn
<1> QED BY <1>1, <1>4, <1>5 DEF Resume

\* A clone is cancelled: it is told, and goes on until it notices.
LEMMA CancellingKeeps ==
  ASSUME CloneInv, NEW t \in Cloners, CancelClone(t)
  PROVE  CloneInv'
<1>1. PICK j \in Jobs : j = followers[t].job BY TabFacts DEF CancelClone, FollowerIsSound
<1>2. PICK q \in CloneJob : q = cloneJobs[j] /\ q.state = "running" BY <1>1, AtWork DEF CancelClone
<1>3. PICK g : g = [q EXCEPT !.aborted = TRUE] OBVIOUS
<1>4. g \in CloneJob /\ g.stage = q.stage /\ g.state = "running" /\ g.by = q.by /\ g.kept = q.kept
  BY <1>2, <1>3 DEF CloneJob
<1>5. cloneJobs' = [cloneJobs EXCEPT ![j] = g] /\ folder' = folder /\ UNCHANGED <<followers, announced, cloneMishaps>>
  BY <1>1, <1>2, <1>3 DEF CancelClone, tabVars
<1>6. JobIsSound(j) /\ ~LeftSomething(g) /\ (Reserved(g) => Reserved(cloneJobs[j])) /\ folder \in CloneContent \cup {Absent}
  BY <1>2, <1>4, AtWork DEF LeftSomething, Reserved
<1>7. g.stage # "over" /\ ~g.kept /\ (g.stage \in {"preparing", "adopting"} => Whole')
  BY <1>2, <1>4, <1>5, <1>6 DEF JobIsSound, Whole
<1>8. Whole => Whole' BY <1>5 DEF Whole
<1> QED BY <1>2, <1>4, <1>5, <1>6, <1>7, <1>8, JobGoesOn

LEMMA ClonesStep == CloneInv /\ [ClonesNext]_cloneVars => CloneInv'
<1>1. ASSUME CloneInv, UNCHANGED cloneVars PROVE CloneInv'
  <2>1. Jobs' = Jobs BY <1>1 DEF cloneVars, Jobs
  <2> QED BY <1>1, <2>1 DEF cloneVars, CloneInv, CloneShape, JobIsSound, IsFollowed, FollowerIsSound, Whole
<1> QED BY <1>1, OthersWriteKeeps, ServerRestartKeeps, ReserveKeeps, GitKeeps, FailedJobKeeps, ClonedJobKeeps,
           ForgettingKeeps, CloneStartKeeps, AnswerKeeps, BackgroundKeeps, PollKeeps, CancellingKeeps, ReloadKeeps,
           ResumeKeeps DEF ClonesNext

\* No clone removes or clones into what others have in its folder, none loses a whole repository,
\* a running one is followed by the tab that started it, and what is said of its end is true
\* (CloneService, useCloneJob).
THEOREM ClonesStaySafe == ClonesSpec => ClonesAreSafe
<1>1. CloneInv => (folder # Absent => \A x, y \in folder : x = y)
  <2> SUFFICES ASSUME CloneInv, folder # Absent PROVE \A x, y \in folder : x = y
    OBVIOUS
  <2>1. folder \in CloneContent BY DEF CloneInv, CloneShape
  <2> QED BY <2>1 DEF CloneContent
<1>2. CloneInv => JobsAreFollowed /\ EndsAreTrue
  <2> SUFFICES ASSUME CloneInv PROVE JobsAreFollowed /\ EndsAreTrue
    OBVIOUS
  <2>1. JobsAreFollowed BY DEF CloneInv, IsFollowed, JobsAreFollowed
  <2>2. EndsAreTrue BY DEF CloneInv, JobIsSound, LeftSomething, Whole, EndsAreTrue
  <2> QED BY <2>1, <2>2
<1>3. CloneInv /\ [ClonesNext]_cloneVars => [\A x \in {"foreign", "whole"} : Holds(x) => Holds(x)']_cloneVars
  <2> SUFFICES ASSUME CloneInv, ClonesNext, NEW x \in {"foreign", "whole"}, Holds(x) PROVE Holds(x)'
    OBVIOUS
  <2>1. folder \in {{"whole"}, {"foreign"}} BY DEF CloneInv, CloneShape, CloneContent, Holds
  <2>2. folder' = folder BY <2>1, ContentStays DEF CloneInv
  <2> QED BY <2>2 DEF Holds
<1>4. ClonesSpec => []CloneInv BY ClonesBegin, ClonesStep, PTL DEF ClonesSpec
<1>5. ClonesSpec => [](folder # Absent => \A x, y \in folder : x = y) BY <1>1, <1>4, PTL
<1>6. ClonesSpec => [][\A x \in {"foreign", "whole"} : Holds(x) => Holds(x)']_cloneVars
  BY <1>3, <1>4, PTL DEF ClonesSpec
<1>7. ClonesSpec => [](JobsAreFollowed /\ EndsAreTrue) BY <1>2, <1>4, PTL
<1> QED BY <1>5, <1>6, <1>7 DEF ClonesAreSafe, NothingReplaced


------------------------------
(* Settings.  What the setter of p that comes last in the queue has set is *)
(* what the documents queued after it and memory have; what was confirmed is *)
(* on disk and in every document that is still to be written. *)

IsSet(q, i, p) == q[i].kind = "set" /\ q[i].part = p

LastSet(q, i, p) == IsSet(q, i, p) /\ \A k \in 1..Len(q) : i < k => ~IsSet(q, k, p)

\* From i on, what is queued says v of x.
Alike(q, i, x, v) == \A k \in 1..Len(q) : i <= k => q[k].snapshot[x] = v

\* Memory and the documents queued later say what the last setter has set.
LastIsKept(q, d, p) == \A i \in 1..Len(q) : LastSet(q, i, p) => d[p] = q[i].value /\ Alike(q, i, p, q[i].value)

\* One of the first n writes brings channel c to disk, and those after it leave it like that.
Brings(q, n, c, v) == \E i \in 1..Len(q) : i <= n /\ c \in q[i].channels /\ Alike(q, i, c, v)

\* What is said of a queue doesn't depend on the stages of its writes.
LEMMA StagesDontMatter ==
  ASSUME NEW q, NEW r, Len(q) = Len(r), Len(q) \in Nat,
         \A k \in 1..Len(q) : /\ r[k].kind = q[k].kind /\ r[k].part = q[k].part /\ r[k].value = q[k].value
                              /\ r[k].snapshot = q[k].snapshot /\ r[k].channels = q[k].channels
  PROVE  /\ \A i \in 1..Len(q) : \A p : IsSet(r, i, p) <=> IsSet(q, i, p)
         /\ \A d, p : LastIsKept(q, d, p) => LastIsKept(r, d, p)
         /\ \A i, x, v : Alike(q, i, x, v) => Alike(r, i, x, v)
         /\ \A n, c, v : Brings(q, n, c, v) => Brings(r, n, c, v)
<1>1. \A i \in 1..Len(q) : \A p : IsSet(r, i, p) <=> IsSet(q, i, p) BY DEF IsSet
<1>2. \A i \in 1..Len(q) : \A p : LastSet(r, i, p) => LastSet(q, i, p) BY <1>1 DEF LastSet
<1>3. \A i, x, v : Alike(q, i, x, v) => Alike(r, i, x, v) BY DEF Alike
<1>4. ASSUME NEW d, NEW p, LastIsKept(q, d, p) PROVE LastIsKept(r, d, p)
  BY <1>2, <1>3, <1>4 DEF LastIsKept
<1>5. ASSUME NEW n, NEW c, NEW v, Brings(q, n, c, v) PROVE Brings(r, n, c, v)
  BY <1>3, <1>5 DEF Brings
<1> QED BY <1>1, <1>3, <1>4, <1>5

\* The write that is first leaves the queue.
LEMMA FirstLeaves ==
  ASSUME NEW S, NEW q \in Seq(S), q # <<>>
  PROVE  /\ Tail(q) \in Seq(S) /\ Len(Tail(q)) = Len(q) - 1 /\ Len(q) \in Nat \ {0} /\ Head(q) = q[1] /\ q[1] \in S
         /\ \A k \in 1..(Len(q) - 1) : Tail(q)[k] = q[k + 1]
         /\ \A d, p : LastIsKept(q, d, p) => LastIsKept(Tail(q), d, p)
         /\ \A x, v : \A i \in Nat : Alike(q, i + 1, x, v) => Alike(Tail(q), i, x, v)
         /\ \A x, v : Alike(q, 1, x, v) => q[1].snapshot[x] = v /\ Alike(Tail(q), 1, x, v)
         /\ \A c, v : \A n \in Nat : Brings(q, n + 1, c, v) => Brings(Tail(q), n, c, v) \/ (c \in q[1].channels /\ Alike(q, 1, c, v))
<1> DEFINE t == Tail(q)
<1>1. /\ t \in Seq(S) /\ Len(t) = Len(q) - 1 /\ Len(q) \in Nat \ {0} /\ Head(q) = q[1] /\ q[1] \in S
      /\ \A k \in 1..(Len(q) - 1) : t[k] = q[k + 1]
  BY HeadTailProperties
<1>2. ASSUME NEW x, NEW v, NEW i \in Nat, Alike(q, i + 1, x, v) PROVE Alike(t, i, x, v)
  <2> SUFFICES ASSUME NEW k \in 1..Len(t), i <= k PROVE t[k].snapshot[x] = v
    BY DEF Alike
  <2>1. k + 1 \in 1..Len(q) /\ i + 1 <= k + 1 /\ t[k] = q[k + 1] BY <1>1
  <2> QED BY <1>2, <2>1 DEF Alike
<1>3. ASSUME NEW d, NEW p, LastIsKept(q, d, p) PROVE LastIsKept(t, d, p)
  <2> SUFFICES ASSUME NEW i \in 1..Len(t), LastSet(t, i, p) PROVE d[p] = t[i].value /\ Alike(t, i, p, t[i].value)
    BY DEF LastIsKept
  <2>1. i + 1 \in 1..Len(q) /\ t[i] = q[i + 1] /\ i \in Nat BY <1>1
  <2>2. IsSet(q, i + 1, p) BY <2>1 DEF LastSet, IsSet
  <2>3. ASSUME NEW k \in 1..Len(q), i + 1 < k PROVE ~IsSet(q, k, p)
    <3>1. k - 1 \in 1..Len(t) /\ i < k - 1 /\ t[k - 1] = q[(k - 1) + 1] /\ (k - 1) + 1 = k
      BY <1>1, <2>3
    <3> QED BY <3>1 DEF LastSet, IsSet
  <2>4. LastSet(q, i + 1, p) BY <2>2, <2>3 DEF LastSet
  <2> QED BY <1>2, <1>3, <2>1, <2>4 DEF LastIsKept
<1>4. ASSUME NEW c, NEW v, NEW n \in Nat, Brings(q, n + 1, c, v)
      PROVE  Brings(t, n, c, v) \/ (c \in q[1].channels /\ Alike(q, 1, c, v))
  <2>1. PICK i \in 1..Len(q) : i <= n + 1 /\ c \in q[i].channels /\ Alike(q, i, c, v)
    BY <1>4 DEF Brings
  <2>2. CASE i = 1 BY <2>1, <2>2
  <2>3. CASE i # 1
    <3>1. i - 1 \in 1..Len(t) /\ i - 1 \in Nat /\ i - 1 <= n /\ t[i - 1] = q[(i - 1) + 1] /\ (i - 1) + 1 = i
      BY <1>1, <2>1, <2>3
    <3> QED BY <1>2, <2>1, <3>1 DEF Brings
  <2> QED BY <2>2, <2>3
<1> HIDE DEF t
<1>5. ASSUME NEW x, NEW v, Alike(q, 1, x, v) PROVE q[1].snapshot[x] = v /\ Alike(t, 1, x, v)
  <2>1. Alike(q, 1 + 1, x, v) BY <1>5 DEF Alike
  <2>2. 1 \in 1..Len(q) BY <1>1
  <2>3. Alike(t, 1, x, v) BY <1>2, <2>1
  <2> QED BY <1>5, <2>2, <2>3 DEF Alike
<1>6. t = Tail(q) BY DEF t
<1> QED BY <1>1, <1>2, <1>3, <1>4, <1>5, <1>6

\* A write that is queued.
LEMMA LastJoins ==
  ASSUME NEW S, NEW q \in Seq(S), NEW w \in S
  PROVE  /\ Append(q, w) \in Seq(S) /\ Len(Append(q, w)) = Len(q) + 1 /\ Append(q, w)[Len(q) + 1] = w
         /\ \A k \in 1..Len(q) : Append(q, w)[k] = q[k]
         /\ \A x, v, i : w.snapshot[x] = v /\ Alike(q, i, x, v) => Alike(Append(q, w), i, x, v)
         /\ \A x, v : w.snapshot[x] = v => Alike(Append(q, w), Len(q) + 1, x, v)
         /\ \A c, v, n : w.snapshot[c] = v /\ Brings(q, n, c, v) => Brings(Append(q, w), n, c, v)
         /\ \A c, v : w.snapshot[c] = v /\ c \in w.channels => Brings(Append(q, w), Len(q) + 1, c, v)
         /\ \A d, p : LastIsKept(q, d, p) /\ w.snapshot[p] = d[p] /\ (IsSet(<<w>>, 1, p) => w.value = d[p]) =>
                      LastIsKept(Append(q, w), d, p)
         /\ \A d, p : IsSet(<<w>>, 1, p) /\ w.value = d[p] /\ w.snapshot[p] = d[p] => LastIsKept(Append(q, w), d, p)
<1> DEFINE a == Append(q, w)
<1>1. /\ a \in Seq(S) /\ Len(a) = Len(q) + 1 /\ a[Len(q) + 1] = w /\ Len(q) \in Nat
      /\ \A k \in 1..Len(q) : a[k] = q[k]
  BY AppendProperties, LenProperties
<1> HIDE DEF a
<1>2. ASSUME NEW k \in 1..Len(a) PROVE k \in 1..Len(q) \/ k = Len(q) + 1 BY <1>1
<1>3. ASSUME NEW x, NEW v, NEW i, w.snapshot[x] = v, Alike(q, i, x, v) PROVE Alike(a, i, x, v)
  <2> SUFFICES ASSUME NEW k \in 1..Len(a), i <= k PROVE a[k].snapshot[x] = v
    BY DEF Alike
  <2> QED BY <1>1, <1>2, <1>3 DEF Alike
<1>4. ASSUME NEW x, NEW v, w.snapshot[x] = v PROVE Alike(a, Len(q) + 1, x, v)
  <2> SUFFICES ASSUME NEW k \in 1..Len(a), Len(q) + 1 <= k PROVE a[k].snapshot[x] = v
    BY DEF Alike
  <2>1. k = Len(q) + 1 BY <1>1
  <2> QED BY <1>1, <1>4, <2>1
<1>5. ASSUME NEW c, NEW v, NEW n, w.snapshot[c] = v, Brings(q, n, c, v) PROVE Brings(a, n, c, v)
  <2>1. PICK i \in 1..Len(q) : i <= n /\ c \in q[i].channels /\ Alike(q, i, c, v) BY <1>5 DEF Brings
  <2>2. i \in 1..Len(a) /\ a[i] = q[i] BY <1>1
  <2> QED BY <1>3, <1>5, <2>1, <2>2 DEF Brings
<1>6. ASSUME NEW c, NEW v, w.snapshot[c] = v, c \in w.channels PROVE Brings(a, Len(q) + 1, c, v)
  <2>1. Len(q) + 1 \in 1..Len(a) /\ Len(q) + 1 <= Len(q) + 1 BY <1>1
  <2> QED BY <1>1, <1>4, <1>6, <2>1 DEF Brings
<1>7. ASSUME NEW d, NEW p, IsSet(<<w>>, 1, p), w.value = d[p], w.snapshot[p] = d[p] PROVE LastIsKept(a, d, p)
  <2> SUFFICES ASSUME NEW i \in 1..Len(a), LastSet(a, i, p) PROVE d[p] = a[i].value /\ Alike(a, i, p, a[i].value)
    BY DEF LastIsKept
  <2>1. IsSet(a, Len(q) + 1, p) /\ Len(q) + 1 \in 1..Len(a) BY <1>1, <1>7 DEF IsSet
  <2>2. i = Len(q) + 1 BY <1>1, <1>2, <2>1 DEF LastSet
  <2> QED BY <1>1, <1>4, <1>7, <2>2
<1>8. ASSUME NEW d, NEW p, LastIsKept(q, d, p), w.snapshot[p] = d[p], ~IsSet(<<w>>, 1, p) PROVE LastIsKept(a, d, p)
  <2> SUFFICES ASSUME NEW i \in 1..Len(a), LastSet(a, i, p) PROVE d[p] = a[i].value /\ Alike(a, i, p, a[i].value)
    BY DEF LastIsKept
  <2>1. ~IsSet(a, Len(q) + 1, p) BY <1>1, <1>8 DEF IsSet
  <2>2. i \in 1..Len(q) /\ a[i] = q[i] /\ IsSet(q, i, p) BY <1>1, <1>2, <2>1 DEF LastSet, IsSet
  <2>3. \A k \in 1..Len(q) : i < k => ~IsSet(q, k, p)
    <3> SUFFICES ASSUME NEW k \in 1..Len(q), i < k PROVE ~IsSet(q, k, p)
      OBVIOUS
    <3>1. k \in 1..Len(a) /\ a[k] = q[k] BY <1>1
    <3> QED BY <3>1 DEF LastSet, IsSet
  <2>4. d[p] = q[i].value /\ Alike(q, i, p, q[i].value) BY <1>8, <2>2, <2>3 DEF LastIsKept, LastSet
  <2> QED BY <1>3, <1>8, <2>2, <2>4
<1>9. a = Append(q, w) BY DEF a
<1> QED BY <1>1, <1>3, <1>4, <1>5, <1>6, <1>7, <1>8, <1>9


FlushStages == {"none", "first", "second", "third", "failed", "done"}

StoreShape ==
  /\ data \in Document /\ loaded \in BOOLEAN /\ bgError \in BOOLEAN /\ orphaned \in BOOLEAN
  /\ dirty \subseteq Channels /\ confused \subseteq ByValue /\ queue \in Seq(Write)
  /\ primary \in Document \cup {Null} /\ persisted \in Document \cup {Null} /\ backup \in Document
  /\ sure \in [Settings -> Values \cup {Null}]

FlushShape ==
  /\ flush \in [stage : FlushStages, left : Nat, own : BOOLEAN, values : Document, late : SUBSET Channels]
  /\ flush.left <= Len(queue)
  /\ flush.stage = "none" => flush.left = 0
  /\ loaded \/ (flush.stage = "none" /\ timers = {})

\* A setter's write has the setter's value; a write of load brings no channel.
WriteIsSound(w) ==
  /\ w.kind = "set" => w.part \in Settings /\ w.value = w.snapshot[w.part]
  /\ w.kind = "load" => w.channels = {}

\* Only the first write has begun; while it runs nothing counts as persisted.
QueueIsSound ==
  /\ \A i \in 1..Len(queue) : WriteIsSound(queue[i]) /\ (1 < i => queue[i].stage = "queued")
  /\ queue # <<>> => /\ queue[1].stage # "queued" => persisted = Null
                     /\ queue[1].stage = "backup" => primary \in {Null, queue[1].snapshot}
  /\ persisted # Null => backup = persisted /\ primary \in {Null, persisted}

HasData == loaded \/ queue # <<>>

\* The last setter of p succeeded: nothing that is queued sets it, and everything says its value.
SureIsStored(p) ==
  sure[p] # Null =>
    /\ \A i \in 1..Len(queue) : ~IsSet(queue, i, p)
    /\ Alike(queue, 1, p, sure[p])
    /\ backup[p] = sure[p]
    /\ primary # Null => primary[p] = sure[p]
    /\ HasData => data[p] = sure[p]

SettingHolds(p) == LastIsKept(queue, data, p) /\ SureIsStored(p)

\* The channel's value is on disk, and no write will take it away.
Stored(c) == backup[c] = data[c] /\ Alike(queue, 1, c, data[c])

\* What the flush still waits for brings c.
FlushBrings(c) ==
  IF flush.own THEN 1 <= flush.left /\ Alike(queue, flush.left, c, data[c])
  ELSE Brings(queue, flush.left, c, data[c])

ChannelHolds(c) ==
  /\ HasData /\ c \notin dirty => Stored(c) \/ Brings(queue, Len(queue), c, data[c])
  /\ flush.stage # "none" /\ c \notin flush.late =>
       /\ data[c] = flush.values[c]
       /\ flush.stage = "third" => Stored(c) \/ FlushBrings(c)
       /\ flush.stage = "done" => Stored(c)

SettingsInv ==
  /\ StoreShape /\ FlushShape /\ QueueIsSound
  /\ \A p \in Settings \ confused : SettingHolds(p)
  /\ orphaned \/ \A c \in Channels : ChannelHolds(c)


\* A snapshot of memory that is queued.
LEMMA SnapshotIsAWrite ==
  ASSUME SettingsInv, NEW kind \in {"set", "background", "load"}, NEW d \in Document, NEW p \in Settings, NEW v \in Values,
         NEW C \in SUBSET Channels
  PROVE  [kind |-> kind, snapshot |-> d, stage |-> "queued", part |-> p, value |-> d[p], previous |-> v, channels |-> C] \in Write
  BY DEF Write, Document, Parts

\* The queue stays sound when a write joins it.
LEMMA QueueGrows ==
  ASSUME SettingsInv, NEW w \in Write, w.stage = "queued", WriteIsSound(w), queue' = Append(queue, w), UNCHANGED Disk
  PROVE  QueueIsSound' /\ queue' \in Seq(Write) /\ Len(queue') = Len(queue) + 1 /\ Len(queue) \in Nat
<1>1. /\ queue' \in Seq(Write) /\ Len(queue') = Len(queue) + 1 /\ queue'[Len(queue) + 1] = w
      /\ \A k \in 1..Len(queue) : queue'[k] = queue[k]
  BY LastJoins DEF SettingsInv, StoreShape
<1>2. Len(queue) \in Nat /\ (queue = <<>> <=> Len(queue) = 0)
  BY LenProperties, EmptySeq DEF SettingsInv, StoreShape
<1>3. ASSUME NEW i \in 1..Len(queue') PROVE WriteIsSound(queue'[i]) /\ (1 < i => queue'[i].stage = "queued")
  <2>1. i \in 1..Len(queue) \/ i = Len(queue) + 1 BY <1>1, <1>2
  <2>2. CASE i \in 1..Len(queue) BY <1>1, <2>2 DEF SettingsInv, QueueIsSound
  <2>3. CASE i = Len(queue) + 1 BY <1>1, <2>3
  <2> QED BY <2>1, <2>2, <2>3
<1>4. /\ queue'[1].stage # "queued" => persisted' = Null
      /\ queue'[1].stage = "backup" => primary' \in {Null, queue'[1].snapshot}
  <2>1. CASE queue = <<>> BY <1>1, <1>2, <2>1
  <2>2. CASE queue # <<>>
    <3>1. queue'[1] = queue[1] BY <1>1, <1>2, <2>2
    <3> QED BY <2>2, <3>1 DEF SettingsInv, QueueIsSound, Disk
  <2> QED BY <2>1, <2>2
<1>5. persisted' # Null => backup' = persisted' /\ primary' \in {Null, persisted'}
  BY DEF SettingsInv, QueueIsSound, Disk
<1>6. \A i \in 1..Len(queue') : WriteIsSound(queue'[i]) /\ (1 < i => queue'[i].stage = "queued")
  BY <1>3
<1>7. QueueIsSound' BY <1>4, <1>5, <1>6 DEF QueueIsSound, WriteIsSound
<1> QED BY <1>1, <1>2, <1>7

\* A write that doesn't set p keeps what is said of p.
LEMMA SettingOutlasts ==
  ASSUME SettingsInv, HasData, NEW p \in Settings \ confused, NEW w \in Write, w.snapshot = data', queue' = Append(queue, w),
         ~(w.kind = "set" /\ w.part = p), data'[p] = data[p], sure'[p] = sure[p], UNCHANGED <<Disk, loaded>>
  PROVE  SettingHolds(p)'
<1>1. LastIsKept(queue, data, p) /\ SureIsStored(p) /\ queue \in Seq(Write)
  BY DEF SettingsInv, StoreShape, SettingHolds
<1>2. LastIsKept(queue, data', p) BY <1>1 DEF LastIsKept
<1>3. ~IsSet(<<w>>, 1, p) BY DEF IsSet
<1>4. LastIsKept(queue', data', p) BY <1>1, <1>2, <1>3, LastJoins
<1>5. ASSUME sure[p] # Null
      PROVE  /\ \A i \in 1..Len(queue') : ~IsSet(queue', i, p)
             /\ Alike(queue', 1, p, sure[p]) /\ data[p] = sure[p]
  <2>1. data[p] = sure[p] /\ Alike(queue, 1, p, sure[p]) BY <1>1, <1>5 DEF SureIsStored
  <2>2. Alike(queue', 1, p, sure[p]) BY <1>1, <2>1, LastJoins
  <2>3. ASSUME NEW i \in 1..Len(queue') PROVE ~IsSet(queue', i, p)
    <3>1. i \in 1..Len(queue) \/ i = Len(queue) + 1 BY <1>1, LenProperties, LastJoins
    <3>2. CASE i \in 1..Len(queue) BY <1>1, <1>5, <3>2, LastJoins DEF SureIsStored, IsSet
    <3>3. CASE i = Len(queue) + 1 BY <1>1, <3>3, LastJoins DEF IsSet
    <3> QED BY <3>1, <3>2, <3>3
  <2> QED BY <2>1, <2>2, <2>3
<1>6. SureIsStored(p)' BY <1>1, <1>5 DEF SureIsStored, HasData, Disk
<1> QED BY <1>4, <1>6 DEF SettingHolds

\* What becomes of the channels when what is dirty is saved.
LEMMA SaveBrings ==
  ASSUME SettingsInv, HasData, NEW w \in Write, w.snapshot = data', w.channels = dirty, queue' = Append(queue, w),
         dirty' = {}, UNCHANGED Disk, NEW c \in Channels, data'[c] = data[c]
  PROVE  /\ ChannelHolds(c) => Stored(c)' \/ Brings(queue', Len(queue'), c, data'[c])
         /\ Stored(c) => Stored(c)'
         /\ FlushShape /\ FlushBrings(c) /\ flush' = flush => FlushBrings(c)'
         /\ 1 <= Len(queue') /\ Alike(queue', Len(queue'), c, data'[c])
<1>1. queue \in Seq(Write) /\ Len(queue) \in Nat BY LenProperties DEF SettingsInv, StoreShape
<1>2. Len(queue') = Len(queue) + 1 /\ Alike(queue', Len(queue'), c, data'[c])
  <2>1. Len(queue') = Len(queue) + 1 BY <1>1, LastJoins
  <2>2. Alike(queue', Len(queue) + 1, c, data'[c]) BY <1>1, LastJoins
  <2> QED BY <2>1, <2>2
<1>3. Stored(c) => Stored(c)'
  <2> SUFFICES ASSUME Stored(c) PROVE Stored(c)'
    OBVIOUS
  <2>1. Alike(queue', 1, c, data[c]) BY <1>1, LastJoins DEF Stored
  <2> QED BY <2>1 DEF Stored, Disk
<1>4. \A n : Brings(queue, n, c, data[c]) => Brings(queue', n, c, data'[c]) BY <1>1, LastJoins
<1>5. ASSUME ChannelHolds(c) PROVE Stored(c)' \/ Brings(queue', Len(queue'), c, data'[c])
  <2>1. CASE c \in dirty
    <3>1. Brings(queue', Len(queue) + 1, c, data'[c]) BY <1>1, <2>1, LastJoins
    <3> QED BY <1>2, <3>1
  <2>2. CASE c \notin dirty
    <3>1. Stored(c) \/ Brings(queue, Len(queue), c, data[c]) BY <1>5, <2>2 DEF ChannelHolds
    <3>2. Brings(queue', Len(queue), c, data'[c]) => Brings(queue', Len(queue'), c, data'[c])
      BY <1>1, <1>2 DEF Brings
    <3> QED BY <1>3, <1>4, <3>1, <3>2
  <2> QED BY <2>1, <2>2
<1>6. ASSUME FlushBrings(c), flush' = flush PROVE FlushBrings(c)'
  <2>1. Alike(queue, flush.left, c, data[c]) => Alike(queue', flush.left, c, data[c])
    BY <1>1, LastJoins
  <2> QED BY <1>4, <1>6, <2>1 DEF FlushBrings
<1> QED BY <1>1, <1>2, <1>3, <1>5, <1>6


\* A setter: what it sets becomes the last that was set, and its write brings what was dirty.
LEMMA SetKeeps ==
  ASSUME SettingsInv, Set PROVE SettingsInv'
<1>1. PICK p \in Settings, v \in Values :
        /\ data' = [data EXCEPT ![p] = v]
        /\ queue' = Enqueued("set", data', p, data[p], dirty)
        /\ sure' = [sure EXCEPT ![p] = Null]
  BY DEF Set
<1>2. /\ loaded /\ dirty' = {} /\ bgError' = FALSE
      /\ UNCHANGED <<loaded, primary, backup, persisted, flush, orphaned, confused>>
  BY DEF Set, Disk
<1>3. /\ data \in Document /\ dirty \subseteq Channels /\ queue \in Seq(Write) /\ sure \in [Settings -> Values \cup {Null}]
      /\ p \in Parts /\ \A c \in Channels : c \in Parts /\ c # p
  BY SettingsAssumption DEF SettingsInv, StoreShape, Parts
<1>4. data' \in Document /\ data'[p] = v /\ \A x \in Parts : x # p => data'[x] = data[x]
  BY <1>1, <1>3 DEF Document
<1> DEFINE w == [kind |-> "set", snapshot |-> data', stage |-> "queued", part |-> p,
                 value |-> data'[p], previous |-> data[p], channels |-> dirty]
<1>5. w \in Write /\ WriteIsSound(w) /\ queue' = Append(queue, w) /\ w.snapshot = data' /\ w.channels = dirty /\ w.stage = "queued"
  <2>1. data[p] \in Values BY <1>3 DEF Document
  <2>2. w \in Write BY <1>3, <1>4, <2>1 DEF Write
  <2> QED BY <1>1, <2>2 DEF WriteIsSound, Enqueued
<1>6. w.kind = "set" /\ w.part = p /\ w.value = data'[p] OBVIOUS
<1> HIDE DEF w
<1>7. QueueIsSound' /\ queue' \in Seq(Write) /\ Len(queue') = Len(queue) + 1 /\ Len(queue) \in Nat
  BY <1>2, <1>5, QueueGrows DEF Disk
<1>8. sure' \in [Settings -> Values \cup {Null}] /\ sure'[p] = Null /\ \A x \in Settings : x # p => sure'[x] = sure[x]
  BY <1>1, <1>3
<1>9. StoreShape' BY <1>2, <1>4, <1>7, <1>8 DEF SettingsInv, StoreShape
<1>10. FlushShape' BY <1>2, <1>7 DEF SettingsInv, FlushShape
<1>11. HasData BY <1>2 DEF HasData
<1>12. ASSUME NEW x \in Settings \ confused PROVE SettingHolds(x)'
  <2>1. CASE x # p
    <3>1. data'[x] = data[x] /\ sure'[x] = sure[x] BY <1>4, <1>8, <2>1 DEF Parts
    <3> QED BY <1>2, <1>5, <1>6, <1>11, <2>1, <3>1, SettingOutlasts DEF Disk
  <2>2. CASE x = p
    <3>1. IsSet(<<w>>, 1, p) BY <1>6 DEF IsSet
    <3>2. LastIsKept(queue', data', p) BY <1>3, <1>5, <1>6, <3>1, LastJoins
    <3> QED BY <1>8, <2>2, <3>2 DEF SettingHolds, SureIsStored
  <2> QED BY <2>1, <2>2
<1>13. ASSUME NEW c \in Channels, ChannelHolds(c) PROVE ChannelHolds(c)'
  <2>1. data'[c] = data[c] BY <1>3, <1>4
  <2>2. /\ Stored(c)' \/ Brings(queue', Len(queue'), c, data'[c])
        /\ Stored(c) => Stored(c)'
        /\ FlushBrings(c) => FlushBrings(c)'
    BY <1>2, <1>5, <1>11, <1>13, <2>1, SaveBrings DEF Disk, SettingsInv
  <2> QED BY <1>2, <1>13, <2>1, <2>2 DEF ChannelHolds
<1> QED BY <1>2, <1>7, <1>9, <1>10, <1>12, <1>13 DEF SettingsInv

\* A channel that is set is dirty, and late for a flush that has begun.
LEMMA SetInBackgroundKeeps ==
  ASSUME SettingsInv, SetInBackground PROVE SettingsInv'
<1>1. PICK c \in Channels, v \in Values :
        /\ data' = [data EXCEPT ![c] = v]
        /\ dirty' = dirty \cup {c} /\ flush' = Later(c)
  BY DEF SetInBackground
<1>2. loaded /\ UNCHANGED <<loaded, bgError, queue, primary, backup, persisted, sure, orphaned, confused>>
  BY DEF SetInBackground, Disk
<1>3. /\ data \in Document /\ c \in Parts
      /\ flush \in [stage : FlushStages, left : Nat, own : BOOLEAN, values : Document, late : SUBSET Channels]
  BY DEF SettingsInv, StoreShape, FlushShape, Parts
<1>4. data' \in Document /\ \A x \in Parts : x # c => data'[x] = data[x] BY <1>1, <1>3 DEF Document
<1>5. /\ flush' \in [stage : FlushStages, left : Nat, own : BOOLEAN, values : Document, late : SUBSET Channels]
      /\ flush'.stage = flush.stage /\ flush'.left = flush.left /\ flush'.own = flush.own /\ flush'.values = flush.values
      /\ flush.stage # "none" => flush'.late = flush.late \cup {c}
      /\ flush.stage = "none" => flush' = flush
  <2>1. CASE flush.stage = "none" BY <1>1, <1>3, <2>1 DEF Later
  <2>2. CASE flush.stage # "none"
    <3> HIDE DEF Document
    <3>1. PICK L \in SUBSET Channels : L = flush.late \cup {c} BY <1>3
    <3>2. flush' = [flush EXCEPT !.late = L] BY <1>1, <2>2, <3>1 DEF Later
    <3> QED BY <1>3, <2>2, <3>1, <3>2
  <2> QED BY <2>1, <2>2
<1>6. StoreShape' BY <1>1, <1>2, <1>4 DEF SettingsInv, StoreShape
<1>7. FlushShape' BY <1>2, <1>5 DEF SettingsInv, FlushShape
<1>8. QueueIsSound' BY <1>2 DEF SettingsInv, QueueIsSound, WriteIsSound
<1>9. ASSUME NEW p \in Settings \ confused PROVE SettingHolds(p)'
  <2>1. data'[p] = data[p] BY <1>4, SettingsAssumption DEF Parts
  <2>2. LastIsKept(queue, data', p) BY <2>1 DEF SettingsInv, SettingHolds, LastIsKept
  <2>3. SureIsStored(p)' BY <1>2, <2>1 DEF SettingsInv, SettingHolds, SureIsStored, HasData
  <2> QED BY <1>2, <2>2, <2>3 DEF SettingHolds
<1>10. ASSUME NEW x \in Channels, ChannelHolds(x) PROVE ChannelHolds(x)'
  <2>1. CASE x = c BY <1>1, <1>5, <2>1 DEF ChannelHolds
  <2>2. CASE x # c
    <3>1. data'[x] = data[x] /\ (x \in dirty' <=> x \in dirty) BY <1>1, <1>4, <2>2 DEF Parts
    <3>2. (Stored(x)' <=> Stored(x)) /\ (FlushBrings(x)' <=> FlushBrings(x)) /\ (HasData' <=> HasData)
      BY <1>2, <1>5, <3>1 DEF Stored, FlushBrings, HasData
    <3>3. flush.stage # "none" => (x \in flush'.late <=> x \in flush.late) BY <1>5, <2>2
    <3> QED BY <1>2, <1>5, <1>10, <3>1, <3>2, <3>3 DEF ChannelHolds
  <2> QED BY <2>1, <2>2
<1> QED BY <1>2, <1>6, <1>7, <1>8, <1>9, <1>10 DEF SettingsInv


\* Saving what is dirty, when there is anything.
LEMMA SaveKeeps ==
  ASSUME SettingsInv, loaded, SaveBackground, UNCHANGED <<data, loaded, Disk, sure, orphaned, confused>>
  PROVE  /\ StoreShape' /\ QueueIsSound' /\ Len(queue') \in Nat /\ Len(queue) <= Len(queue') /\ dirty' = {}
         /\ \A p \in Settings \ confused : SettingHolds(p)'
         /\ \A c \in Channels : /\ ChannelHolds(c) => Stored(c)' \/ Brings(queue', Len(queue'), c, data'[c])
                                /\ Stored(c) => Stored(c)'
                                /\ FlushBrings(c) /\ flush' = flush => FlushBrings(c)'
                                /\ dirty # {} => 1 <= Len(queue') /\ Alike(queue', Len(queue'), c, data'[c])
<1>1. queue \in Seq(Write) /\ Len(queue) \in Nat /\ HasData /\ HasData'
  BY LenProperties DEF SettingsInv, StoreShape, HasData
<1>2. CASE dirty = {}
  <2>1. dirty' = {} /\ UNCHANGED <<dirty, bgError, queue, data, loaded, primary, backup, persisted, sure, orphaned, confused>>
    BY <1>2 DEF SaveBackground, Disk
  <2>2. StoreShape' BY <2>1 DEF SettingsInv, StoreShape
  <2>3. QueueIsSound' BY <2>1 DEF SettingsInv, QueueIsSound, WriteIsSound
  <2>4. ASSUME NEW p \in Settings \ confused PROVE SettingHolds(p)'
    BY <2>1 DEF SettingsInv, SettingHolds, SureIsStored, HasData
  <2>5. ASSUME NEW c \in Channels
        PROVE  /\ ChannelHolds(c) => Stored(c)' \/ Brings(queue', Len(queue'), c, data'[c])
               /\ Stored(c) => Stored(c)'
               /\ FlushBrings(c) /\ flush' = flush => FlushBrings(c)'
    <3>1. ChannelHolds(c) => Stored(c) \/ Brings(queue, Len(queue), c, data[c])
      BY <1>1, <1>2 DEF ChannelHolds
    <3>2. (Stored(c) <=> Stored(c)') /\ (FlushBrings(c) /\ flush' = flush => FlushBrings(c)')
      BY <2>1 DEF Stored, FlushBrings
    <3> QED BY <2>1, <3>1, <3>2
  <2> QED BY <1>1, <1>2, <2>1, <2>2, <2>3, <2>4, <2>5
<1>3. CASE dirty # {}
  <2> DEFINE w == [kind |-> "background", snapshot |-> data, stage |-> "queued", part |-> NoSetter,
                   value |-> data[NoSetter], previous |-> 0, channels |-> dirty]
  <2>1. queue' = Append(queue, w) /\ dirty' = {} /\ bgError' = FALSE
    BY <1>3 DEF SaveBackground, Enqueued
  <2>2. NoSetter \in Settings BY SettingsAssumption DEF NoSetter
  <2>3. w \in Write
    <3>1. data \in Document /\ dirty \in SUBSET Channels /\ 0 \in Values
      BY SettingsAssumption DEF SettingsInv, StoreShape
    <3> QED BY <2>2, <3>1, SnapshotIsAWrite
  <2>4. /\ WriteIsSound(w) /\ w.snapshot = data' /\ w.channels = dirty /\ w.stage = "queued" /\ w.kind = "background"
        /\ UNCHANGED <<data, loaded, primary, backup, persisted, sure, orphaned, confused>>
    BY DEF WriteIsSound, Disk
  <2> HIDE DEF w
  <2>5. QueueIsSound' /\ queue' \in Seq(Write) /\ Len(queue') = Len(queue) + 1
    BY <2>1, <2>3, <2>4, QueueGrows DEF Disk
  <2>6. StoreShape' BY <2>1, <2>4, <2>5 DEF SettingsInv, StoreShape
  <2>7. ASSUME NEW p \in Settings \ confused PROVE SettingHolds(p)'
    BY <1>1, <2>1, <2>3, <2>4, SettingOutlasts DEF Disk
  <2>8. ASSUME NEW c \in Channels
        PROVE  /\ ChannelHolds(c) => Stored(c)' \/ Brings(queue', Len(queue'), c, data'[c])
               /\ Stored(c) => Stored(c)'
               /\ FlushBrings(c) /\ flush' = flush => FlushBrings(c)'
               /\ 1 <= Len(queue') /\ Alike(queue', Len(queue'), c, data'[c])
    BY <1>1, <2>1, <2>3, <2>4, SaveBrings DEF Disk, SettingsInv
  <2> QED BY <1>1, <2>1, <2>5, <2>6, <2>7, <2>8
<1> QED BY <1>2, <1>3

LEMMA TimerKeeps ==
  ASSUME SettingsInv, Timer PROVE SettingsInv'
<1>1. SaveBackground /\ UNCHANGED <<data, loaded, Disk, flush, sure, orphaned, confused>>
  BY DEF Timer
<1>2. CASE loaded
  <2>1. /\ StoreShape' /\ QueueIsSound' /\ Len(queue') \in Nat /\ Len(queue) <= Len(queue') /\ dirty' = {}
        /\ \A p \in Settings \ confused : SettingHolds(p)'
        /\ \A c \in Channels : /\ ChannelHolds(c) => Stored(c)' \/ Brings(queue', Len(queue'), c, data'[c])
                               /\ Stored(c) => Stored(c)'
                               /\ FlushBrings(c) => FlushBrings(c)'
    BY <1>1, <1>2, SaveKeeps
  <2>2. FlushShape' BY <1>1, <1>2, <2>1, LenProperties DEF SettingsInv, StoreShape, FlushShape
  <2>3. ASSUME NEW c \in Channels, ChannelHolds(c) PROVE ChannelHolds(c)'
    BY <1>1, <2>1, <2>3 DEF ChannelHolds
  <2> QED BY <1>1, <2>1, <2>2, <2>3 DEF SettingsInv
<1>3. loaded BY DEF Timer, SettingsInv, FlushShape
<1> QED BY <1>2, <1>3


LEMMA FlushBeginKeeps ==
  ASSUME SettingsInv, FlushBegin PROVE SettingsInv'
<1>1. /\ SaveBackground /\ loaded /\ UNCHANGED <<data, loaded, Disk, sure, orphaned, confused>>
      /\ flush' = [stage |-> "first", left |-> Len(queue'), own |-> dirty # {}, values |-> data, late |-> {}]
  BY DEF FlushBegin, FlushSaves
<1>2. /\ StoreShape' /\ QueueIsSound' /\ Len(queue') \in Nat /\ dirty' = {}
      /\ \A p \in Settings \ confused : SettingHolds(p)'
      /\ \A c \in Channels : ChannelHolds(c) => Stored(c)' \/ Brings(queue', Len(queue'), c, data'[c])
  BY <1>1, SaveKeeps
<1>3. FlushShape'
  <2>1. data \in Document /\ (dirty # {}) \in BOOLEAN /\ {} \in SUBSET Channels
    BY DEF SettingsInv, StoreShape
  <2>2. flush' \in [stage : FlushStages, left : Nat, own : BOOLEAN, values : Document, late : SUBSET Channels]
    <3> HIDE DEF Document
    <3> QED BY <1>1, <1>2, <2>1 DEF FlushStages
  <2> QED BY <1>1, <1>2, <2>2 DEF FlushShape
<1>4. ASSUME NEW c \in Channels, ChannelHolds(c) PROVE ChannelHolds(c)'
  BY <1>1, <1>2, <1>4 DEF ChannelHolds
<1> QED BY <1>1, <1>2, <1>3, <1>4 DEF SettingsInv

LEMMA FlushNextKeeps ==
  ASSUME SettingsInv, FlushNext PROVE SettingsInv'
<1>1. /\ flush.left = 0 /\ UNCHANGED <<data, loaded, timers, primary, backup, persisted, sure, orphaned, confused>>
      /\ flush \in [stage : FlushStages, left : Nat, own : BOOLEAN, values : Document, late : SUBSET Channels]
      /\ Len(queue) \in Nat
  BY LenProperties DEF FlushNext, Disk, SettingsInv, FlushShape, StoreShape
<1>2. loaded BY DEF FlushNext, SettingsInv, FlushShape
\* The flush moves on, and nothing is saved.
<1>3. ASSUME UNCHANGED <<dirty, bgError, queue>>,
             flush' \in [stage : FlushStages, left : Nat, own : BOOLEAN, values : Document, late : SUBSET Channels],
             flush'.values = flush.values, flush'.late = flush.late, flush'.left <= Len(queue), flush.stage # "none",
             flush'.stage \in {"second", "failed", "done"}, flush'.stage = "done" => flush.stage = "third"
      PROVE  SettingsInv'
  <2>1. StoreShape' /\ QueueIsSound' /\ FlushShape'
    BY <1>1, <1>2, <1>3 DEF SettingsInv, StoreShape, QueueIsSound, WriteIsSound, FlushShape
  <2>2. ASSUME NEW p \in Settings \ confused PROVE SettingHolds(p)'
    BY <1>1, <1>3 DEF SettingsInv, SettingHolds, SureIsStored, HasData
  <2>3. ASSUME NEW c \in Channels, ChannelHolds(c) PROVE ChannelHolds(c)'
    <3>1. (Stored(c)' <=> Stored(c)) /\ (HasData' <=> HasData) BY <1>1, <1>3 DEF Stored, HasData
    <3>2. flush.stage = "third" /\ c \notin flush.late => Stored(c)
      <4>1. ~FlushBrings(c) BY <1>1 DEF FlushBrings, Brings
      <4> QED BY <2>3, <4>1 DEF ChannelHolds
    <3> QED BY <1>1, <1>3, <2>3, <3>1, <3>2 DEF ChannelHolds
  <2> QED BY <1>1, <2>1, <2>2, <2>3 DEF SettingsInv
<1>4. CASE flush.stage = "first" /\ UNCHANGED <<dirty, bgError, queue>> /\ Await("second", FALSE)
  <2>1. flush' = [flush EXCEPT !.stage = "second", !.left = Len(queue), !.own = FALSE]
    BY <1>4 DEF Await
  <2>2. flush' \in [stage : FlushStages, left : Nat, own : BOOLEAN, values : Document, late : SUBSET Channels]
    BY <1>1, <2>1 DEF FlushStages
  <2> QED BY <1>1, <1>3, <1>4, <2>1, <2>2
<1>5. CASE flush.stage = "third" /\ UNCHANGED <<dirty, bgError, queue>> /\ flush' = [flush EXCEPT !.stage = IF bgError THEN "failed" ELSE "done"]
  <2>1. PICK s \in {"failed", "done"} : flush' = [flush EXCEPT !.stage = s] BY <1>5
  <2>2. flush' \in [stage : FlushStages, left : Nat, own : BOOLEAN, values : Document, late : SUBSET Channels]
    BY <1>1, <2>1 DEF FlushStages
  <2> QED BY <1>1, <1>3, <1>5, <2>1, <2>2
<1>6. CASE flush.stage = "second" /\ FlushSaves /\ Await("third", dirty # {})
  <2>1. SaveBackground /\ flush' = [flush EXCEPT !.stage = "third", !.left = Len(queue'), !.own = (dirty # {})]
    BY <1>6 DEF FlushSaves, Await
  <2>2. /\ StoreShape' /\ QueueIsSound' /\ Len(queue') \in Nat /\ dirty' = {}
        /\ \A p \in Settings \ confused : SettingHolds(p)'
        /\ \A c \in Channels : /\ ChannelHolds(c) => Stored(c)' \/ Brings(queue', Len(queue'), c, data'[c])
                               /\ dirty # {} => 1 <= Len(queue') /\ Alike(queue', Len(queue'), c, data'[c])
    BY <1>1, <1>2, <2>1, SaveKeeps DEF Disk
  <2>3. PICK b \in BOOLEAN : b = (dirty # {}) OBVIOUS
  <2>4. flush' = [flush EXCEPT !.stage = "third", !.left = Len(queue'), !.own = b] BY <2>1, <2>3
  <2>5. /\ flush' \in [stage : FlushStages, left : Nat, own : BOOLEAN, values : Document, late : SUBSET Channels]
        /\ flush'.stage = "third" /\ flush'.left = Len(queue') /\ flush'.own = b /\ flush'.values = flush.values /\ flush'.late = flush.late
    BY <1>1, <2>2, <2>4 DEF FlushStages
  <2>6. FlushShape' BY <1>1, <1>2, <2>2, <2>5 DEF FlushShape
  <2>7. ASSUME NEW c \in Channels, ChannelHolds(c) PROVE ChannelHolds(c)'
    <3>1. Stored(c)' \/ Brings(queue', Len(queue'), c, data'[c]) BY <2>2, <2>7
    <3>2. Stored(c)' \/ FlushBrings(c)' BY <2>2, <2>3, <2>5, <3>1 DEF FlushBrings
    <3> QED BY <1>1, <1>6, <2>5, <2>7, <3>1, <3>2 DEF ChannelHolds
  <2> QED BY <1>1, <2>2, <2>6, <2>7 DEF SettingsInv
<1> QED BY <1>4, <1>5, <1>6 DEF FlushNext

\* The process ends: memory and the queue are gone, what is on disk stays.
LEMMA StopKeeps ==
  ASSUME SettingsInv, StopSettings PROVE SettingsInv'
<1>1. /\ data' = Defaults /\ loaded' = FALSE /\ dirty' = {} /\ timers' = {} /\ bgError' = FALSE
      /\ queue' = <<>> /\ persisted' = Null /\ flush' = NoFlush /\ orphaned' = FALSE
      /\ UNCHANGED <<primary, backup, sure, confused>>
  BY DEF StopSettings
<1>2. Defaults \in Document BY SettingsAssumption DEF Defaults, Document
<1>3. queue' \in Seq(Write) /\ Len(queue') = 0 BY <1>1, EmptySeq
<1>4. StoreShape' BY <1>1, <1>2, <1>3 DEF SettingsInv, StoreShape
<1>5. FlushShape' BY <1>1, <1>2, <1>3 DEF FlushShape, FlushStages, NoFlush
<1>6. QueueIsSound' BY <1>1, <1>3 DEF QueueIsSound
<1>7. ASSUME NEW p \in Settings \ confused PROVE SettingHolds(p)'
  BY <1>1, <1>3, <1>7 DEF SettingsInv, SettingHolds, SureIsStored, LastIsKept, Alike, HasData
<1>8. ASSUME NEW c \in Channels PROVE ChannelHolds(c)' BY <1>1 DEF ChannelHolds, HasData, NoFlush
<1> QED BY <1>1, <1>4, <1>5, <1>6, <1>7, <1>8 DEF SettingsInv

LEMMA DamageKeeps ==
  ASSUME SettingsInv, Damage PROVE SettingsInv'
<1>1. primary' = Null /\ UNCHANGED <<data, loaded, dirty, timers, bgError, queue, persisted, backup, flush, sure, orphaned, confused>>
  BY DEF Damage
<1>2. StoreShape' /\ FlushShape' BY <1>1 DEF SettingsInv, StoreShape, FlushShape
<1>3. QueueIsSound' BY <1>1 DEF SettingsInv, QueueIsSound, WriteIsSound
<1>4. ASSUME NEW p \in Settings \ confused PROVE SettingHolds(p)'
  BY <1>1 DEF SettingsInv, SettingHolds, SureIsStored, HasData
<1>5. ASSUME NEW c \in Channels, ChannelHolds(c) PROVE ChannelHolds(c)'
  BY <1>1, <1>5 DEF ChannelHolds, Stored, FlushBrings, HasData
<1> QED BY <1>1, <1>2, <1>3, <1>4, <1>5 DEF SettingsInv

\* The start reads the file or, when that is ruined, the backup: either has what was confirmed.
LEMMA LoadKeeps ==
  ASSUME SettingsInv, Load PROVE SettingsInv'
<1>1. ~loaded /\ queue = <<>> /\ UNCHANGED <<dirty, timers, bgError, primary, flush, sure, orphaned, confused>>
  BY DEF Load
<1>2. Null \notin Document BY SettingsAssumption DEF Document, Parts
<1>3. Len(queue) = 0 /\ queue \in Seq(Write) /\ backup \in Document /\ flush.stage = "none"
  BY <1>1, EmptySeq DEF SettingsInv, StoreShape, FlushShape
<1>4. CASE primary # Null
  <2>1. data' = primary /\ backup' = primary /\ persisted' = primary /\ loaded' = TRUE /\ UNCHANGED queue /\ primary \in Document
    BY <1>4 DEF Load, SettingsInv, StoreShape
  <2>2. StoreShape' /\ FlushShape' BY <1>1, <2>1 DEF SettingsInv, StoreShape, FlushShape
  <2>3. QueueIsSound' BY <1>1, <1>3, <2>1 DEF QueueIsSound
  <2>4. ASSUME NEW p \in Settings \ confused PROVE SettingHolds(p)'
    BY <1>1, <1>3, <1>4, <2>1 DEF SettingsInv, SettingHolds, SureIsStored, LastIsKept, Alike, HasData
  <2>5. ASSUME NEW c \in Channels PROVE ChannelHolds(c)'
    BY <1>1, <1>3, <2>1 DEF ChannelHolds, Stored, Alike
  <2> QED BY <1>1, <2>2, <2>3, <2>4, <2>5 DEF SettingsInv
<1>5. CASE primary = Null
  <2> DEFINE w == [kind |-> "load", snapshot |-> backup, stage |-> "queued", part |-> NoSetter,
                   value |-> backup[NoSetter], previous |-> 0, channels |-> {}]
  <2>1. data' = backup /\ queue' = Append(queue, w) /\ UNCHANGED <<backup, persisted, loaded>>
    BY <1>2, <1>3, <1>5 DEF Load, Fallback, Enqueued
  <2>2. w \in Write
    <3>1. NoSetter \in Settings /\ 0 \in Values /\ {} \in SUBSET Channels
      BY SettingsAssumption DEF NoSetter
    <3> QED BY <1>3, <3>1, SnapshotIsAWrite
  <2>3. WriteIsSound(w) /\ w.snapshot = backup /\ w.stage = "queued" /\ w.kind = "load"
    BY DEF WriteIsSound
  <2> HIDE DEF w
  <2>4. QueueIsSound' /\ queue' \in Seq(Write) /\ Len(queue') = 1
    BY <1>1, <1>3, <2>1, <2>2, <2>3, QueueGrows DEF Disk
  <2>5. queue'[1] = w BY <1>3, <2>1, <2>2, AppendProperties
  <2>6. StoreShape' /\ FlushShape' BY <1>1, <1>3, <2>1, <2>4 DEF SettingsInv, StoreShape, FlushShape
  <2>7. ASSUME NEW p \in Settings \ confused PROVE SettingHolds(p)'
    <3>1. \A i \in 1..Len(queue') : ~IsSet(queue', i, p) BY <2>3, <2>4, <2>5 DEF IsSet
    <3>2. Alike(queue', 1, p, backup[p]) BY <2>3, <2>4, <2>5 DEF Alike
    <3>3. SureIsStored(p)'
      BY <1>1, <1>5, <2>1, <3>1, <3>2 DEF SettingsInv, SettingHolds, SureIsStored
    <3> QED BY <3>1, <3>3 DEF SettingHolds, LastIsKept, LastSet
  <2>8. ASSUME NEW c \in Channels PROVE ChannelHolds(c)'
    <3>1. Alike(queue', 1, c, backup[c]) BY <2>3, <2>4, <2>5 DEF Alike
    <3> QED BY <1>1, <1>3, <2>1, <3>1 DEF ChannelHolds, Stored
  <2> QED BY <1>1, <2>4, <2>6, <2>7, <2>8 DEF SettingsInv
<1> QED BY <1>4, <1>5


\* A write goes on to one of its files.
LEMMA RunToKeeps ==
  ASSUME SettingsInv, queue # <<>>, NEW stage \in {"primary", "backup"}, RunTo(stage), persisted' = Null,
         primary' \in {primary, queue[1].snapshot}, stage = "backup" => primary' = queue[1].snapshot,
         UNCHANGED <<backup, timers, flush, sure, loaded, data, dirty, bgError, orphaned, confused>>
  PROVE  SettingsInv'
<1>1. /\ queue \in Seq(Write) /\ Len(queue) \in Nat \ {0} /\ 1 \in 1..Len(queue) /\ queue[1] \in Write
  BY FirstLeaves DEF SettingsInv, StoreShape
<1>2. PICK w : w = [queue[1] EXCEPT !.stage = stage] OBVIOUS
<1>3. /\ w \in Write /\ w.stage = stage /\ w.kind = queue[1].kind /\ w.part = queue[1].part /\ w.value = queue[1].value
      /\ w.snapshot = queue[1].snapshot /\ w.channels = queue[1].channels
  <2> HIDE DEF Document, Parts
  <2> QED BY <1>1, <1>2 DEF Write
<1>4. queue' = [queue EXCEPT ![1] = w] BY <1>2 DEF RunTo
<1>5. /\ queue' \in Seq(Write) /\ Len(queue') = Len(queue) /\ queue'[1] = w
      /\ \A k \in 1..Len(queue) : k # 1 => queue'[k] = queue[k]
  BY <1>1, <1>3, <1>4, ExceptSeq
<1>6. \A k \in 1..Len(queue) : /\ queue'[k].kind = queue[k].kind /\ queue'[k].part = queue[k].part
                               /\ queue'[k].value = queue[k].value /\ queue'[k].snapshot = queue[k].snapshot
                               /\ queue'[k].channels = queue[k].channels
  BY <1>3, <1>5
<1>7. /\ \A i \in 1..Len(queue) : \A p : IsSet(queue', i, p) <=> IsSet(queue, i, p)
      /\ \A d, p : LastIsKept(queue, d, p) => LastIsKept(queue', d, p)
      /\ \A i, x, v : Alike(queue, i, x, v) => Alike(queue', i, x, v)
      /\ \A n, c, v : Brings(queue, n, c, v) => Brings(queue', n, c, v)
  BY <1>1, <1>5, <1>6, StagesDontMatter
<1>8. queue' # <<>> /\ HasData /\ HasData' BY <1>1, <1>5, EmptySeq DEF HasData
<1>9. primary' \in Document \cup {Null} BY <1>1 DEF SettingsInv, StoreShape, Write
<1>10. StoreShape' /\ FlushShape' BY <1>5, <1>9 DEF SettingsInv, StoreShape, FlushShape
<1>11. QueueIsSound'
  <2>1. ASSUME NEW i \in 1..Len(queue') PROVE WriteIsSound(queue'[i]) /\ (1 < i => queue'[i].stage = "queued")
    BY <1>5, <1>6 DEF SettingsInv, QueueIsSound, WriteIsSound
  <2>2. /\ queue'[1].stage # "queued" => persisted' = Null
        /\ queue'[1].stage = "backup" => primary' \in {Null, queue'[1].snapshot}
    BY <1>3, <1>5
  <2> QED BY <2>1, <2>2 DEF QueueIsSound, WriteIsSound
<1>12. ASSUME NEW p \in Settings \ confused PROVE SettingHolds(p)'
  <2>1. LastIsKept(queue, data, p) /\ SureIsStored(p) BY DEF SettingsInv, SettingHolds
  <2>2. SureIsStored(p)'
    <3> SUFFICES ASSUME sure[p] # Null
                 PROVE  /\ \A i \in 1..Len(queue') : ~IsSet(queue', i, p)
                        /\ Alike(queue', 1, p, sure[p]) /\ backup[p] = sure[p] /\ data[p] = sure[p]
                        /\ primary' # Null => primary'[p] = sure[p]
      BY DEF SureIsStored
    <3>1. Alike(queue, 1, p, sure[p]) BY <2>1 DEF SureIsStored
    <3>2. queue[1].snapshot[p] = sure[p] BY <1>1, <3>1 DEF Alike
    <3> QED BY <1>5, <1>7, <1>8, <2>1, <3>1, <3>2 DEF SureIsStored
  <2> QED BY <1>7, <2>1, <2>2 DEF SettingHolds
<1>13. ASSUME NEW c \in Channels, ChannelHolds(c) PROVE ChannelHolds(c)'
  <2>1. Stored(c) => Stored(c)' BY <1>7 DEF Stored
  <2>2. FlushBrings(c) => FlushBrings(c)' BY <1>7 DEF FlushBrings
  <2> QED BY <1>5, <1>7, <1>8, <1>13, <2>1, <2>2 DEF ChannelHolds
<1> QED BY <1>10, <1>11, <1>12, <1>13 DEF SettingsInv

\* What waits is one write nearer to its turn; its own failed write ends a flush.
LEMMA AdvancedIsNearer ==
  ASSUME SettingsInv, queue # <<>>, NEW ok \in BOOLEAN, flush' = Advanced(ok), queue' = Tail(queue),
         loaded => loaded', UNCHANGED timers
  PROVE  /\ FlushShape'
         /\ flush'.own = flush.own /\ flush'.values = flush.values /\ flush'.late = flush.late
         /\ flush.left = 0 => flush' = flush
         /\ flush.left # 0 => flush'.left = flush.left - 1 /\ flush.left - 1 \in Nat
         /\ flush'.stage = flush.stage \/ (flush'.stage = "failed" /\ ~ok /\ flush.left = 1 /\ flush.own)
         /\ ~ok /\ flush.left = 1 /\ flush.own => flush'.stage = "failed"
         /\ flush.stage = "none" => flush'.stage = "none"
<1>1. /\ flush \in [stage : FlushStages, left : Nat, own : BOOLEAN, values : Document, late : SUBSET Channels]
      /\ flush.left <= Len(queue) /\ (flush.stage = "none" => flush.left = 0)
  BY DEF SettingsInv, FlushShape
<1>2. Len(queue) \in Nat \ {0} /\ Len(queue') = Len(queue) - 1
  BY FirstLeaves DEF SettingsInv, StoreShape
<1>3. CASE flush.left = 0
  <2>1. flush' = flush BY <1>3 DEF Advanced
  <2> QED BY <1>1, <1>2, <1>3, <2>1 DEF SettingsInv, FlushShape
<1>4. CASE flush.left # 0
  <2>1. PICK s \in FlushStages : s = IF ~ok /\ flush.left = 1 /\ flush.own THEN "failed" ELSE flush.stage
    BY <1>1 DEF FlushStages
  <2>2. flush' = [flush EXCEPT !.left = flush.left - 1, !.stage = s] BY <1>4, <2>1 DEF Advanced
  <2>3. flush.left - 1 \in Nat /\ flush.stage # "none" /\ loaded
    BY <1>1, <1>4 DEF SettingsInv, FlushShape
  <2>4. /\ flush' \in [stage : FlushStages, left : Nat, own : BOOLEAN, values : Document, late : SUBSET Channels]
        /\ flush'.left = flush.left - 1 /\ flush'.stage = s
        /\ flush'.own = flush.own /\ flush'.values = flush.values /\ flush'.late = flush.late
    BY <1>1, <2>2, <2>3
  <2>5. FlushShape' BY <1>1, <1>2, <2>1, <2>3, <2>4 DEF FlushShape
  <2> QED BY <2>1, <2>3, <2>4, <2>5, <1>4
<1> QED BY <1>3, <1>4


\* What the first write brings is on disk when it is finished; everything else waits on.
LEMMA FinishedKeepsChannel ==
  ASSUME SettingsInv, queue # <<>>, Finished, backup' = queue[1].snapshot, NEW c \in Channels, ChannelHolds(c),
         UNCHANGED timers
  PROVE  ChannelHolds(c)'
<1>1. /\ queue' = Tail(queue) /\ flush' = Advanced(TRUE) /\ loaded' = TRUE
      /\ UNCHANGED <<data, dirty, bgError, orphaned, confused>>
  BY DEF Finished
<1>2. /\ Len(queue') = Len(queue) - 1 /\ Len(queue) - 1 \in Nat /\ (Len(queue) - 1) + 1 = Len(queue)
      /\ \A v : Alike(queue, 1, c, v) => queue[1].snapshot[c] = v /\ Alike(queue', 1, c, v)
      /\ \A v : \A i \in Nat : Alike(queue, i + 1, c, v) => Alike(queue', i, c, v)
      /\ \A v : \A n \in Nat : Brings(queue, n + 1, c, v) => Brings(queue', n, c, v) \/ Alike(queue, 1, c, v)
  BY <1>1, FirstLeaves DEF SettingsInv, StoreShape
<1>3. Alike(queue, 1, c, data[c]) => Stored(c)' BY <1>1, <1>2 DEF Stored
<1>4. Stored(c) => Stored(c)' BY <1>3 DEF Stored
<1>5. /\ flush'.own = flush.own /\ flush'.values = flush.values /\ flush'.late = flush.late
      /\ flush.left = 0 => flush' = flush
      /\ flush.left # 0 => flush'.left = flush.left - 1 /\ flush.left - 1 \in Nat /\ (flush.left - 1) + 1 = flush.left
      /\ flush'.stage = flush.stage
  <2>1. flush.left \in Nat BY DEF SettingsInv, FlushShape
  <2>2. /\ flush'.own = flush.own /\ flush'.values = flush.values /\ flush'.late = flush.late
        /\ flush.left = 0 => flush' = flush
        /\ flush.left # 0 => flush'.left = flush.left - 1
        /\ flush'.stage = flush.stage \/ (flush'.stage = "failed" /\ ~TRUE /\ flush.left = 1 /\ flush.own)
    BY <1>1, AdvancedIsNearer
  <2> QED BY <2>1, <2>2
<1>6. Brings(queue, Len(queue), c, data[c]) => Stored(c)' \/ Brings(queue', Len(queue'), c, data'[c])
  <2> SUFFICES ASSUME Brings(queue, (Len(queue) - 1) + 1, c, data[c])
               PROVE  Stored(c)' \/ Brings(queue', Len(queue) - 1, c, data[c])
    BY <1>1, <1>2
  <2> QED BY <1>2, <1>3
<1>7. FlushBrings(c) => Stored(c)' \/ FlushBrings(c)'
  <2> SUFFICES ASSUME FlushBrings(c) PROVE Stored(c)' \/ FlushBrings(c)'
    OBVIOUS
  <2>1. flush.left # 0 /\ flush.left \in Nat BY DEF FlushBrings, Brings, SettingsInv, FlushShape
  <2>2. CASE flush.own
    <3>1. Alike(queue, (flush.left - 1) + 1, c, data[c]) BY <1>5, <2>1, <2>2 DEF FlushBrings
    <3>2. CASE flush.left = 1 BY <1>3, <2>2, <3>2 DEF FlushBrings
    <3>3. CASE flush.left # 1
      <4>1. Alike(queue', flush.left - 1, c, data[c]) BY <1>2, <1>5, <2>1, <3>1
      <4>2. flush'.left = flush.left - 1 /\ 1 <= flush.left - 1 BY <1>5, <2>1, <3>3
      <4> QED BY <1>1, <1>5, <2>2, <4>1, <4>2 DEF FlushBrings
    <3> QED BY <3>2, <3>3
  <2>3. CASE ~flush.own
    <3>1. Brings(queue, (flush.left - 1) + 1, c, data[c]) BY <1>5, <2>1, <2>3 DEF FlushBrings
    <3>2. Brings(queue', flush.left - 1, c, data[c]) \/ Alike(queue, 1, c, data[c])
      BY <1>2, <1>5, <2>1, <3>1
    <3>3. flush'.left = flush.left - 1 BY <1>5, <2>1
    <3> QED BY <1>1, <1>3, <1>5, <2>3, <3>2, <3>3 DEF FlushBrings
  <2> QED BY <2>2, <2>3
<1>8. HasData BY DEF HasData
<1> QED BY <1>1, <1>4, <1>5, <1>6, <1>7, <1>8 DEF ChannelHolds

\* A setter that is done is confirmed when no later one waits: the rest of the queue says its value.
LEMMA FinishedKeepsSetting ==
  ASSUME SettingsInv, queue # <<>>, Finished, backup' = queue[1].snapshot, primary' \in {Null, queue[1].snapshot},
         NEW p \in Settings \ confused
  PROVE  SettingHolds(p)'
<1>1. queue' = Tail(queue) /\ UNCHANGED data BY DEF Finished
<1>2. /\ Len(queue') = Len(queue) - 1 /\ Len(queue) \in Nat \ {0} /\ Head(queue) = queue[1] /\ queue[1] \in Write
      /\ \A k \in 1..(Len(queue) - 1) : queue'[k] = queue[k + 1]
      /\ LastIsKept(queue, data, p) => LastIsKept(queue', data, p)
      /\ \A v : Alike(queue, 1, p, v) => queue[1].snapshot[p] = v /\ Alike(queue', 1, p, v)
  BY <1>1, FirstLeaves DEF SettingsInv, StoreShape
<1>3. LastIsKept(queue, data, p) /\ SureIsStored(p) /\ sure \in [Settings -> Values \cup {Null}] /\ queue[1].snapshot # Null
  BY <1>2, SettingsAssumption DEF SettingsInv, SettingHolds, StoreShape, Write, Document, Parts
<1>4. ASSUME NEW k \in 1..Len(queue'), IsSet(queue', k, p) PROVE SetAgain(p) /\ k + 1 \in 1..Len(queue) /\ IsSet(queue, k + 1, p)
  <2>1. k + 1 \in 2..Len(queue) /\ queue'[k] = queue[k + 1] BY <1>2
  <2> QED BY <1>4, <2>1 DEF IsSet, SetAgain
\* What everything that is left says is confirmed.
<1>5. ASSUME Alike(queue, 1, p, sure'[p]), sure'[p] = data[p], \A i \in 1..Len(queue') : ~IsSet(queue', i, p)
      PROVE  SureIsStored(p)'
  BY <1>1, <1>2, <1>5 DEF SureIsStored
<1>6. CASE IsSet(queue, 1, p) /\ ~SetAgain(p)
  <2>1. LastSet(queue, 1, p) BY <1>6 DEF LastSet, SetAgain, IsSet
  <2>2. data[p] = queue[1].value /\ Alike(queue, 1, p, queue[1].value)
    BY <1>2, <1>3, <2>1 DEF LastIsKept
  <2>3. sure'[p] = queue[1].value BY <1>2, <1>3, <1>6 DEF Finished, Running, IsSet
  <2>4. \A i \in 1..Len(queue') : ~IsSet(queue', i, p) BY <1>4, <1>6
  <2> QED BY <1>1, <1>2, <1>3, <1>5, <2>2, <2>3, <2>4 DEF SettingHolds
<1>7. CASE ~(IsSet(queue, 1, p) /\ ~SetAgain(p))
  <2>1. sure'[p] = sure[p] BY <1>2, <1>3, <1>7 DEF Finished, Running, IsSet
  <2>2. SureIsStored(p)'
    <3>1. CASE sure[p] = Null BY <2>1, <3>1 DEF SureIsStored
    <3>2. CASE sure[p] # Null
      <4>1. Alike(queue, 1, p, sure[p]) /\ data[p] = sure[p] /\ \A i \in 1..Len(queue) : ~IsSet(queue, i, p)
        BY <1>3, <3>2 DEF SureIsStored, HasData
      <4>2. \A i \in 1..Len(queue') : ~IsSet(queue', i, p) BY <1>4, <4>1
      <4> QED BY <1>5, <2>1, <4>1, <4>2
    <3> QED BY <3>1, <3>2
  <2> QED BY <1>1, <1>2, <1>3, <2>2 DEF SettingHolds
<1> QED BY <1>6, <1>7

\* A write that is done, on both files or because the document is there already.
LEMMA FinishedKeeps ==
  ASSUME SettingsInv, queue # <<>>, Finished, UNCHANGED timers,
         backup' = queue[1].snapshot, primary' \in {Null, queue[1].snapshot}, persisted' = queue[1].snapshot
  PROVE  SettingsInv'
<1>1. /\ queue' = Tail(queue) /\ flush' = Advanced(TRUE) /\ loaded' = TRUE
      /\ UNCHANGED <<data, dirty, bgError, orphaned, confused>>
  BY DEF Finished
<1>2. /\ queue' \in Seq(Write) /\ Len(queue') = Len(queue) - 1 /\ Len(queue) \in Nat \ {0} /\ Head(queue) = queue[1] /\ queue[1] \in Write
      /\ \A k \in 1..(Len(queue) - 1) : queue'[k] = queue[k + 1]
  BY <1>1, FirstLeaves DEF SettingsInv, StoreShape
<1>3. FlushShape' BY <1>1, AdvancedIsNearer
<1>4. StoreShape'
  <2>1. queue[1].snapshot \in Document /\ queue[1].value \in Values BY <1>2 DEF Write
  <2>2. sure' \in [Settings -> Values \cup {Null}]
    BY <1>2, <2>1 DEF Finished, Running, SettingsInv, StoreShape
  <2> QED BY <1>1, <1>2, <2>1, <2>2 DEF SettingsInv, StoreShape
<1>5. QueueIsSound'
  <2>1. ASSUME NEW i \in 1..Len(queue') PROVE WriteIsSound(queue'[i]) /\ queue'[i].stage = "queued"
    <3>1. i + 1 \in 1..Len(queue) /\ 1 < i + 1 /\ queue'[i] = queue[i + 1] BY <1>2
    <3> QED BY <3>1 DEF SettingsInv, QueueIsSound
  <2>2. queue' # <<>> => queue'[1].stage = "queued"
    <3>1. queue' # <<>> => 1 \in 1..Len(queue') BY <1>2, EmptySeq
    <3> QED BY <2>1, <3>1
  <2>3. \A i \in 1..Len(queue') : WriteIsSound(queue'[i]) /\ (1 < i => queue'[i].stage = "queued")
    BY <2>1
  <2> QED BY <2>2, <2>3 DEF QueueIsSound, WriteIsSound
<1>6. ASSUME NEW p \in Settings \ confused PROVE SettingHolds(p)' BY FinishedKeepsSetting
<1>7. ASSUME NEW c \in Channels, ChannelHolds(c) PROVE ChannelHolds(c)'
  BY <1>7, FinishedKeepsChannel
<1> QED BY <1>1, <1>3, <1>4, <1>5, <1>6, <1>7 DEF SettingsInv


\* A failed write puts back only what no later setter has set, and brings no channel: what it
\* should have brought is dirty again, or orphaned.
LEMMA FailedKeepsSetting ==
  ASSUME SettingsInv, queue # <<>>, Failed, backup' \in {backup, queue[1].snapshot},
         primary' \in {primary, queue[1].snapshot}, NEW p \in Settings \ confused'
  PROVE  SettingHolds(p)'
<1>1. /\ queue' = Tail(queue) /\ UNCHANGED <<loaded, sure>>
      /\ data' = IF PutsBack(Running) THEN [data EXCEPT ![Running.part] = Running.previous] ELSE data
      /\ confused' = IF PutsBack(Running) /\ SetAgain(Running.part) THEN confused \cup ({Running.part} \cap ByValue) ELSE confused
  BY DEF Failed
<1>2. /\ Len(queue') = Len(queue) - 1 /\ Len(queue) \in Nat \ {0} /\ Head(queue) = queue[1] /\ queue[1] \in Write
      /\ \A k \in 1..(Len(queue) - 1) : queue'[k] = queue[k + 1]
      /\ LastIsKept(queue, data, p) => LastIsKept(queue', data, p)
      /\ \A v : Alike(queue, 1, p, v) => queue[1].snapshot[p] = v /\ Alike(queue', 1, p, v)
  BY <1>1, FirstLeaves DEF SettingsInv, StoreShape
<1>3. p \notin confused /\ p \in Settings /\ LastIsKept(queue, data, p) /\ SureIsStored(p) /\ data \in Document
  BY <1>1 DEF SettingsInv, SettingHolds, StoreShape
<1>4. ASSUME NEW k \in 1..Len(queue'), IsSet(queue', k, p) PROVE SetAgain(p) /\ k + 1 \in 1..Len(queue) /\ IsSet(queue, k + 1, p)
  <2>1. k + 1 \in 2..Len(queue) /\ queue'[k] = queue[k + 1] BY <1>2
  <2> QED BY <1>4, <2>1 DEF IsSet, SetAgain
<1>5. CASE PutsBack(queue[1]) /\ queue[1].part = p
  <2>1. IsSet(queue, 1, p) /\ 1 \in 1..Len(queue) BY <1>2, <1>5 DEF PutsBack, IsSet
  <2>2. sure[p] = Null BY <1>3, <2>1 DEF SureIsStored
  <2>3. ~SetAgain(p)
    <3>1. p \in ByValue => ~SetAgain(p) BY <1>1, <1>2, <1>5 DEF Running
    <3>2. p \notin ByValue => ~SetAgain(p) BY <1>5 DEF PutsBack
    <3> QED BY <3>1, <3>2
  <2>4. \A k \in 1..Len(queue') : ~IsSet(queue', k, p) BY <1>4, <2>3
  <2> QED BY <1>1, <2>2, <2>4 DEF SettingHolds, LastIsKept, LastSet, SureIsStored
<1>6. CASE ~(PutsBack(queue[1]) /\ queue[1].part = p)
  <2>1. data'[p] = data[p] BY <1>1, <1>2, <1>3, <1>6 DEF Running, Document, Parts
  <2>2. LastIsKept(queue', data', p) BY <1>2, <1>3, <2>1 DEF LastIsKept
  <2>3. ASSUME sure[p] # Null
        PROVE  /\ \A i \in 1..Len(queue') : ~IsSet(queue', i, p)
               /\ Alike(queue', 1, p, sure[p]) /\ queue[1].snapshot[p] = sure[p] /\ data[p] = sure[p]
               /\ backup[p] = sure[p] /\ (primary # Null => primary[p] = sure[p])
    <3>1. /\ \A i \in 1..Len(queue) : ~IsSet(queue, i, p)
          /\ Alike(queue, 1, p, sure[p]) /\ data[p] = sure[p]
          /\ backup[p] = sure[p] /\ (primary # Null => primary[p] = sure[p])
      BY <1>3, <2>3 DEF SureIsStored, HasData
    <3> QED BY <1>2, <1>4, <3>1
  <2>4. SureIsStored(p)' BY <1>1, <2>1, <2>3 DEF SureIsStored
  <2> QED BY <2>2, <2>4 DEF SettingHolds
<1> QED BY <1>5, <1>6

LEMMA FailedKeepsChannel ==
  ASSUME SettingsInv, queue # <<>>, Failed, backup' \in {backup, queue[1].snapshot}, ~orphaned', NEW c \in Channels, ChannelHolds(c),
         UNCHANGED timers
  PROVE  ChannelHolds(c)'
<1>1. /\ queue' = Tail(queue) /\ flush' = Advanced(FALSE) /\ UNCHANGED loaded
      /\ data' = IF PutsBack(Running) THEN [data EXCEPT ![Running.part] = Running.previous] ELSE data
      /\ dirty' = IF Running.kind = "background" THEN dirty \cup Running.channels ELSE dirty
      /\ orphaned' = (orphaned \/ (Running.kind = "set" /\ Running.channels # {}) \/ (Running.kind = "background" /\ AwaitsOthers))
  BY DEF Failed
<1>2. /\ Len(queue') = Len(queue) - 1 /\ Len(queue) - 1 \in Nat /\ (Len(queue) - 1) + 1 = Len(queue) /\ 1 \in 1..Len(queue)
      /\ Running = queue[1] /\ queue[1] \in Write
      /\ \A v : Alike(queue, 1, c, v) => queue[1].snapshot[c] = v /\ Alike(queue', 1, c, v)
      /\ \A v : \A i \in Nat : Alike(queue, i + 1, c, v) => Alike(queue', i, c, v)
      /\ \A v : \A n \in Nat : Brings(queue, n + 1, c, v) => Brings(queue', n, c, v) \/ c \in queue[1].channels
  BY <1>1, FirstLeaves DEF SettingsInv, StoreShape, Running
<1>3. data'[c] = data[c]
  <2>1. CASE PutsBack(Running)
    <3>1. Running.part # c BY <2>1, SettingsAssumption DEF PutsBack
    <3>2. data' = [data EXCEPT ![Running.part] = Running.previous] /\ data \in Document /\ c \in Parts
      BY <1>1, <2>1 DEF SettingsInv, StoreShape, Parts
    <3> QED BY <3>1, <3>2 DEF Document
  <2>2. CASE ~PutsBack(Running) BY <1>1, <2>2
  <2> QED BY <2>1, <2>2
<1>4. Stored(c) => Stored(c)' BY <1>2, <1>3 DEF Stored
<1>5. /\ flush'.own = flush.own /\ flush'.values = flush.values /\ flush'.late = flush.late
      /\ flush.left = 0 => flush' = flush
      /\ flush.left # 0 => flush'.left = flush.left - 1 /\ flush.left - 1 \in Nat /\ (flush.left - 1) + 1 = flush.left
      /\ flush'.stage = flush.stage \/ flush'.stage = "failed"
      /\ flush.left = 1 /\ flush.own => flush'.stage = "failed"
      /\ flush.stage = "none" => flush'.stage = "none"
  <2>1. flush.left \in Nat BY DEF SettingsInv, FlushShape
  <2>2. /\ flush'.own = flush.own /\ flush'.values = flush.values /\ flush'.late = flush.late
        /\ flush.left = 0 => flush' = flush
        /\ flush.left # 0 => flush'.left = flush.left - 1
        /\ flush'.stage = flush.stage \/ (flush'.stage = "failed" /\ ~FALSE /\ flush.left = 1 /\ flush.own)
        /\ ~FALSE /\ flush.left = 1 /\ flush.own => flush'.stage = "failed"
        /\ flush.stage = "none" => flush'.stage = "none"
    BY <1>1, AdvancedIsNearer
  <2> QED BY <2>1, <2>2
\* What the first write should have brought.
<1>6. ASSUME c \in queue[1].channels PROVE c \in dirty' /\ ~AwaitsOthers
  <2>1. queue[1].kind \in {"set", "background", "load"} /\ WriteIsSound(queue[1])
    BY <1>2 DEF SettingsInv, QueueIsSound, Write
  <2>2. queue[1].kind = "background" BY <1>1, <1>2, <1>6, <2>1 DEF WriteIsSound
  <2> QED BY <1>1, <1>2, <1>6, <2>2
<1>7. c \notin dirty' /\ Brings(queue, Len(queue), c, data[c]) => Brings(queue', Len(queue'), c, data'[c])
  <2> SUFFICES ASSUME Brings(queue, (Len(queue) - 1) + 1, c, data[c]), c \notin dirty'
               PROVE  Brings(queue', Len(queue) - 1, c, data[c])
    BY <1>2, <1>3
  <2> QED BY <1>2, <1>6
<1>8. ASSUME flush.stage = "third", FlushBrings(c), flush'.stage # "failed" PROVE FlushBrings(c)'
  <2>1. flush.left # 0 /\ flush.left \in Nat
    BY <1>8 DEF FlushBrings, Brings, SettingsInv, FlushShape
  <2>2. CASE flush.own
    <3>1. Alike(queue, (flush.left - 1) + 1, c, data[c]) BY <1>5, <1>8, <2>1, <2>2 DEF FlushBrings
    <3>2. Alike(queue', flush.left - 1, c, data[c]) BY <1>2, <1>5, <2>1, <3>1
    <3>3. flush'.left = flush.left - 1 /\ 1 <= flush.left - 1
      <4>1. flush.left # 1 BY <1>5, <1>8, <2>2
      <4>2. flush'.left = flush.left - 1 BY <1>5, <2>1
      <4> QED BY <2>1, <4>1, <4>2
    <3> QED BY <1>3, <1>5, <2>2, <3>2, <3>3 DEF FlushBrings
  <2>3. CASE ~flush.own
    <3>1. Brings(queue, (flush.left - 1) + 1, c, data[c]) BY <1>5, <1>8, <2>1, <2>3 DEF FlushBrings
    <3>2. Brings(queue', flush.left - 1, c, data[c]) \/ c \in queue[1].channels
      BY <1>2, <1>5, <2>1, <3>1
    <3>3. AwaitsOthers BY <1>8, <2>3 DEF AwaitsOthers
    <3>4. flush'.left = flush.left - 1 BY <1>5, <2>1
    <3> QED BY <1>3, <1>5, <1>6, <2>3, <3>2, <3>3, <3>4 DEF FlushBrings
  <2> QED BY <2>2, <2>3
<1>9. HasData /\ (c \notin dirty' => c \notin dirty) BY <1>1 DEF HasData
<1> QED BY <1>3, <1>4, <1>5, <1>7, <1>8, <1>9 DEF ChannelHolds

LEMMA FailedKeeps ==
  ASSUME SettingsInv, queue # <<>>, Failed, UNCHANGED timers, queue[1].stage # "queued",
         backup' \in {backup, queue[1].snapshot}, primary' \in {primary, queue[1].snapshot}, UNCHANGED persisted
  PROVE  SettingsInv'
<1>1. /\ queue' = Tail(queue) /\ flush' = Advanced(FALSE) /\ UNCHANGED <<loaded, sure>>
      /\ data' = IF PutsBack(Running) THEN [data EXCEPT ![Running.part] = Running.previous] ELSE data
      /\ dirty' = IF Running.kind = "background" THEN dirty \cup Running.channels ELSE dirty
      /\ bgError' = (bgError \/ Running.kind = "background")
      /\ orphaned' = (orphaned \/ (Running.kind = "set" /\ Running.channels # {}) \/ (Running.kind = "background" /\ AwaitsOthers))
      /\ confused' = IF PutsBack(Running) /\ SetAgain(Running.part) THEN confused \cup ({Running.part} \cap ByValue) ELSE confused
  BY DEF Failed
<1>2. /\ queue' \in Seq(Write) /\ Len(queue') = Len(queue) - 1 /\ Len(queue) \in Nat \ {0} /\ Running = queue[1] /\ queue[1] \in Write
      /\ \A k \in 1..(Len(queue) - 1) : queue'[k] = queue[k + 1]
  BY <1>1, FirstLeaves DEF SettingsInv, StoreShape, Running
<1>3. /\ queue[1].snapshot \in Document /\ queue[1].part \in Parts /\ queue[1].previous \in Values /\ queue[1].channels \subseteq Channels
  BY <1>2 DEF Write
<1>4. data' \in Document BY <1>1, <1>2, <1>3 DEF SettingsInv, StoreShape, Document
<1>5. FlushShape' BY <1>1, AdvancedIsNearer
<1>6. StoreShape'
  <2>1. bgError' \in BOOLEAN /\ orphaned' \in BOOLEAN BY <1>1 DEF SettingsInv, StoreShape
  <2>2. dirty' \subseteq Channels /\ confused' \subseteq ByValue
    BY <1>1, <1>2, <1>3 DEF SettingsInv, StoreShape
  <2> QED BY <1>1, <1>2, <1>3, <1>4, <2>1, <2>2 DEF SettingsInv, StoreShape
<1>7. QueueIsSound'
  <2>1. ASSUME NEW i \in 1..Len(queue') PROVE WriteIsSound(queue'[i]) /\ queue'[i].stage = "queued"
    <3>1. i + 1 \in 1..Len(queue) /\ 1 < i + 1 /\ queue'[i] = queue[i + 1] BY <1>2
    <3> QED BY <3>1 DEF SettingsInv, QueueIsSound
  <2>2. queue' # <<>> => queue'[1].stage = "queued"
    <3>1. queue' # <<>> => 1 \in 1..Len(queue') BY <1>2, EmptySeq
    <3> QED BY <2>1, <3>1
  <2>3. \A i \in 1..Len(queue') : WriteIsSound(queue'[i]) /\ (1 < i => queue'[i].stage = "queued")
    BY <2>1
  <2>4. persisted' = Null BY DEF SettingsInv, QueueIsSound
  <2> QED BY <2>2, <2>3, <2>4 DEF QueueIsSound, WriteIsSound
<1>8. ASSUME NEW p \in Settings \ confused' PROVE SettingHolds(p)' BY FailedKeepsSetting
<1>9. ASSUME NEW c \in Channels, ~orphaned' PROVE ChannelHolds(c)'
  <2>1. ChannelHolds(c) BY <1>1, <1>9 DEF SettingsInv
  <2> QED BY <1>9, <2>1, FailedKeepsChannel
<1> QED BY <1>5, <1>6, <1>7, <1>8, <1>9 DEF SettingsInv

LEMMA WritesKeep ==
  ASSUME SettingsInv, WriteBegin \/ WritePrimary \/ WriteBackup PROVE SettingsInv'
<1>1. queue # <<>> /\ Running = queue[1] /\ UNCHANGED timers /\ queue[1].stage \in {"queued", "primary", "backup"} /\ queue[1].snapshot # Null
  <2>1. queue # <<>> /\ UNCHANGED timers BY DEF WriteBegin, WritePrimary, WriteBackup
  <2>2. Running = queue[1] /\ queue[1] \in Write
    BY <2>1, FirstLeaves DEF SettingsInv, StoreShape, Running
  <2> QED BY <2>1, <2>2, SettingsAssumption DEF Write, Document, Parts
<1>2. /\ queue[1].stage # "queued" => persisted = Null
      /\ queue[1].stage = "backup" => primary \in {Null, queue[1].snapshot}
      /\ persisted # Null => backup = persisted /\ primary \in {Null, persisted}
  BY <1>1 DEF SettingsInv, QueueIsSound
<1>3. CASE WriteBegin
  <2>1. CASE queue[1].snapshot = persisted
    <3>1. Finished /\ UNCHANGED <<primary, backup, persisted>>
      BY <1>1, <1>3, <2>1 DEF WriteBegin, Disk
    <3> QED BY <1>1, <1>2, <2>1, <3>1, FinishedKeeps
  <2>2. CASE queue[1].snapshot # persisted
    <3>1. RunTo("primary") /\ persisted' = Null
          /\ UNCHANGED <<primary, backup, flush, sure, loaded, data, dirty, bgError, orphaned, confused>>
      BY <1>1, <1>3, <2>2 DEF WriteBegin, WhileWriting
    <3> QED BY <1>1, <3>1, RunToKeeps
  <2> QED BY <2>1, <2>2
<1>4. CASE WritePrimary
  <2>1. queue[1].stage = "primary" /\ primary' \in {primary, queue[1].snapshot} /\ UNCHANGED <<backup, persisted>> /\ persisted = Null
    BY <1>1, <1>2, <1>4 DEF WritePrimary
  <2>2. CASE Failed BY <1>1, <2>1, <2>2, FailedKeeps
  <2>3. CASE primary' = queue[1].snapshot /\ RunTo("backup") /\ UNCHANGED <<flush, sure, loaded, data, dirty, bgError, orphaned, confused>>
    BY <1>1, <2>1, <2>3, RunToKeeps
  <2> QED BY <1>1, <1>4, <2>2, <2>3 DEF WritePrimary
<1>5. CASE WriteBackup
  <2>1. queue[1].stage = "backup" /\ backup' \in {backup, queue[1].snapshot} /\ UNCHANGED primary
    BY <1>1, <1>5 DEF WriteBackup
  <2>2. CASE Failed /\ UNCHANGED persisted BY <1>1, <2>1, <2>2, FailedKeeps
  <2>3. CASE backup' = queue[1].snapshot /\ Finished /\ persisted' = queue[1].snapshot
    BY <1>1, <1>2, <2>1, <2>3, FinishedKeeps
  <2> QED BY <1>1, <1>5, <2>2, <2>3 DEF WriteBackup
<1> QED BY <1>3, <1>4, <1>5

LEMMA SettingsStutter ==
  ASSUME SettingsInv, UNCHANGED settingsVars PROVE SettingsInv'
<1>1. UNCHANGED <<data, loaded, dirty, timers, bgError, queue, persisted, primary, backup, flush, sure, orphaned, confused>>
  BY DEF settingsVars
<1>2. StoreShape' /\ FlushShape' /\ QueueIsSound'
  BY <1>1 DEF SettingsInv, StoreShape, FlushShape, QueueIsSound, WriteIsSound
<1>3. \A p \in Settings : SettingHolds(p) => SettingHolds(p)'
  BY <1>1 DEF SettingHolds, SureIsStored, HasData
<1>4. \A c \in Channels : ChannelHolds(c) => ChannelHolds(c)'
  BY <1>1 DEF ChannelHolds, Stored, FlushBrings, HasData
<1> QED BY <1>1, <1>2, <1>3, <1>4 DEF SettingsInv

LEMMA SettingsInvHolds == SettingsSpec => []SettingsInv
<1>1. SettingsInit => SettingsInv
  <2> SUFFICES ASSUME SettingsInit PROVE SettingsInv
    OBVIOUS
  <2>1. Defaults \in Document BY SettingsAssumption DEF Defaults, Document
  <2>2. queue \in Seq(Write) /\ Len(queue) = 0 BY EmptySeq DEF SettingsInit
  <2>3. StoreShape BY <2>1, <2>2 DEF SettingsInit, StoreShape
  <2>4. FlushShape /\ QueueIsSound
    BY <2>1, <2>2 DEF SettingsInit, FlushShape, FlushStages, NoFlush, QueueIsSound
  <2>5. \A p \in Settings : SettingHolds(p)
    BY <2>2 DEF SettingsInit, SettingHolds, LastIsKept, SureIsStored
  <2>6. \A c \in Channels : ChannelHolds(c)
    BY <2>2 DEF SettingsInit, ChannelHolds, Stored, Alike, NoFlush
  <2> QED BY <2>3, <2>4, <2>5, <2>6 DEF SettingsInv
<1>2. SettingsInv /\ [SettingsNext]_settingsVars => SettingsInv'
  BY SetKeeps, SetInBackgroundKeeps, TimerKeeps, WritesKeep, FlushBeginKeeps, FlushNextKeeps, StopKeeps, DamageKeeps, LoadKeeps,
     SettingsStutter DEF SettingsNext
<1> QED BY <1>1, <1>2, PTL DEF SettingsSpec

\* What a setter was told it saved, and the background channels after a flush that succeeded, are
\* on disk: through failed writes, ruined files, ends of the process and starts
\* (SettingsStore.ts:423, 472).
THEOREM SettingsAreStored == SettingsSpec => []ConfirmedIsStored
<1>1. SettingsInv => ConfirmedIsStored
  <2> SUFFICES ASSUME SettingsInv PROVE AckedIsStored /\ FlushedIsStored
    BY DEF ConfirmedIsStored
  <2>1. AckedIsStored BY DEF AckedIsStored, SettingsInv, SettingHolds, SureIsStored, HasData
  <2>2. FlushedIsStored
    BY DEF FlushedIsStored, BackgroundIsSettled, SettingsInv, ChannelHolds, Stored
  <2> QED BY <2>1, <2>2
<1> QED BY <1>1, SettingsInvHolds, PTL


------------------------------
(* The update of the service.  One operation at a time is in progress while *)
(* nothing went wrong with the lock; between its steps it knows what the *)
(* definition, the installation and the server are.  What is put back is *)
(* always older than the latest release, so a server of the latest release *)
(* is never told of a failure. *)

WorkerStages == {"none", "read"} \cup Transaction
CliStages == {"none", "read", "lock"} \cup UnderLock
UpdaterPhases == {"unavailable", "idle", "available", "downloading", "ready", "installing", "error"}
UpdaterStages == {"none", "lock", "plan", "launch", "launched", "watch"}

ServiceVersions == 0..Latest
Updates == [current : ServiceVersions, unit : ServiceVersions]
Servers == [version : ServiceVersions, told : BOOLEAN]
Updaters == [phase : UpdaterPhases, stage : UpdaterStages]
Workers == [stage : WorkerStages, plan : Updates, success : BOOLEAN]
Commands == [stage : CliStages, action : {"install", "restart", "uninstall"}, version : Versions, installed : ServiceVersions,
             definition : ServiceVersions]

ServiceShape ==
  /\ definition \in ServiceVersions /\ installation \in ServiceVersions /\ result \in [success : BOOLEAN, version : ServiceVersions]
  /\ plan \in Updates /\ server \in Servers /\ updater \in Updaters /\ worker \in Workers /\ cli \in [Clis -> Commands]
  /\ worker.stage \notin Transaction => ~worker.success
  /\ overlapped \in BOOLEAN /\ unrecovered \in BOOLEAN /\ stale \in BOOLEAN

\* An updater that has found something belongs to a server that is not the latest.
UpdaterIsBehind ==
  /\ updater.stage # "none" => updater.phase = "installing"
  /\ updater.phase \in {"available", "downloading", "ready", "installing"} => server.version < Latest

\* What is replaced is older than the latest release, and so is a server that knows of a failure.
ReplacedIsOlder ==
  /\ UpdaterIsBehind
  /\ server.told => server.version < Latest
  /\ plan.current < Latest /\ worker.plan.current < Latest
  /\ ~result.success => result.version < Latest

Alone ==
  /\ \A c, d \in Clis : cli[c].stage \in UnderLock /\ cli[d].stage \in UnderLock => c = d
  /\ \A c \in Clis : worker.stage \in Transaction => cli[c].stage \notin UnderLock

\* What the definition, the installation and the server are between the worker's steps.
WorkerIsSound ==
  LET before == worker.plan.current IN
  /\ worker.plan.unit = before
  /\ worker.stage # "unlock" => ~worker.success
  /\ worker.stage = "write" => definition = before /\ installation = before
  /\ worker.stage = "save" => definition = Latest
  /\ worker.stage \in {"restart", "health"} => definition = Latest /\ installation = Latest
  /\ worker.stage \in {"put-back-save", "tell", "restart-back"} => definition = before
  /\ worker.stage \in {"tell", "restart-back"} => installation = before
  /\ worker.stage = "restart-back" => ~result.success /\ result.version = before
  /\ worker.stage = "unlock" =>
       /\ definition = IF worker.success THEN Latest ELSE before
       /\ installation = definition /\ server.version = definition
       /\ result.version = definition /\ result.success = worker.success
       /\ server.told = ~worker.success

AsDefined == definition = installation /\ server.version \in {0, definition}

\* The same for a command.
CommandIsSound(c) ==
  LET command == cli[c] IN
  /\ command.stage # "unlock" => command.definition = command.installed
  /\ command.stage = "ready" => AsDefined /\ definition = command.definition
  /\ command.stage = "write" => command.action = "install"
  /\ command.stage = "save" => IF command.action = "install" THEN definition = command.version ELSE definition = 0 /\ server.version = 0
  /\ command.stage = "restart" => /\ command.action # "uninstall" /\ definition = installation
                                  /\ command.action = "restart" => AsDefined
  /\ command.stage = "wait" => definition = installation /\ server.version = definition
  /\ command.stage = "put-back-save" => definition = command.definition
  /\ command.stage = "restart-back" => definition = installation
  /\ command.stage = "unlock" => AsDefined

\* What an installation has written, whatever it has found.
InstallIsSound(c) ==
  LET command == cli[c] IN
  command.action = "install" =>
    /\ command.stage = "save" => definition = command.version
    /\ command.stage \in {"restart", "wait"} => definition = command.version /\ installation = command.version

NoneUnderLock == worker.stage \notin Transaction /\ \A c \in Clis : cli[c].stage \notin UnderLock

OperationsAreSound ==
  /\ worker.stage \in Transaction => WorkerIsSound
  /\ \A c \in Clis : cli[c].stage \in UnderLock => CommandIsSound(c)
  /\ NoneUnderLock => AsDefined

ServiceInv ==
  /\ ServiceShape /\ ReplacedIsOlder
  /\ ~overlapped => Alone /\ \A c \in Clis : InstallIsSound(c)
  /\ Orderly => OperationsAreSound


\* With at most one operation counted as busy, there is at most one.
LEMMA OneIsBusy ==
  ASSUME NEW w, NEW c, Busy(w, c) <= 1
  PROVE  /\ \A d, e \in Clis : c[d].stage \in UnderLock /\ c[e].stage \in UnderLock => d = e
         /\ \A d \in Clis : w.stage \in Transaction => c[d].stage \notin UnderLock
<1> DEFINE S == {x \in Clis : c[x].stage \in UnderLock}
           n == IF w.stage \in Transaction THEN 1 ELSE 0
<1>1. IsFiniteSet(S) /\ Cardinality(S) \in Nat /\ Cardinality(S) + n <= 1 /\ n \in {0, 1}
  BY FS_Subset, FS_CardinalityType, UpdateAssumption DEF Busy
<1>2. ASSUME NEW d \in S, NEW e \in S, d # e PROVE FALSE
  <2>1. IsFiniteSet({d}) /\ Cardinality({d}) = 1 BY FS_Singleton
  <2>2. IsFiniteSet({d} \cup {e}) /\ Cardinality({d} \cup {e}) = 2
    <3>1. e \notin {d} BY <1>2
    <3>2. IsFiniteSet({d} \cup {e}) /\ Cardinality({d} \cup {e}) = Cardinality({d}) + 1
      BY <2>1, <3>1, FS_AddElement
    <3> QED BY <2>1, <3>2
  <2>3. {d} \cup {e} \subseteq S OBVIOUS
  <2>4. Cardinality({d} \cup {e}) <= Cardinality(S) BY <1>1, <2>3, FS_Subset
  <2>5. 2 <= Cardinality(S) BY <2>2, <2>4
  <2> HIDE DEF S, n
  <2> QED BY <1>1, <2>5
<1>3. ASSUME NEW d \in S, w.stage \in Transaction PROVE FALSE
  <2>1. Cardinality(S) # 0 BY <1>1, FS_EmptySet
  <2>2. n = 1 BY <1>3
  <2> HIDE DEF S, n
  <2> QED BY <1>1, <2>1, <2>2
<1> QED BY <1>2, <1>3

\* And with none counted, there is none.
LEMMA NoneIsBusy ==
  ASSUME Busy(worker, cli) = 0 PROVE NoneUnderLock
<1> DEFINE S == {x \in Clis : cli[x].stage \in UnderLock}
           n == IF worker.stage \in Transaction THEN 1 ELSE 0
<1>1. IsFiniteSet(S) /\ Cardinality(S) \in Nat /\ Cardinality(S) + n = 0 /\ n \in {0, 1}
  BY FS_Subset, FS_CardinalityType, UpdateAssumption DEF Busy
<1>2. Cardinality(S) = 0 /\ n = 0
  <2> HIDE DEF S, n
  <2> QED BY <1>1
<1>3. S = {} BY <1>1, <1>2, FS_EmptySet
<1> QED BY <1>2, <1>3 DEF NoneUnderLock

\* A start of the server reads what is on disk.
LEMMA StartedIsSound ==
  ASSUME ServiceShape, ReplacedIsOlder, NEW v \in ServiceVersions, Started(v)
  PROVE  /\ server' \in Servers /\ updater' \in Updaters
         /\ server'.version = v /\ server'.told = (~result.success /\ result.version = v)
         /\ server'.told => server'.version < Latest
         /\ updater'.stage = "none" /\ updater'.phase \in {"unavailable", "idle", "error"}
<1>1. result \in [success : BOOLEAN, version : ServiceVersions]
  BY DEF ServiceShape
<1>2. (result = [success |-> FALSE, version |-> v]) = (~result.success /\ result.version = v)
  BY <1>1
<1>3. PICK t \in BOOLEAN : t = (~result.success /\ result.version = v) BY <1>1
<1>4. server' = [version |-> v, told |-> t] BY <1>2, <1>3 DEF Started
<1>5. server' \in Servers /\ server'.version = v /\ server'.told = t
  BY <1>1, <1>4 DEF Servers
<1>6. updater' \in Updaters /\ updater'.stage = "none" /\ updater'.phase \in {"unavailable", "idle", "error"}
  BY DEF Started, NoUpdater, Updaters, UpdaterPhases, UpdaterStages
<1> QED BY <1>3, <1>5, <1>6 DEF ReplacedIsOlder

LEMMA StoppedIsSound ==
  ASSUME Stopped
  PROVE  /\ server' \in Servers /\ updater' \in Updaters /\ server'.version = 0 /\ server'.told = FALSE
         /\ updater'.stage = "none" /\ updater'.phase = "unavailable"
  BY UpdateAssumption DEF Stopped, NoServer, NoUpdater, Servers, Updaters, UpdaterPhases, UpdaterStages, ServiceVersions

\* The server is as it was or stopped.
LEMMA MayStopSoundly ==
  ASSUME ServiceShape, ReplacedIsOlder, MayStop
  PROVE  /\ server' \in Servers /\ updater' \in Updaters /\ server'.version \in {0, server.version}
         /\ server'.told => server'.version < Latest
         /\ UpdaterIsBehind'
<1>1. CASE Stopped BY <1>1, StoppedIsSound DEF UpdaterIsBehind
<1>2. CASE UNCHANGED <<server, updater>> BY <1>2 DEF ServiceShape, ReplacedIsOlder, UpdaterIsBehind
<1> QED BY <1>1, <1>2 DEF MayStop

\* Nothing that the operations rely on changes: the updater, its lock and its plan.
LEMMA NothingMovedKeeps ==
  ASSUME ServiceInv, ServiceShape', ReplacedIsOlder', UNCHANGED <<definition, installation, result, server, cli>>,
         worker' = worker \/ (worker.stage \notin Transaction /\ worker'.stage \notin Transaction),
         overlapped => overlapped', unrecovered => unrecovered', stale => stale'
  PROVE  ServiceInv'
<1>1. ASSUME worker' = worker PROVE ServiceInv'
  <2>1. (Alone => Alone') /\ (\A c \in Clis : InstallIsSound(c) => InstallIsSound(c)') BY <1>1 DEF Alone, InstallIsSound
  <2>2. OperationsAreSound => OperationsAreSound'
    BY <1>1 DEF OperationsAreSound, WorkerIsSound, CommandIsSound, NoneUnderLock, AsDefined
  <2> QED BY <2>1, <2>2 DEF ServiceInv, ServiceShape, Orderly
<1>2. ASSUME worker.stage \notin Transaction, worker'.stage \notin Transaction PROVE ServiceInv'
  <2>1. (Alone => Alone') /\ (\A c \in Clis : InstallIsSound(c) => InstallIsSound(c)') BY <1>2 DEF Alone, InstallIsSound
  <2>2. OperationsAreSound => OperationsAreSound'
    BY <1>2 DEF OperationsAreSound, CommandIsSound, NoneUnderLock, AsDefined
  <2> QED BY <2>1, <2>2 DEF ServiceInv, ServiceShape, Orderly
<1> QED BY <1>1, <1>2

\* A step of the worker's transaction, which knows what it finds and leaves.
LEMMA WorkerMovesKeeps ==
  ASSUME ServiceInv, ServiceShape', ReplacedIsOlder', worker.stage \in Transaction, UNCHANGED <<cli, overlapped, stale>>,
         unrecovered => unrecovered',
         Orderly' /\ WorkerIsSound => IF worker'.stage \in Transaction THEN WorkerIsSound' ELSE AsDefined'
  PROVE  ServiceInv'
<1>1. ~overlapped' => Alone' /\ \A c \in Clis : InstallIsSound(c)'
  BY DEF ServiceInv, Alone, InstallIsSound, UnderLock
<1>2. ASSUME Orderly' PROVE OperationsAreSound'
  <2>1. Orderly /\ Alone /\ WorkerIsSound BY <1>2 DEF ServiceInv, OperationsAreSound, Orderly
  <2>2. \A c \in Clis : cli'[c].stage \notin UnderLock BY <2>1 DEF Alone
  <2>3. worker'.stage \in Transaction => WorkerIsSound' BY <1>2, <2>1
  <2>4. NoneUnderLock' => AsDefined' BY <1>2, <2>1 DEF NoneUnderLock
  <2> QED BY <2>2, <2>3, <2>4 DEF OperationsAreSound
<1> QED BY <1>1, <1>2 DEF ServiceInv

\* The same for a step of a command that has the lock.  One that makes the service whole need
\* not have found it so.
LEMMA CommandMovesKeeps ==
  ASSUME ServiceInv, ServiceShape', ReplacedIsOlder', NEW c \in Clis, cli[c].stage \in UnderLock,
         \A d \in Clis : d # c => cli'[d] = cli[d], UNCHANGED <<worker, overlapped>>, InstallIsSound(c) => InstallIsSound(c)',
         Orderly' /\ (Orderly => CommandIsSound(c)) /\ InstallIsSound(c) =>
           IF cli'[c].stage \in UnderLock THEN CommandIsSound(c)' ELSE AsDefined'
  PROVE  ServiceInv'
<1>1. ASSUME ~overlapped' PROVE Alone' /\ \A d \in Clis : InstallIsSound(d)'
  <2>1. ~overlapped /\ Alone /\ \A d \in Clis : InstallIsSound(d) BY <1>1 DEF ServiceInv
  <2>2. ASSUME NEW d \in Clis, d # c PROVE InstallIsSound(d)'
    <3>1. cli[d].stage \notin UnderLock /\ cli'[d] = cli[d] BY <2>1, <2>2 DEF Alone
    <3> QED BY <3>1 DEF InstallIsSound, UnderLock
  <2> QED BY <2>1, <2>2 DEF Alone
<1>2. ASSUME Orderly' PROVE OperationsAreSound'
  <2>1. Alone /\ InstallIsSound(c) /\ (Orderly => CommandIsSound(c)) BY <1>2 DEF ServiceInv, OperationsAreSound, Orderly
  <2>2. worker'.stage \notin Transaction /\ \A d \in Clis : d # c => cli'[d].stage \notin UnderLock
    BY <2>1 DEF Alone
  <2>3. cli'[c].stage \in UnderLock => CommandIsSound(c)' BY <1>2, <2>1
  <2>4. NoneUnderLock' => AsDefined' BY <1>2, <2>1 DEF NoneUnderLock
  <2>5. ASSUME NEW d \in Clis, cli'[d].stage \in UnderLock PROVE CommandIsSound(d)'
    BY <2>2, <2>3, <2>5
  <2> QED BY <2>2, <2>4, <2>5 DEF OperationsAreSound
<1> QED BY <1>1, <1>2 DEF ServiceInv

\* A command before its lock, or none any more.
LEMMA CommandWaitsKeeps ==
  ASSUME ServiceInv, ServiceShape', ReplacedIsOlder', NEW c \in Clis, UNCHANGED <<definition, installation, result, server, worker>>,
         \A d \in Clis : d # c => cli'[d] = cli[d], cli'[c].stage \notin UnderLock,
         cli[c].stage \notin UnderLock \/ unrecovered',
         UNCHANGED <<overlapped, stale>>, unrecovered => unrecovered'
  PROVE  ServiceInv'
<1>1. (Alone => Alone') /\ \A d \in Clis : InstallIsSound(d) => InstallIsSound(d)' BY DEF Alone, InstallIsSound, UnderLock
<1>2. ASSUME Orderly', OperationsAreSound PROVE OperationsAreSound'
  <2>1. NoneUnderLock' => NoneUnderLock BY <1>2 DEF NoneUnderLock, Orderly
  <2>2. ASSUME NEW d \in Clis, cli'[d].stage \in UnderLock PROVE CommandIsSound(d)'
    BY <1>2, <2>2 DEF OperationsAreSound, CommandIsSound, AsDefined
  <2>3. (WorkerIsSound => WorkerIsSound') /\ (AsDefined => AsDefined')
    BY DEF WorkerIsSound, AsDefined
  <2> QED BY <1>2, <2>1, <2>2, <2>3 DEF OperationsAreSound
<1> QED BY <1>1, <1>2 DEF ServiceInv, ServiceShape, Orderly


\* What the updater does to itself and to the plan.
LEMMA UpdaterMovesKeeps ==
  ASSUME ServiceInv, UNCHANGED <<definition, installation, result, server, cli, overlapped, unrecovered, stale>>,
         worker' = worker \/ (worker = NoWorker /\ worker' = [NoWorker EXCEPT !.stage = "read"]),
         updater' \in Updaters, plan' \in Updates, plan'.current < Latest,
         updater'.stage # "none" => updater'.phase = "installing",
         updater'.phase \in {"available", "downloading", "ready", "installing"} => server.version < Latest
  PROVE  ServiceInv'
<1>1. worker' \in Workers /\ worker'.plan.current < Latest /\ (worker'.stage \notin Transaction => ~worker'.success)
  <2>1. CASE worker' = worker BY <2>1 DEF ServiceInv, ServiceShape, ReplacedIsOlder
  <2>2. CASE worker' = [NoWorker EXCEPT !.stage = "read"]
    <3>1. worker' = [stage |-> "read", plan |-> NoUpdate, success |-> FALSE] BY <2>2 DEF NoWorker
    <3>2. NoUpdate \in Updates /\ NoUpdate.current < Latest
      BY UpdateAssumption DEF NoUpdate, Updates, ServiceVersions
    <3> QED BY <3>1, <3>2 DEF Workers, WorkerStages
  <2> QED BY <2>1, <2>2
<1>2. ServiceShape' /\ ReplacedIsOlder'
  BY <1>1 DEF ServiceInv, ServiceShape, ReplacedIsOlder, UpdaterIsBehind
<1>3. worker' = worker \/ (worker.stage \notin Transaction /\ worker'.stage \notin Transaction)
  BY DEF NoWorker, Transaction
<1> QED BY <1>2, <1>3, NothingMovedKeeps

LEMMA UpdaterKeeps ==
  ASSUME ServiceInv,
         CheckForUpdate \/ Download \/ Staged \/ BeginInstall \/ LockForUpdate \/ WritePlan \/ LaunchWorker \/ WorkerGone
         \/ GiveUpWatching
  PROVE  ServiceInv'
<1>1. /\ updater \in Updaters /\ plan \in Updates /\ plan.current < Latest /\ definition \in ServiceVersions /\ server \in Servers
      /\ updater.stage # "none" => updater.phase = "installing"
      /\ updater.phase \in {"available", "downloading", "ready", "installing"} => server.version < Latest
  BY DEF ServiceInv, ServiceShape, ReplacedIsOlder, UpdaterIsBehind
<1>2. NoUpdate \in Updates /\ NoUpdate.current < Latest
  BY UpdateAssumption DEF NoUpdate, Updates, ServiceVersions
\* A change of the phase, which is not that of an installation.
<1>3. ASSUME NEW from \in UpdaterPhases \ {"installing"}, NEW to \in UpdaterPhases \ {"installing"}, Phase(from, to),
             to \in {"available", "downloading", "ready"} => server.version < Latest
      PROVE  ServiceInv'
  <2>1. updater' = [updater EXCEPT !.phase = to] /\ updater.phase = from /\ UNCHANGED plan
    BY <1>3 DEF Phase
  <2>2. updater' \in Updaters /\ updater'.phase = to /\ updater'.stage = updater.stage /\ updater.stage = "none"
    BY <1>1, <2>1 DEF Updaters
  <2> QED BY <1>1, <1>3, <2>1, <2>2, UpdaterMovesKeeps DEF Phase, files, serviceHistory
\* An installation that goes on, or fails.
<1>4. ASSUME NEW s \in UpdaterStages, updater.phase = "installing", updater' = [updater EXCEPT !.stage = s]
      PROVE  updater' \in Updaters /\ updater'.phase = "installing"
  BY <1>1, <1>4 DEF Updaters
<1>5. ASSUME InstallFails
      PROVE  updater' \in Updaters /\ updater'.stage = "none" /\ updater'.phase = "error"
  BY <1>5 DEF InstallFails, Updaters, UpdaterPhases, UpdaterStages
<1>6. CASE CheckForUpdate
  <2>1. CASE \E from \in {"idle", "error"} : Phase(from, IF server.version < Latest THEN "available" ELSE "idle")
    <3>1. PICK from \in {"idle", "error"}, to \in {"available", "idle"} :
            Phase(from, to) /\ to = IF server.version < Latest THEN "available" ELSE "idle"
      BY <2>1
    <3> QED BY <1>3, <3>1 DEF UpdaterPhases
  <2>2. CASE Phase("idle", "error") BY <1>3, <2>2 DEF UpdaterPhases
  <2> QED BY <1>6, <2>1, <2>2 DEF CheckForUpdate
<1>7. CASE Download
  <2>1. Phase("available", "downloading") /\ updater.phase = "available" BY <1>7 DEF Download, Phase
  <2> QED BY <1>1, <1>3, <2>1 DEF UpdaterPhases
<1>8. CASE Staged
  <2>1. updater.phase = "downloading" /\ (Phase("downloading", "ready") \/ Phase("downloading", "error"))
    BY <1>8 DEF Staged, Phase
  <2> QED BY <1>1, <1>3, <2>1 DEF UpdaterPhases
<1>9. CASE BeginInstall
  <2>1. /\ updater.phase = "ready" /\ updater' = [phase |-> "installing", stage |-> "lock"]
        /\ UNCHANGED <<definition, installation, result, plan, server, worker, cli, overlapped, unrecovered, stale>>
    BY <1>9 DEF BeginInstall, files, serviceHistory
  <2>2. updater' \in Updaters BY <2>1 DEF Updaters, UpdaterPhases, UpdaterStages
  <2> QED BY <1>1, <2>1, <2>2, UpdaterMovesKeeps
<1>10. CASE LockForUpdate
  <2>1. /\ updater.phase = "installing" /\ (InstallFails \/ updater' = [updater EXCEPT !.stage = "plan"])
        /\ UNCHANGED <<definition, installation, result, plan, server, worker, cli, overlapped, unrecovered, stale>>
    BY <1>1, <1>10 DEF LockForUpdate, files, serviceHistory
  <2>2. updater' \in Updaters /\ ((updater'.stage = "none" /\ updater'.phase = "error") \/ updater'.phase = "installing")
    BY <1>4, <1>5, <2>1 DEF UpdaterStages
  <2> QED BY <1>1, <2>1, <2>2, UpdaterMovesKeeps
<1>11. CASE WritePlan
  <2>1. /\ updater.phase = "installing" /\ server.version < Latest
        /\ UNCHANGED <<definition, installation, result, server, worker, cli, overlapped, unrecovered, stale>>
    BY <1>1, <1>11 DEF WritePlan, files, serviceHistory
  <2>2. CASE InstallFails /\ Free
    <3>1. plan' = NoUpdate BY <2>2 DEF Free
    <3> QED BY <1>2, <1>5, <2>1, <2>2, <3>1, UpdaterMovesKeeps
  <2>3. CASE /\ plan' = [current |-> server.version, unit |-> definition]
             /\ updater' = [updater EXCEPT !.stage = "launch"]
    <3>1. plan' \in Updates /\ plan'.current = server.version BY <1>1, <2>3 DEF Updates, Servers
    <3>2. updater' \in Updaters /\ updater'.phase = "installing"
      BY <1>4, <2>1, <2>3 DEF UpdaterStages
    <3> QED BY <1>1, <2>1, <3>1, <3>2, UpdaterMovesKeeps
  <2> QED BY <1>11, <2>2, <2>3 DEF WritePlan
<1>12. CASE LaunchWorker
  <2>1. /\ updater.phase = "installing" /\ server.version < Latest
        /\ UNCHANGED <<definition, installation, result, server, cli, overlapped, unrecovered, stale>>
        /\ worker' = worker \/ (worker = NoWorker /\ worker' = [NoWorker EXCEPT !.stage = "read"])
        /\ \/ plan' = plan /\ \E s \in {"launched", "watch"} : updater' = [updater EXCEPT !.stage = s]
           \/ InstallFails /\ plan' = NoUpdate
    BY <1>1, <1>12 DEF LaunchWorker, files, serviceHistory, Free
  <2>2. /\ updater' \in Updaters /\ ((updater'.stage = "none" /\ updater'.phase = "error") \/ updater'.phase = "installing")
        /\ plan' \in Updates /\ plan'.current < Latest
    BY <1>1, <1>2, <1>4, <1>5, <2>1 DEF UpdaterStages
  <2> QED BY <1>1, <2>1, <2>2, UpdaterMovesKeeps
<1>13. CASE WorkerGone \/ GiveUpWatching
  <2>1. /\ UNCHANGED <<definition, installation, result, server, worker, cli, overlapped, unrecovered, stale>>
        /\ InstallFails /\ plan' \in {plan, NoUpdate}
    BY <1>13 DEF WorkerGone, GiveUpWatching, files, serviceHistory, Free
  <2>2. plan' \in Updates /\ plan'.current < Latest BY <1>1, <1>2, <2>1
  <2> QED BY <1>5, <2>1, <2>2, UpdaterMovesKeeps
<1> QED BY <1>6, <1>7, <1>8, <1>9, <1>10, <1>11, <1>12, <1>13

LEMMA CrashKeeps ==
  ASSUME ServiceInv, Crash PROVE ServiceInv'
<1>1. /\ server.version # 0
      /\ UNCHANGED <<definition, installation, result, plan, worker, cli, overlapped, unrecovered, stale>>
  BY DEF Crash, files, serviceHistory
<1>2. PICK v \in {definition, server.version} : v \in ServiceVersions /\ Started(v)
  BY DEF Crash, ServiceInv, ServiceShape, Servers
<1>3. /\ server' \in Servers /\ updater' \in Updaters
      /\ server'.version = v /\ server'.told = (~result.success /\ result.version = v)
      /\ server'.told => server'.version < Latest
      /\ updater'.stage = "none" /\ updater'.phase \in {"unavailable", "idle", "error"}
  BY <1>2, StartedIsSound DEF ServiceInv
<1>4. ServiceShape' /\ ReplacedIsOlder'
  BY <1>1, <1>3 DEF ServiceInv, ServiceShape, ReplacedIsOlder, UpdaterIsBehind
<1>5. (Alone => Alone') /\ \A c \in Clis : InstallIsSound(c) => InstallIsSound(c)' BY <1>1 DEF Alone, InstallIsSound
<1>6. worker.stage \in Transaction /\ WorkerIsSound => WorkerIsSound'
  <2>1. worker.success \in BOOLEAN BY DEF ServiceInv, ServiceShape, Workers
  <2> QED BY <1>1, <1>2, <1>3, <2>1 DEF WorkerIsSound
<1>7. ASSUME NEW c \in Clis, CommandIsSound(c) PROVE CommandIsSound(c)'
  BY <1>1, <1>2, <1>3, <1>7 DEF CommandIsSound, AsDefined
<1>8. OperationsAreSound => OperationsAreSound'
  BY <1>1, <1>2, <1>3, <1>6, <1>7 DEF OperationsAreSound, NoneUnderLock, AsDefined
<1> QED BY <1>1, <1>4, <1>5, <1>8 DEF ServiceInv, Orderly

\* A lock that the user deletes has nobody's operation.
LEMMA RemoveLockKeeps ==
  ASSUME ServiceInv, RemoveLock PROVE ServiceInv'
<1>1. /\ plan' = NoUpdate
      /\ UNCHANGED <<definition, installation, result, server, updater, worker, cli, overlapped, unrecovered, stale>>
  BY DEF RemoveLock, Free, files, serviceHistory
<1>2. NoUpdate \in Updates /\ NoUpdate.current < Latest
  BY UpdateAssumption DEF NoUpdate, Updates, ServiceVersions
<1>3. ServiceShape' /\ ReplacedIsOlder'
  BY <1>1, <1>2 DEF ServiceInv, ServiceShape, ReplacedIsOlder, UpdaterIsBehind
<1> QED BY <1>1, <1>3, NothingMovedKeeps


\* A stage of the worker.
LEMMA WorkerGoesOn ==
  ASSUME ServiceShape, NEW s \in WorkerStages, WorkerGoes(s)
  PROVE  worker' \in Workers /\ worker'.stage = s /\ worker'.plan = worker.plan /\ worker'.success = worker.success
<1>1. worker \in Workers /\ worker' = [worker EXCEPT !.stage = s] BY DEF ServiceShape, WorkerGoes
<1> QED BY <1>1 DEF Workers

\* The worker begins with what it was told, and nobody else has the lock's operation.
LEMMA ReadPlanKeeps ==
  ASSUME ServiceInv, ReadPlan PROVE ServiceInv'
<1>1. /\ worker.stage = "read" /\ worker.stage \notin Transaction
      /\ UNCHANGED <<definition, installation, result, plan, server, updater, cli, unrecovered, stale>>
      /\ overlapped' = (overlapped \/ Busy(worker', cli) > 1)
  BY DEF ReadPlan, files, Transaction
<1>2. NoUpdate \in Updates /\ NoUpdate.current < Latest
  BY UpdateAssumption DEF NoUpdate, Updates, ServiceVersions
<1>3. overlapped' \in BOOLEAN BY <1>1 DEF ServiceInv, ServiceShape
<1>4. CASE worker' = NoWorker
  <2>1. worker' \in Workers /\ worker'.plan.current < Latest /\ worker'.stage \notin Transaction /\ ~worker'.success
    BY <1>2, <1>4 DEF NoWorker, Workers, WorkerStages, Transaction
  <2>2. ServiceShape' /\ ReplacedIsOlder'
    BY <1>1, <1>3, <2>1 DEF ServiceInv, ServiceShape, ReplacedIsOlder, UpdaterIsBehind
  <2>3. overlapped => overlapped' BY <1>1
  <2> QED BY <1>1, <2>1, <2>2, <2>3, NothingMovedKeeps
<1>5. CASE /\ installation = plan.current /\ definition = plan.unit
           /\ worker' = [worker EXCEPT !.stage = "write", !.plan = plan]
  <2>1. worker \in Workers /\ plan \in Updates /\ plan.current < Latest
    BY DEF ServiceInv, ServiceShape, ReplacedIsOlder
  <2>2. worker' \in Workers /\ worker'.stage = "write" /\ worker'.plan = plan /\ worker'.success = worker.success
    BY <1>5, <2>1 DEF Workers, WorkerStages, Transaction
  <2>3. ServiceShape' /\ ReplacedIsOlder'
    BY <1>1, <1>3, <2>1, <2>2 DEF ServiceInv, ServiceShape, ReplacedIsOlder, UpdaterIsBehind, Transaction
  <2>4. ASSUME ~overlapped' PROVE Alone' /\ ~overlapped /\ (\A c \in Clis : InstallIsSound(c)') /\ \A c \in Clis : cli[c].stage \notin UnderLock
    <3>1. ~(Busy(worker', cli) > 1) /\ ~overlapped BY <1>1, <2>4
    <3>2. Busy(worker', cli) <= 1
      <4>1. Busy(worker', cli) \in Int BY FS_Subset, FS_CardinalityType, UpdateAssumption DEF Busy
      <4> QED BY <3>1, <4>1
    <3>3. /\ \A d, e \in Clis : cli[d].stage \in UnderLock /\ cli[e].stage \in UnderLock => d = e
          /\ \A d \in Clis : worker'.stage \in Transaction => cli[d].stage \notin UnderLock
      BY <3>2, OneIsBusy
    <3>4. \A c \in Clis : InstallIsSound(c)' BY <1>1, <3>1 DEF ServiceInv, InstallIsSound
    <3> QED BY <1>1, <2>2, <3>1, <3>3, <3>4 DEF Alone, Transaction
  <2>5. ASSUME Orderly' PROVE OperationsAreSound'
    <3>1. Orderly /\ \A c \in Clis : cli[c].stage \notin UnderLock BY <1>1, <2>4, <2>5 DEF Orderly
    <3>2. AsDefined /\ ~worker.success
      BY <1>1, <3>1 DEF ServiceInv, ServiceShape, OperationsAreSound, NoneUnderLock
    <3>3. WorkerIsSound' BY <1>1, <1>5, <2>2, <3>2 DEF WorkerIsSound, AsDefined
    <3> QED BY <1>1, <2>2, <3>1, <3>3 DEF OperationsAreSound, NoneUnderLock, Transaction
  <2> QED BY <2>3, <2>4, <2>5 DEF ServiceInv
<1> QED BY <1>4, <1>5 DEF ReadPlan


LEMMA WorkerKeeps ==
  ASSUME ServiceInv, WorkerFails \/ Activate \/ RestartNew \/ Confirm \/ NotReady \/ Restore \/ RestartOld \/ WorkerUnlocks
  PROVE  ServiceInv'
<1>1. /\ worker \in Workers /\ definition \in ServiceVersions /\ installation \in ServiceVersions
      /\ result \in [success : BOOLEAN, version : ServiceVersions]
      /\ worker.plan \in Updates /\ worker.plan.current < Latest /\ server \in Servers
      /\ server.told => server.version < Latest
  BY DEF ServiceInv, ServiceShape, ReplacedIsOlder, Workers
<1>2. worker.stage \in Transaction /\ UNCHANGED <<cli, overlapped, stale>> /\ (unrecovered => unrecovered')
  BY DEF WorkerFails, Activate, RestartNew, Confirm, NotReady, Restore, RestartOld, WorkerUnlocks, Transaction, serviceHistory
<1>3. ServiceShape /\ ReplacedIsOlder /\ unrecovered \in BOOLEAN /\ Latest \in ServiceVersions
  BY UpdateAssumption DEF ServiceInv, ServiceShape, ServiceVersions
<1>4. \A s \in Transaction : s \in WorkerStages BY DEF WorkerStages
\* What is left to say of a step: the types of what it changes, and what the worker then knows.
<1>5. ASSUME worker' \in Workers, worker'.plan = worker.plan, worker'.stage \in Transaction,
             definition' \in ServiceVersions, installation' \in ServiceVersions, result' = result, unrecovered' \in BOOLEAN,
             plan' = plan, MayStop, Orderly' /\ WorkerIsSound => WorkerIsSound'
      PROVE  ServiceInv'
  <2>1. server' \in Servers /\ updater' \in Updaters /\ (server'.told => server'.version < Latest) /\ UpdaterIsBehind'
    BY <1>3, <1>5, MayStopSoundly
  <2>2. ServiceShape' /\ ReplacedIsOlder'
    BY <1>1, <1>2, <1>3, <1>5, <2>1 DEF ServiceShape, ReplacedIsOlder
  <2> QED BY <1>2, <1>5, <2>2, WorkerMovesKeeps
<1>6. CASE WorkerFails
  <2>1. CASE worker.stage \in {"write", "save", "health"} /\ WorkerGoes("put-back")
    <3>1. /\ worker' \in Workers /\ worker'.stage = "put-back" /\ worker'.plan = worker.plan /\ worker'.success = worker.success
          /\ "put-back" \in Transaction
      BY <1>3, <1>4, <2>1, WorkerGoesOn DEF Transaction
    <3>2. UNCHANGED <<definition, installation, result, plan, unrecovered>> /\ MayStop
      BY <1>6, <2>1 DEF WorkerFails, files, MayStop
    <3>3. WorkerIsSound => WorkerIsSound' BY <2>1, <3>1 DEF WorkerIsSound
    <3> QED BY <1>1, <1>3, <1>5, <3>1, <3>2, <3>3
  <2>2. CASE WorkerGoes("unlock") /\ unrecovered' = TRUE
    <3>1. worker' \in Workers /\ worker'.stage = "unlock" /\ worker'.plan = worker.plan /\ "unlock" \in Transaction
      BY <1>3, <1>4, <2>2, WorkerGoesOn DEF Transaction
    <3>2. UNCHANGED <<definition, installation, result, plan>> /\ MayStop
      BY <1>6 DEF WorkerFails, files, MayStop
    <3> QED BY <1>1, <1>5, <2>2, <3>1, <3>2 DEF Orderly
  <2> QED BY <1>6, <2>1, <2>2 DEF WorkerFails, FailedStage
<1>7. CASE Activate
  <2>1. CASE worker.stage = "write" /\ definition' = Latest /\ MayStop /\ WorkerGoes("save") /\ UNCHANGED installation
    <3>1. /\ worker' \in Workers /\ worker'.stage = "save" /\ worker'.plan = worker.plan /\ worker'.success = worker.success
          /\ "save" \in Transaction
      BY <1>3, <1>4, <2>1, WorkerGoesOn DEF Transaction
    <3>2. WorkerIsSound => WorkerIsSound' BY <2>1, <3>1 DEF WorkerIsSound
    <3> QED BY <1>1, <1>3, <1>5, <1>7, <2>1, <3>1, <3>2 DEF Activate, serviceHistory
  <2>2. CASE worker.stage = "save" /\ installation' = Latest /\ WorkerGoes("restart") /\ UNCHANGED <<definition, server, updater>>
    <3>1. /\ worker' \in Workers /\ worker'.stage = "restart" /\ worker'.plan = worker.plan /\ worker'.success = worker.success
          /\ "restart" \in Transaction
      BY <1>3, <1>4, <2>2, WorkerGoesOn DEF Transaction
    <3>2. WorkerIsSound => WorkerIsSound' BY <2>2, <3>1 DEF WorkerIsSound
    <3> QED BY <1>1, <1>3, <1>5, <1>7, <2>2, <3>1, <3>2 DEF Activate, serviceHistory, MayStop
  <2> QED BY <1>7, <2>1, <2>2 DEF Activate
<1>8. CASE RestartNew
  <2>1. worker.stage = "restart" /\ UNCHANGED <<definition, installation, result, plan, overlapped, unrecovered, stale>>
    BY <1>8 DEF RestartNew, files, serviceHistory
  <2>2. PICK s \in {"health", "put-back"} : WorkerGoes(s) BY <1>8 DEF RestartNew, FailedStage
  <2>3. worker' \in Workers /\ worker'.stage = s /\ worker'.plan = worker.plan /\ worker'.success = worker.success /\ s \in Transaction
    BY <1>3, <1>4, <2>2, WorkerGoesOn DEF Transaction
  <2>4. /\ server' \in Servers /\ updater' \in Updaters /\ UpdaterIsBehind'
        /\ server'.told => server'.version < Latest
    <3>1. CASE Started(definition) BY <1>1, <1>3, <3>1, StartedIsSound DEF UpdaterIsBehind
    <3>2. CASE MayStop BY <1>3, <3>2, MayStopSoundly
    <3> QED BY <1>8, <3>1, <3>2 DEF RestartNew
  <2>5. ServiceShape' /\ ReplacedIsOlder'
    BY <1>1, <1>2, <1>3, <2>1, <2>3, <2>4 DEF ServiceShape, ReplacedIsOlder
  <2>6. WorkerIsSound => WorkerIsSound' BY <2>1, <2>2, <2>3 DEF WorkerIsSound
  <2> QED BY <1>2, <2>3, <2>5, <2>6, WorkerMovesKeeps
<1>9. CASE Confirm
  <2>1. /\ worker.stage = "health" /\ server.version = Latest /\ result' = [success |-> TRUE, version |-> Latest]
        /\ worker' = [worker EXCEPT !.stage = "unlock", !.success = TRUE]
        /\ UNCHANGED <<definition, installation, plan, server, updater, overlapped, unrecovered, stale>>
    BY <1>9 DEF Confirm, Healthy, serviceHistory
  <2>2. worker' \in Workers /\ worker'.stage = "unlock" /\ worker'.plan = worker.plan /\ worker'.success = TRUE /\ "unlock" \in Transaction
    BY <1>1, <1>4, <2>1 DEF Workers, Transaction
  <2>3. result' \in [success : BOOLEAN, version : ServiceVersions] /\ result'.success = TRUE /\ result'.version = Latest
    BY <1>3, <2>1
  <2>4. ServiceShape' /\ ReplacedIsOlder'
    BY <1>2, <1>3, <2>1, <2>2, <2>3 DEF ServiceShape, ReplacedIsOlder, UpdaterIsBehind
  <2>5. server.told = FALSE BY <1>1, <2>1, UpdateAssumption DEF Servers, ServiceVersions
  <2>6. WorkerIsSound => WorkerIsSound' BY <2>1, <2>2, <2>3, <2>5 DEF WorkerIsSound
  <2> QED BY <1>2, <2>2, <2>4, <2>6, WorkerMovesKeeps
<1>10. CASE NotReady
  <2>1. worker.stage = "health" /\ WorkerGoes("put-back") /\ UNCHANGED <<definition, installation, result, plan, server, updater, unrecovered>>
    BY <1>10 DEF NotReady, FailedStage, files, serviceHistory
  <2>2. /\ worker' \in Workers /\ worker'.stage = "put-back" /\ worker'.plan = worker.plan /\ worker'.success = worker.success
        /\ "put-back" \in Transaction
    BY <1>3, <1>4, <2>1, WorkerGoesOn DEF Transaction
  <2>3. WorkerIsSound => WorkerIsSound' BY <2>1, <2>2 DEF WorkerIsSound
  <2> QED BY <1>1, <1>3, <1>5, <2>1, <2>2, <2>3 DEF MayStop
<1>11. CASE Restore
  <2>1. UNCHANGED <<plan, overlapped, unrecovered, stale>>
    BY <1>11 DEF Restore, serviceHistory
  <2>2. worker.plan.unit \in ServiceVersions /\ worker.plan.current \in ServiceVersions
    BY <1>1 DEF Updates
  <2>3. CASE worker.stage = "put-back" /\ definition' = worker.plan.unit /\ MayStop /\ WorkerGoes("put-back-save") /\ UNCHANGED <<installation, result>>
    <3>1. /\ worker' \in Workers /\ worker'.stage = "put-back-save" /\ worker'.plan = worker.plan
          /\ worker'.success = worker.success /\ "put-back-save" \in Transaction
      BY <1>3, <1>4, <2>3, WorkerGoesOn DEF Transaction
    <3>2. WorkerIsSound => WorkerIsSound' BY <2>3, <3>1 DEF WorkerIsSound
    <3> QED BY <1>1, <1>3, <1>5, <2>1, <2>2, <2>3, <3>1, <3>2
  <2>4. CASE worker.stage = "put-back-save" /\ installation' = worker.plan.current /\ WorkerGoes("tell") /\ UNCHANGED <<definition, result, server, updater>>
    <3>1. /\ worker' \in Workers /\ worker'.stage = "tell" /\ worker'.plan = worker.plan
          /\ worker'.success = worker.success /\ "tell" \in Transaction
      BY <1>3, <1>4, <2>4, WorkerGoesOn DEF Transaction
    <3>2. WorkerIsSound => WorkerIsSound' BY <2>4, <3>1 DEF WorkerIsSound
    <3> QED BY <1>1, <1>3, <1>5, <2>1, <2>2, <2>4, <3>1, <3>2 DEF MayStop
  <2>5. CASE worker.stage = "tell" /\ Tell /\ WorkerGoes("restart-back") /\ UNCHANGED <<definition, installation, server, updater>>
    <3>1. /\ worker' \in Workers /\ worker'.stage = "restart-back" /\ worker'.plan = worker.plan
          /\ worker'.success = worker.success /\ "restart-back" \in Transaction
      BY <1>3, <1>4, <2>5, WorkerGoesOn DEF Transaction
    <3>2. /\ result' \in [success : BOOLEAN, version : ServiceVersions] /\ result'.success = FALSE
          /\ result'.version = worker.plan.current
      BY <2>2, <2>5 DEF Tell
    <3>3. ServiceShape' /\ ReplacedIsOlder'
      BY <1>1, <1>2, <1>3, <2>1, <2>5, <3>1, <3>2 DEF ServiceShape, ReplacedIsOlder, UpdaterIsBehind
    <3>4. WorkerIsSound => WorkerIsSound' BY <2>5, <3>1, <3>2 DEF WorkerIsSound
    <3> QED BY <1>2, <3>1, <3>3, <3>4, WorkerMovesKeeps
  <2> QED BY <1>11, <2>3, <2>4, <2>5 DEF Restore
<1>12. CASE RestartOld
  <2>1. worker.stage = "restart-back" /\ WorkerGoes("unlock") /\ UNCHANGED <<definition, installation, result, plan, overlapped, stale>>
    BY <1>12 DEF RestartOld, files
  <2>2. /\ worker' \in Workers /\ worker'.stage = "unlock" /\ worker'.plan = worker.plan /\ worker'.success = worker.success
        /\ "unlock" \in Transaction
    BY <1>3, <1>4, <2>1, WorkerGoesOn DEF Transaction
  <2>3. CASE Started(definition) /\ UNCHANGED unrecovered
    <3>1. /\ server' \in Servers /\ updater' \in Updaters
          /\ server'.version = definition /\ server'.told = (~result.success /\ result.version = definition)
          /\ server'.told => server'.version < Latest
          /\ updater'.stage = "none" /\ updater'.phase \in {"unavailable", "idle", "error"}
      BY <1>1, <1>3, <2>3, StartedIsSound
    <3>2. ServiceShape' /\ ReplacedIsOlder'
      BY <1>1, <1>2, <1>3, <2>1, <2>2, <2>3, <3>1 DEF ServiceShape, ReplacedIsOlder, UpdaterIsBehind
    <3>3. WorkerIsSound => WorkerIsSound' BY <1>1, <2>1, <2>2, <3>1 DEF WorkerIsSound, Workers
    <3> QED BY <1>2, <2>2, <3>2, <3>3, WorkerMovesKeeps
  <2>4. CASE MayStop /\ unrecovered' = TRUE
    <3>1. /\ server' \in Servers /\ updater' \in Updaters /\ UpdaterIsBehind'
          /\ server'.told => server'.version < Latest
      BY <1>3, <2>4, MayStopSoundly
    <3>2. ServiceShape' /\ ReplacedIsOlder'
      BY <1>1, <1>2, <1>3, <2>1, <2>2, <2>4, <3>1 DEF ServiceShape, ReplacedIsOlder
    <3> QED BY <1>2, <2>4, <3>2, WorkerMovesKeeps DEF Orderly
  <2> QED BY <1>12, <2>3, <2>4 DEF RestartOld
<1>13. CASE WorkerUnlocks
  <2>1. /\ worker.stage = "unlock" /\ plan' \in {plan, NoUpdate} /\ worker' = NoWorker
        /\ UNCHANGED <<definition, installation, result, server, updater, overlapped, unrecovered, stale>>
    BY <1>13 DEF WorkerUnlocks, Unlock, Free, files, serviceHistory
  <2>2. NoUpdate \in Updates /\ NoUpdate.current < Latest
    BY UpdateAssumption DEF NoUpdate, Updates, ServiceVersions
  <2>3. worker' \in Workers /\ worker'.stage = "none" /\ worker'.success = FALSE /\ worker'.plan = NoUpdate /\ "none" \notin Transaction
    BY <2>1, <2>2 DEF NoWorker, Workers, WorkerStages, Transaction
  <2>4. ServiceShape' /\ ReplacedIsOlder'
    BY <1>2, <1>3, <2>1, <2>2, <2>3 DEF ServiceShape, ReplacedIsOlder, UpdaterIsBehind
  <2>5. WorkerIsSound => AsDefined' BY <2>1 DEF WorkerIsSound, AsDefined
  <2> QED BY <1>2, <2>3, <2>4, <2>5, WorkerMovesKeeps
<1> QED BY <1>6, <1>7, <1>8, <1>9, <1>10, <1>11, <1>12, <1>13

LEMMA KillWorkerKeeps ==
  ASSUME ServiceInv, KillWorker PROVE ServiceInv'
<1>1. /\ worker' = NoWorker /\ unrecovered' = (unrecovered \/ worker.stage \in Transaction)
      /\ UNCHANGED <<definition, installation, result, plan, server, updater, cli, overlapped, stale>>
  BY DEF KillWorker, files
<1>2. NoUpdate \in Updates /\ NoUpdate.current < Latest
  BY UpdateAssumption DEF NoUpdate, Updates, ServiceVersions
<1>3. worker' \in Workers /\ worker'.stage = "none" /\ worker'.success = FALSE /\ worker'.plan = NoUpdate /\ "none" \notin Transaction
  BY <1>1, <1>2 DEF NoWorker, Workers, WorkerStages, Transaction
<1>4. unrecovered' \in BOOLEAN /\ (unrecovered => unrecovered') BY <1>1 DEF ServiceInv, ServiceShape
<1>5. ServiceShape' /\ ReplacedIsOlder'
  BY <1>1, <1>2, <1>3, <1>4 DEF ServiceInv, ServiceShape, ReplacedIsOlder, UpdaterIsBehind
<1>6. CASE worker.stage \in Transaction
  <2>1. unrecovered' = TRUE BY <1>1, <1>6
  <2> QED BY <1>1, <1>4, <1>5, <1>6, <2>1, WorkerMovesKeeps DEF Orderly
<1>7. CASE worker.stage \notin Transaction BY <1>1, <1>3, <1>4, <1>5, <1>7, NothingMovedKeeps
<1> QED BY <1>6, <1>7


\* A stage of a command.
LEMMA CliGoesOn ==
  ASSUME ServiceShape, NEW c \in Clis, NEW s \in CliStages, CliGoes(c, s)
  PROVE  /\ cli' \in [Clis -> Commands] /\ cli'[c].stage = s /\ \A d \in Clis : d # c => cli'[d] = cli[d]
         /\ cli'[c].action = cli[c].action /\ cli'[c].version = cli[c].version
         /\ cli'[c].installed = cli[c].installed /\ cli'[c].definition = cli[c].definition
<1>1. cli \in [Clis -> Commands] /\ cli[c] \in Commands BY DEF ServiceShape
<1>2. PICK g : g = [cli[c] EXCEPT !.stage = s] OBVIOUS
<1>3. /\ g \in Commands /\ g.stage = s /\ g.action = cli[c].action /\ g.version = cli[c].version
      /\ g.installed = cli[c].installed /\ g.definition = cli[c].definition
  BY <1>1, <1>2 DEF Commands
<1>4. cli' = [cli EXCEPT ![c] = g] BY <1>2 DEF CliGoes
<1> HIDE DEF Commands
<1> QED BY <1>1, <1>3, <1>4

LEMMA NoCliIsACommand == NoCli \in Commands /\ NoCli.stage = "none" /\ "none" \notin UnderLock
<1>1. 1 \in Versions /\ 0 \in ServiceVersions BY UpdateAssumption DEF Versions, ServiceVersions
<1> QED BY <1>1 DEF NoCli, Commands, CliStages, UnderLock

\* A command before it has the lock, and its end by force.
LEMMA CommandWithoutLockKeeps ==
  ASSUME ServiceInv, NEW c \in Clis, BeginServiceCommand(c) \/ ReadDefinition(c) \/ KillCommand(c)
  PROVE  ServiceInv'
<1>1. cli \in [Clis -> Commands] /\ cli[c] \in Commands /\ definition \in ServiceVersions /\ installation \in ServiceVersions
  BY DEF ServiceInv, ServiceShape
<1>2. /\ UNCHANGED <<definition, installation, result, plan, server, updater, worker, overlapped, stale>>
      /\ unrecovered' \in BOOLEAN /\ (unrecovered => unrecovered')
  BY DEF BeginServiceCommand, ReadDefinition, KillCommand, files, serviceHistory, ServiceInv, ServiceShape
<1>3. \E g \in Commands : cli' = [cli EXCEPT ![c] = g] /\ g.stage \notin UnderLock
  <2>1. CASE BeginServiceCommand(c)
    <3>1. PICK action \in {"install", "restart", "uninstall"}, version \in Versions :
            cli' = [cli EXCEPT ![c] = [NoCli EXCEPT !.stage = "read", !.action = action, !.version = version,
                                                    !.installed = installation]]
      BY <2>1 DEF BeginServiceCommand
    <3>2. PICK g : g = [NoCli EXCEPT !.stage = "read", !.action = action, !.version = version, !.installed = installation]
      OBVIOUS
    <3>3. g \in Commands /\ g.stage \notin UnderLock
      <4>1. 0 \in ServiceVersions BY UpdateAssumption DEF ServiceVersions
      <4>2. g = [stage |-> "read", action |-> action, version |-> version, installed |-> installation, definition |-> 0]
        BY <3>2 DEF NoCli
      <4> QED BY <1>1, <4>1, <4>2 DEF Commands, CliStages, UnderLock
    <3>4. cli' = [cli EXCEPT ![c] = g] BY <3>1, <3>2
    <3> QED BY <3>3, <3>4
  <2>2. CASE ReadDefinition(c)
    <3>1. PICK g : g = [cli[c] EXCEPT !.stage = "lock", !.definition = definition] OBVIOUS
    <3>2. cli' = [cli EXCEPT ![c] = NoCli] \/ cli' = [cli EXCEPT ![c] = g]
      BY <1>1, <2>2, <3>1 DEF ReadDefinition
    <3>3. g \in Commands /\ g.stage \notin UnderLock
      BY <1>1, <3>1 DEF Commands, CliStages, UnderLock
    <3> QED BY <3>2, <3>3, NoCliIsACommand
  <2>3. CASE KillCommand(c) BY <2>3, NoCliIsACommand DEF KillCommand
  <2> QED BY <2>1, <2>2, <2>3
<1>4. cli' \in [Clis -> Commands] /\ cli'[c].stage \notin UnderLock /\ \A d \in Clis : d # c => cli'[d] = cli[d]
  <2> HIDE DEF Commands
  <2> QED BY <1>1, <1>3
<1>5. ServiceShape' /\ ReplacedIsOlder'
  BY <1>2, <1>4 DEF ServiceInv, ServiceShape, ReplacedIsOlder, UpdaterIsBehind
<1>6. cli[c].stage \notin UnderLock \/ unrecovered'
  BY DEF BeginServiceCommand, ReadDefinition, KillCommand, UnderLock
<1> QED BY <1>2, <1>4, <1>5, <1>6, CommandWaitsKeeps

\* With the lock, what it has read is what is there, unless that is stale.
LEMMA LockForCommandKeeps ==
  ASSUME ServiceInv, NEW c \in Clis, LockForCommand(c) PROVE ServiceInv'
<1>1. /\ cli \in [Clis -> Commands] /\ cli[c].stage = "lock" /\ cli[c].stage \notin UnderLock
      /\ UNCHANGED <<definition, installation, result, plan, server, updater, worker, unrecovered>>
      /\ ServiceShape
  BY DEF LockForCommand, files, UnderLock, ServiceInv, ServiceShape
<1>2. CASE cli' = [cli EXCEPT ![c] = NoCli] /\ UNCHANGED <<stale, overlapped>>
  <2>1. cli' \in [Clis -> Commands] /\ cli'[c].stage \notin UnderLock /\ \A d \in Clis : d # c => cli'[d] = cli[d]
    BY <1>1, <1>2, NoCliIsACommand
  <2>2. ServiceShape' /\ ReplacedIsOlder'
    BY <1>1, <1>2, <2>1 DEF ServiceInv, ServiceShape, ReplacedIsOlder, UpdaterIsBehind
  <2> QED BY <1>1, <1>2, <2>1, <2>2, CommandWaitsKeeps
<1>3. CASE /\ CliGoes(c, "ready")
           /\ stale' = (stale \/ cli[c].installed # installation \/ cli[c].definition # definition)
           /\ overlapped' = (overlapped \/ Busy(worker, cli') > 1)
  <2>1. /\ cli' \in [Clis -> Commands] /\ cli'[c].stage = "ready" /\ \A d \in Clis : d # c => cli'[d] = cli[d]
        /\ cli'[c].installed = cli[c].installed /\ cli'[c].definition = cli[c].definition /\ "ready" \in UnderLock
    BY <1>1, <1>3, CliGoesOn DEF CliStages, UnderLock
  <2>2. stale' \in BOOLEAN /\ overlapped' \in BOOLEAN BY <1>3 DEF ServiceInv, ServiceShape
  <2>3. ServiceShape' /\ ReplacedIsOlder'
    BY <1>1, <2>1, <2>2 DEF ServiceInv, ServiceShape, ReplacedIsOlder, UpdaterIsBehind
  <2>4. ASSUME ~overlapped' PROVE Alone' /\ ~overlapped /\ NoneUnderLock /\ \A d \in Clis : InstallIsSound(d)'
    <3>1. ~(Busy(worker, cli') > 1) /\ ~overlapped BY <1>3, <2>4
    <3>2. Busy(worker, cli') <= 1
      <4>1. Busy(worker, cli') \in Int BY FS_Subset, FS_CardinalityType, UpdateAssumption DEF Busy
      <4> QED BY <3>1, <4>1
    <3>3. /\ \A d, e \in Clis : cli'[d].stage \in UnderLock /\ cli'[e].stage \in UnderLock => d = e
          /\ \A d \in Clis : worker.stage \in Transaction => cli'[d].stage \notin UnderLock
      BY <3>2, OneIsBusy
    <3>4. \A d \in Clis : cli[d].stage \notin UnderLock BY <1>1, <2>1, <3>3
    <3>5. \A d \in Clis : InstallIsSound(d)' BY <1>1, <2>1, <3>1 DEF ServiceInv, InstallIsSound
    <3> QED BY <1>1, <2>1, <3>1, <3>3, <3>4, <3>5 DEF Alone, NoneUnderLock
  <2>5. ASSUME Orderly' PROVE OperationsAreSound'
    <3>1. Orderly /\ NoneUnderLock /\ cli[c].installed = installation /\ cli[c].definition = definition
      BY <1>1, <1>3, <2>4, <2>5 DEF Orderly
    <3>2. AsDefined BY <3>1 DEF ServiceInv, OperationsAreSound
    <3>3. CommandIsSound(c)' BY <1>1, <2>1, <3>1, <3>2 DEF CommandIsSound, AsDefined
    <3>4. \A d \in Clis : cli'[d].stage \in UnderLock => d = c BY <2>1, <3>1 DEF NoneUnderLock
    <3> QED BY <1>1, <2>1, <3>1, <3>3, <3>4 DEF OperationsAreSound, NoneUnderLock
  <2> QED BY <2>3, <2>4, <2>5 DEF ServiceInv
<1> QED BY <1>2, <1>3 DEF LockForCommand

LEMMA CommandKeeps ==
  ASSUME ServiceInv, NEW c \in Clis,
         Choose(c) \/ Uninstall(c) \/ Register(c) \/ RestartService(c) \/ WaitReady(c) \/ RegisterFails(c) \/ PutBack(c)
         \/ PutBackFails(c) \/ RestartPrevious(c) \/ CommandUnlocks(c) \/ UninstallFails(c)
  PROVE  ServiceInv'
<1>1. /\ cli \in [Clis -> Commands] /\ cli[c] \in Commands /\ definition \in ServiceVersions /\ installation \in ServiceVersions
      /\ result \in [success : BOOLEAN, version : ServiceVersions] /\ plan \in Updates /\ server \in Servers /\ updater \in Updaters
      /\ cli[c].definition \in ServiceVersions /\ cli[c].installed \in ServiceVersions /\ cli[c].version \in ServiceVersions
      /\ cli[c].action \in {"install", "restart", "uninstall"}
      /\ plan.current < Latest /\ (server.told => server.version < Latest) /\ UpdaterIsBehind
      /\ (~result.success => result.version < Latest) /\ 0 \in ServiceVersions /\ unrecovered \in BOOLEAN /\ stale \in BOOLEAN
  BY UpdateAssumption DEF ServiceInv, ServiceShape, ReplacedIsOlder, Commands, Versions, ServiceVersions
<1>2. cli[c].stage \in UnderLock /\ UNCHANGED <<worker, overlapped>>
  BY DEF Choose, Uninstall, UninstallFails, Register, RestartService, WaitReady, RegisterFails, PutBack, PutBackFails, RestartPrevious,
         CommandUnlocks, UnderLock, serviceHistory
<1>3. ServiceShape /\ ReplacedIsOlder BY DEF ServiceInv
<1>4. \A s \in UnderLock : s \in CliStages BY DEF CliStages
<1>5. NoUpdate \in Updates /\ NoUpdate.current < Latest
  BY UpdateAssumption DEF NoUpdate, Updates, ServiceVersions
\* What is left to say of a step from one stage to another.
<1>6. ASSUME NEW s \in UnderLock, CliGoes(c, s), unrecovered' \in BOOLEAN, stale' \in BOOLEAN,
             definition' \in ServiceVersions, installation' \in ServiceVersions,
             result' \in [success : BOOLEAN, version : ServiceVersions], ~result'.success => result'.version < Latest,
             plan' \in Updates, plan'.current < Latest,
             server' \in Servers, updater' \in Updaters, server'.told => server'.version < Latest, UpdaterIsBehind',
             InstallIsSound(c) => InstallIsSound(c)',
             Orderly' /\ (Orderly => CommandIsSound(c)) /\ InstallIsSound(c) => CommandIsSound(c)'
      PROVE  ServiceInv'
  <2>1. cli' \in [Clis -> Commands] /\ cli'[c].stage = s /\ \A d \in Clis : d # c => cli'[d] = cli[d]
    BY <1>3, <1>4, <1>6, CliGoesOn
  <2>2. ServiceShape' /\ ReplacedIsOlder'
    BY <1>2, <1>3, <1>6, <2>1 DEF ServiceShape, ReplacedIsOlder
  <2> QED BY <1>2, <1>6, <2>1, <2>2, CommandMovesKeeps
\* Of those, the ones that may stop the server, and what they find is whole unless it was cut short.
<1>7. ASSUME NEW s \in UnderLock, CliGoes(c, s), unrecovered' \in {unrecovered, TRUE}, stale' = stale,
             definition' \in ServiceVersions, installation' \in ServiceVersions, UNCHANGED <<result, plan>>, MayStop,
             InstallIsSound(c) => InstallIsSound(c)', Orderly' /\ CommandIsSound(c) => CommandIsSound(c)'
      PROVE  ServiceInv'
  <2>1. server' \in Servers /\ updater' \in Updaters /\ (server'.told => server'.version < Latest) /\ UpdaterIsBehind'
    BY <1>3, <1>7, MayStopSoundly
  <2>2. unrecovered' = unrecovered \/ unrecovered' = TRUE BY <1>7
  <2>3. unrecovered' \in BOOLEAN /\ stale' \in BOOLEAN BY <1>1, <1>7, <2>2
  <2>4. Orderly' => Orderly BY <1>2, <1>7, <2>2 DEF Orderly
  <2> QED BY <1>1, <1>6, <1>7, <2>1, <2>3, <2>4
<1>8. ASSUME NEW s \in UnderLock, CliGoes(c, s)
      PROVE  /\ cli'[c].stage = s /\ cli'[c].action = cli[c].action /\ cli'[c].version = cli[c].version
             /\ cli'[c].installed = cli[c].installed /\ cli'[c].definition = cli[c].definition
  BY <1>3, <1>4, <1>8, CliGoesOn
\* Of the steps of an installation, those on which later ones rely are its writes.
<1>9. ASSUME NEW s \in UnderLock, CliGoes(c, s), s \notin {"save", "restart", "wait"} PROVE InstallIsSound(c)'
  BY <1>8, <1>9 DEF InstallIsSound
<1>10. CASE Choose(c)
  <2>1. cli[c].stage = "ready" /\ cli[c].action # "uninstall"
        /\ UNCHANGED <<definition, installation, result, plan, server, updater, unrecovered, stale>>
    BY <1>10 DEF Choose, files, serviceHistory
  <2>2. PICK s \in {"restart", "unlock", "write"} : CliGoes(c, s) /\ (s = "restart" => cli[c].action = "restart")
                                                    /\ (s = "write" => cli[c].action = "install")
    <3>1. PICK s : CliGoes(c, s) /\ (s = "unlock" \/ s = CASE cli[c].action = "restart" ->
                                                IF cli[c].definition # 0 /\ cli[c].installed # 0 THEN "restart" ELSE "unlock"
                                          [] OTHER -> IF server.version = 0 \/ (cli[c].definition # 0 /\ cli[c].installed # 0)
                                                      THEN "write" ELSE "unlock")
      BY <1>10 DEF Choose
    <3>2. CASE cli[c].action = "restart" BY <3>1, <3>2
    <3>3. CASE cli[c].action # "restart" BY <1>1, <2>1, <3>1, <3>3
    <3> QED BY <3>2, <3>3
  <2>3. s \in UnderLock BY DEF UnderLock
  <2>4. (CommandIsSound(c) => CommandIsSound(c)') /\ InstallIsSound(c)'
    BY <1>8, <2>1, <2>2, <2>3 DEF CommandIsSound, InstallIsSound, AsDefined
  <2>5. MayStop BY <2>1 DEF MayStop
  <2> QED BY <1>1, <1>7, <2>1, <2>2, <2>3, <2>4, <2>5
<1>11. CASE Uninstall(c)
  <2>1. cli[c].action = "uninstall" BY <1>11 DEF Uninstall
  <2>2. CASE /\ cli[c].stage = "ready" /\ CliGoes(c, "save") /\ UNCHANGED <<installation, result, plan, unrecovered, stale>>
             /\ IF cli[c].definition # 0 THEN definition' = 0 /\ Stopped ELSE UNCHANGED <<definition, server, updater>>
    <3>1. "save" \in UnderLock BY DEF UnderLock
    <3>2. MayStop /\ definition' \in ServiceVersions BY <1>1, <2>2 DEF MayStop
    <3>3. InstallIsSound(c)' BY <1>8, <2>1, <2>2, <3>1 DEF InstallIsSound
    <3>4. cli[c].definition # 0 => definition' = 0 /\ server'.version = 0
      BY <2>2, StoppedIsSound
    <3>5. CommandIsSound(c) => CommandIsSound(c)'
      BY <1>8, <2>1, <2>2, <3>1, <3>4 DEF CommandIsSound, AsDefined
    <3> QED BY <1>1, <1>7, <2>1, <2>2, <3>1, <3>2, <3>3, <3>5
  <2>3. CASE /\ cli[c].stage = "save" /\ CliGoes(c, "unlock") /\ UNCHANGED <<definition, server, updater>>
             /\ installation' = 0 /\ result' = NoResult /\ Free
             /\ unrecovered' = (unrecovered /\ ~Gone) /\ stale' = (stale /\ ~Gone)
    <3>1. "unlock" \in UnderLock /\ plan' = NoUpdate BY <2>3 DEF UnderLock, Free
    <3>2. result' \in [success : BOOLEAN, version : ServiceVersions] /\ result'.success = TRUE
      BY <1>1, <2>3 DEF NoResult
    <3>3. unrecovered' \in BOOLEAN /\ stale' \in BOOLEAN BY <1>1, <2>3
    <3>4. Orderly' => Orderly \/ Gone BY <1>2, <2>3 DEF Orderly
    <3>5. ASSUME Orderly', Orderly => CommandIsSound(c) PROVE CommandIsSound(c)'
      <4>1. CASE Gone BY <1>8, <2>3, <3>1, <4>1 DEF CommandIsSound, AsDefined, Gone
      <4>2. CASE Orderly BY <1>8, <2>1, <2>3, <3>1, <3>5, <4>2 DEF CommandIsSound, AsDefined
      <4> QED BY <3>4, <3>5, <4>1, <4>2
    <3>6. UpdaterIsBehind' /\ InstallIsSound(c)' BY <1>1, <1>9, <2>3, <3>1 DEF UpdaterIsBehind
    <3> QED BY <1>1, <1>5, <1>6, <2>3, <3>1, <3>2, <3>3, <3>5, <3>6
  <2> QED BY <1>11, <2>2, <2>3 DEF Uninstall
<1>12. CASE UninstallFails(c)
  <2>1. /\ cli[c].action = "uninstall" /\ CliGoes(c, "unlock") /\ unrecovered' = (unrecovered \/ definition' = 0)
        /\ stale' = stale /\ "unlock" \in UnderLock
    BY <1>12 DEF UninstallFails, UnderLock
  <2>2. InstallIsSound(c)' /\ unrecovered' \in {unrecovered, TRUE} /\ unrecovered' \in BOOLEAN BY <1>1, <1>9, <2>1
  <2>3. CASE /\ cli[c].stage = "ready" /\ RemovalFails /\ UNCHANGED <<installation, result, holder, plan>>
    <3>1. MayStop /\ definition' \in {definition, 0} BY <2>3 DEF RemovalFails, MayStop
    <3>2. server'.version \in {0, server.version} BY <1>3, <3>1, MayStopSoundly
    <3>3. definition' = 0 => ~Orderly' BY <2>1 DEF Orderly
    <3>4. definition' = definition /\ CommandIsSound(c) => CommandIsSound(c)'
      BY <1>8, <2>1, <2>3, <3>2 DEF CommandIsSound, AsDefined
    <3> QED BY <1>1, <1>7, <2>1, <2>2, <2>3, <3>1, <3>3, <3>4
  <2>4. CASE /\ cli[c].stage = "save" /\ installation' \in {installation, 0} /\ result' \in {result, NoResult}
             /\ Free \/ UNCHANGED <<holder, plan>>
             /\ UNCHANGED <<definition, server, updater>>
    <3>1. plan' \in {plan, NoUpdate} BY <2>4 DEF Free
    <3>2. result' \in [success : BOOLEAN, version : ServiceVersions] /\ (~result'.success => result'.version < Latest)
      <4>1. CASE result' = result BY <1>1, <4>1
      <4>2. CASE result' = [success |-> TRUE, version |-> 0] BY <1>1, <4>2
      <4> QED BY <2>4, <4>1, <4>2 DEF NoResult
    <3>3. UpdaterIsBehind' BY <1>1, <2>4 DEF UpdaterIsBehind
    <3>4. Orderly' => Orderly /\ definition # 0 BY <1>2, <2>1, <2>4 DEF Orderly
    <3>5. CommandIsSound(c) => definition = 0 BY <2>1, <2>4 DEF CommandIsSound
    <3> QED BY <1>1, <1>5, <1>6, <2>1, <2>2, <2>4, <3>1, <3>2, <3>3, <3>4, <3>5
  <2> QED BY <1>12, <2>3, <2>4 DEF UninstallFails
<1>13. CASE Register(c) \/ RegisterFails(c)
  <2>1. cli[c].action = "install" /\ UNCHANGED <<result, plan, unrecovered, stale>> /\ MayStop
    BY <1>13 DEF Register, RegisterFails, files, serviceHistory, MayStop
  <2>2. CASE cli[c].stage = "write" /\ definition' = cli[c].version /\ CliGoes(c, "save") /\ UNCHANGED installation
    <3>1. "save" \in UnderLock BY DEF UnderLock
    <3>2. (CommandIsSound(c) => CommandIsSound(c)') /\ InstallIsSound(c)'
      BY <1>8, <2>1, <2>2, <3>1 DEF CommandIsSound, InstallIsSound
    <3> QED BY <1>1, <1>7, <2>1, <2>2, <3>1, <3>2
  <2>3. CASE cli[c].stage = "save" /\ installation' = cli[c].version /\ CliGoes(c, "restart") /\ UNCHANGED definition
    <3>1. "restart" \in UnderLock BY DEF UnderLock
    <3>2. CommandIsSound(c) => CommandIsSound(c)' BY <1>8, <2>1, <2>3, <3>1 DEF CommandIsSound
    <3>3. InstallIsSound(c) => InstallIsSound(c)' BY <1>8, <2>1, <2>3, <3>1 DEF InstallIsSound
    <3> QED BY <1>1, <1>7, <2>1, <2>3, <3>1, <3>2, <3>3
  <2>4. CASE CliGoes(c, "put-back") /\ UNCHANGED <<definition, installation>>
    <3>1. "put-back" \in UnderLock BY DEF UnderLock
    <3>2. CommandIsSound(c) => CommandIsSound(c)' BY <1>2, <1>8, <2>1, <2>4, <3>1, <1>13 DEF CommandIsSound, Register, RegisterFails
    <3>3. InstallIsSound(c)' BY <1>9, <2>4, <3>1
    <3> QED BY <1>1, <1>7, <2>1, <2>4, <3>1, <3>2, <3>3
  <2> QED BY <1>13, <2>2, <2>3, <2>4 DEF Register, RegisterFails, files
<1>14. CASE RestartService(c) \/ RestartPrevious(c)
  <2>1. UNCHANGED <<definition, installation, result, plan, stale>> /\ unrecovered' \in {unrecovered, TRUE} /\ unrecovered' \in BOOLEAN
    BY <1>1, <1>14 DEF RestartService, RestartPrevious, files, serviceHistory
  <2>2. CASE cli[c].stage = "restart-back" /\ MayStop /\ CliGoes(c, "unlock") /\ unrecovered' = TRUE
    <3>1. "unlock" \in UnderLock BY DEF UnderLock
    <3>2. InstallIsSound(c)' /\ ~Orderly' BY <1>9, <2>2, <3>1 DEF Orderly
    <3> QED BY <1>1, <1>7, <2>1, <2>2, <3>1, <3>2
  <2>3. CASE cli[c].stage = "restart" /\ MayStop /\ CliGoes(c, AfterFailure(c)) /\ unrecovered' = unrecovered
    <3>1. PICK s \in {"put-back", "unlock"} : CliGoes(c, s) /\ (s = "unlock" => cli[c].action # "install")
      BY <2>3 DEF AfterFailure
    <3>2. s \in UnderLock BY DEF UnderLock
    <3>3. server'.version \in {0, server.version} BY <1>3, <2>3, MayStopSoundly
    <3>4. CommandIsSound(c) => CommandIsSound(c)'
      BY <1>1, <1>8, <2>1, <2>3, <3>1, <3>2, <3>3 DEF CommandIsSound, AsDefined
    <3>5. InstallIsSound(c)' BY <1>9, <3>1, <3>2
    <3> QED BY <1>1, <1>7, <2>1, <2>3, <3>1, <3>2, <3>4, <3>5
  <2>4. ASSUME Started(definition), unrecovered' = unrecovered,
               \/ cli[c].stage = "restart" /\ CliGoes(c, "wait")
               \/ cli[c].stage = "restart-back" /\ CliGoes(c, "unlock")
        PROVE  ServiceInv'
    <3>1. /\ server' \in Servers /\ updater' \in Updaters /\ server'.version = definition
          /\ (server'.told => server'.version < Latest) /\ UpdaterIsBehind'
      BY <1>1, <1>3, <2>4, StartedIsSound DEF UpdaterIsBehind
    <3>2. PICK s \in {"wait", "unlock"} : /\ CliGoes(c, s) /\ (s = "wait" => cli[c].stage = "restart")
                                          /\ (s = "unlock" => cli[c].stage = "restart-back")
      BY <2>4
    <3>3. s \in UnderLock BY DEF UnderLock
    <3>4. CommandIsSound(c) => CommandIsSound(c)'
      BY <1>8, <2>1, <3>1, <3>2, <3>3 DEF CommandIsSound, AsDefined
    <3>5. InstallIsSound(c) => InstallIsSound(c)' BY <1>8, <2>1, <3>2, <3>3 DEF InstallIsSound
    <3>6. Orderly' => Orderly BY <1>2, <2>1, <2>4 DEF Orderly
    <3>7. stale' \in BOOLEAN BY <1>1, <2>1
    <3> QED BY <1>1, <1>6, <2>1, <3>1, <3>2, <3>3, <3>4, <3>5, <3>6, <3>7
  <2> QED BY <1>14, <2>2, <2>3, <2>4 DEF RestartService, RestartPrevious, serviceHistory
<1>15. CASE WaitReady(c)
  <2>1. cli[c].stage = "wait" /\ UNCHANGED <<definition, installation, result, plan, server, updater>>
    BY <1>15 DEF WaitReady, files
  <2>2. CASE CliGoes(c, AfterFailure(c)) /\ UNCHANGED <<unrecovered, stale>>
    <3>1. PICK s \in {"put-back", "unlock"} : CliGoes(c, s) BY <2>2 DEF AfterFailure
    <3>2. s \in UnderLock BY DEF UnderLock
    <3>3. CommandIsSound(c) => CommandIsSound(c)'
      BY <1>8, <2>1, <3>1, <3>2 DEF CommandIsSound, AsDefined
    <3>4. InstallIsSound(c)' /\ MayStop BY <1>9, <2>1, <3>1, <3>2 DEF MayStop
    <3> QED BY <1>1, <1>7, <2>1, <2>2, <3>1, <3>2, <3>3, <3>4
  <2>3. CASE /\ server.version = (IF cli[c].action = "install" THEN cli[c].version ELSE cli[c].installed)
             /\ CliGoes(c, "unlock")
             /\ unrecovered' = (unrecovered /\ cli[c].action # "install") /\ stale' = (stale /\ cli[c].action # "install")
    <3>1. "unlock" \in UnderLock BY DEF UnderLock
    <3>2. InstallIsSound(c)' /\ UpdaterIsBehind' BY <1>1, <1>9, <2>1, <2>3, <3>1 DEF UpdaterIsBehind
    <3>3. unrecovered' \in BOOLEAN /\ stale' \in BOOLEAN BY <1>1, <2>3
    <3>4. ASSUME Orderly', Orderly => CommandIsSound(c), InstallIsSound(c) PROVE CommandIsSound(c)'
      <4>1. CASE cli[c].action = "install"
        <5>1. AsDefined BY <2>1, <2>3, <3>4, <4>1 DEF InstallIsSound, AsDefined
        <5> QED BY <1>8, <2>1, <2>3, <3>1, <5>1 DEF CommandIsSound, AsDefined
      <4>2. CASE cli[c].action # "install"
        <5>1. CommandIsSound(c) BY <1>1, <1>2, <2>3, <3>4, <4>2 DEF Orderly
        <5> QED BY <1>8, <2>1, <2>3, <3>1, <5>1 DEF CommandIsSound, AsDefined
      <4> QED BY <4>1, <4>2
    <3> QED BY <1>1, <1>6, <2>1, <2>3, <3>1, <3>2, <3>3, <3>4
  <2> QED BY <1>15, <2>2, <2>3 DEF WaitReady
<1>16. CASE PutBack(c)
  <2>1. UNCHANGED <<result, plan, unrecovered, stale>> BY <1>16 DEF PutBack, serviceHistory
  <2>2. CASE /\ cli[c].stage = "put-back" /\ definition' = cli[c].definition /\ MayStop /\ CliGoes(c, "put-back-save")
             /\ UNCHANGED installation
    <3>1. "put-back-save" \in UnderLock BY DEF UnderLock
    <3>2. CommandIsSound(c) => CommandIsSound(c)' BY <1>8, <2>2, <3>1 DEF CommandIsSound
    <3>3. InstallIsSound(c)' BY <1>9, <2>2, <3>1
    <3> QED BY <1>1, <1>7, <2>1, <2>2, <3>1, <3>2, <3>3
  <2>3. CASE cli[c].stage = "put-back" /\ definition' = 0 /\ installation' = 0 /\ Stopped /\ CliGoes(c, "unlock")
    <3>1. "unlock" \in UnderLock BY DEF UnderLock
    <3>2. server'.version = 0 /\ MayStop BY <2>3, StoppedIsSound DEF MayStop
    <3>3. CommandIsSound(c) => CommandIsSound(c)'
      BY <1>8, <2>3, <3>1, <3>2 DEF CommandIsSound, AsDefined
    <3>4. InstallIsSound(c)' BY <1>9, <2>3, <3>1
    <3> QED BY <1>1, <1>7, <2>1, <2>3, <3>1, <3>2, <3>3, <3>4
  <2>4. CASE /\ cli[c].stage = "put-back-save" /\ installation' = cli[c].installed /\ CliGoes(c, "restart-back")
             /\ UNCHANGED <<definition, server, updater>>
    <3>1. "restart-back" \in UnderLock BY DEF UnderLock
    <3>2. CommandIsSound(c) => CommandIsSound(c)' BY <1>8, <2>4, <3>1 DEF CommandIsSound
    <3>3. InstallIsSound(c)' /\ MayStop BY <1>9, <2>4, <3>1 DEF MayStop
    <3> QED BY <1>1, <1>7, <2>1, <2>4, <3>1, <3>2, <3>3
  <2> QED BY <1>16, <2>2, <2>3, <2>4 DEF PutBack
<1>17. CASE PutBackFails(c)
  <2>1. UNCHANGED <<installation, result, plan, stale>> /\ unrecovered' = TRUE /\ CliGoes(c, "unlock") /\ "unlock" \in UnderLock
    BY <1>17 DEF PutBackFails, UnderLock
  <2>2. MayStop /\ definition' \in {definition, 0}
    <3>1. CASE cli[c].stage = "put-back-save" BY <1>17, <3>1 DEF PutBackFails, MayStop
    <3>2. CASE cli[c].stage # "put-back-save" /\ cli[c].definition # 0 BY <1>17, <3>2 DEF PutBackFails
    <3>3. CASE cli[c].stage # "put-back-save" /\ cli[c].definition = 0
      <4>1. RemovalFails BY <1>17, <3>3 DEF PutBackFails
      <4> QED BY <4>1 DEF RemovalFails, MayStop
    <3> QED BY <3>1, <3>2, <3>3
  <2>3. InstallIsSound(c)' /\ ~Orderly' BY <1>9, <2>1 DEF Orderly
  <2> QED BY <1>1, <1>7, <2>1, <2>2, <2>3
<1>18. CASE CommandUnlocks(c)
  <2>1. /\ cli[c].stage = "unlock" /\ cli' = [cli EXCEPT ![c] = NoCli] /\ plan' \in {plan, NoUpdate}
        /\ UNCHANGED <<definition, installation, result, server, updater, unrecovered, stale>>
    BY <1>18 DEF CommandUnlocks, Unlock, Free, files, serviceHistory
  <2>2. cli' \in [Clis -> Commands] /\ cli'[c].stage = "none" /\ \A d \in Clis : d # c => cli'[d] = cli[d]
    BY <1>1, <2>1, NoCliIsACommand
  <2>3. ServiceShape' /\ ReplacedIsOlder'
    BY <1>1, <1>2, <1>3, <1>5, <2>1, <2>2 DEF ServiceShape, ReplacedIsOlder, UpdaterIsBehind
  <2>4. CommandIsSound(c) => AsDefined' BY <2>1 DEF CommandIsSound, AsDefined
  <2>5. InstallIsSound(c)' /\ (Orderly' => Orderly) BY <1>2, <2>1, <2>2 DEF InstallIsSound, Orderly
  <2>6. cli'[c].stage \notin UnderLock BY <2>2 DEF UnderLock
  <2> QED BY <1>2, <2>2, <2>3, <2>4, <2>5, <2>6, CommandMovesKeeps
<1> QED BY <1>10, <1>11, <1>12, <1>13, <1>14, <1>15, <1>16, <1>17, <1>18

LEMMA ServiceStutter ==
  ASSUME ServiceInv, UNCHANGED updateVars PROVE ServiceInv'
<1>1. UNCHANGED <<definition, installation, result, plan, server, updater, worker, cli, overlapped, unrecovered, stale>>
  BY DEF updateVars
<1>2. ServiceShape' /\ ReplacedIsOlder'
  BY <1>1 DEF ServiceInv, ServiceShape, ReplacedIsOlder, UpdaterIsBehind
<1> QED BY <1>1, <1>2, NothingMovedKeeps

LEMMA ServiceInvHolds == ServiceSpec => []ServiceInv
<1>1. ServiceInit => ServiceInv
  <2> SUFFICES ASSUME ServiceInit PROVE ServiceInv
    OBVIOUS
  <2>1. 1 \in ServiceVersions /\ 0 \in ServiceVersions /\ 0 < Latest /\ 1 \in Versions /\ NoUpdate \in Updates /\ NoUpdate.current < Latest
    BY UpdateAssumption DEF ServiceVersions, Versions, NoUpdate, Updates
  <2>2. result \in [success : BOOLEAN, version : ServiceVersions] /\ result.success = TRUE
    BY <2>1 DEF ServiceInit
  <2>3. server \in Servers /\ server.version = 1 /\ server.told = FALSE
    BY <2>1 DEF ServiceInit, Servers
  <2>4. updater \in Updaters /\ updater.stage = "none" /\ updater.phase = "idle"
    BY DEF ServiceInit, Updaters, UpdaterPhases, UpdaterStages
  <2>5. worker \in Workers /\ worker.stage \notin Transaction /\ worker.success = FALSE /\ worker.plan = NoUpdate
    BY <2>1 DEF ServiceInit, NoWorker, Workers, WorkerStages, Transaction
  <2>6. cli \in [Clis -> Commands] /\ \A c \in Clis : cli[c].stage \notin UnderLock
    BY NoCliIsACommand DEF ServiceInit
  <2>7. ServiceShape /\ ReplacedIsOlder
    BY <2>1, <2>2, <2>3, <2>4, <2>5, <2>6 DEF ServiceInit, ServiceShape, ReplacedIsOlder, UpdaterIsBehind
  <2>8. Alone /\ OperationsAreSound /\ \A c \in Clis : InstallIsSound(c)
    BY <2>3, <2>5, <2>6 DEF ServiceInit, Alone, OperationsAreSound, AsDefined, InstallIsSound, UnderLock
  <2> QED BY <2>7, <2>8 DEF ServiceInv
<1>2. ServiceInv /\ [ServiceNext]_updateVars => ServiceInv'
  BY CrashKeeps, RemoveLockKeeps, UpdaterKeeps, ReadPlanKeeps, WorkerKeeps, KillWorkerKeeps, CommandWithoutLockKeeps, LockForCommandKeeps,
     CommandKeeps, ServiceStutter DEF ServiceNext
<1> QED BY <1>1, <1>2, PTL DEF ServiceSpec

\* However an update ends, definition, installation, result and server agree on the version, and
\* between operations the service is the one that is defined, unless two operations have
\* overlapped or one was cut short and none has made that good (service-updater.ts,
\* service-update-worker.ts, cli-service.ts).
THEOREM ServiceStaysWhole == ServiceSpec => []ServiceIsWhole
<1>1. ServiceInv => ServiceIsWhole
  <2> SUFFICES ASSUME ServiceInv, Orderly
               PROVE  /\ worker.stage = "unlock" =>
                           /\ definition = installation
                           /\ definition = IF worker.success THEN Latest ELSE worker.plan.current
                           /\ result = [success |-> worker.success, version |-> definition]
                           /\ server.version = definition /\ server.told = ~worker.success
                      /\ Busy(worker, cli) = 0 => definition = installation /\ server.version \in {0, definition}
    BY DEF ServiceIsWhole
  <2>1. OperationsAreSound /\ result \in [success : BOOLEAN, version : ServiceVersions]
    BY DEF ServiceInv, ServiceShape
  <2>2. ASSUME worker.stage = "unlock"
        PROVE  /\ definition = installation
               /\ definition = IF worker.success THEN Latest ELSE worker.plan.current
               /\ result = [success |-> worker.success, version |-> definition]
               /\ server.version = definition /\ server.told = ~worker.success
    <3>1. WorkerIsSound BY <2>1, <2>2 DEF OperationsAreSound, Transaction
    <3>2. result.success = worker.success /\ result.version = definition
      BY <2>2, <3>1 DEF WorkerIsSound
    <3>3. result = [success |-> worker.success, version |-> definition] BY <2>1, <3>2
    <3> QED BY <2>2, <3>1, <3>3 DEF WorkerIsSound
  <2>3. ASSUME Busy(worker, cli) = 0 PROVE definition = installation /\ server.version \in {0, definition}
    BY <2>1, <2>3, NoneIsBusy DEF OperationsAreSound, AsDefined
  <2> QED BY <2>2, <2>3
<1> QED BY <1>1, ServiceInvHolds, PTL

==============================
