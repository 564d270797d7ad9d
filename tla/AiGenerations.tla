------- MODULE AiGenerations -------
(****************************************)
(* The generations of commit messages and of pull-request drafts: generate, *)
(* cancel and close of src/main/ai/CommitMessageService.ts and of *)
(* PullRequestDraftService.ts, the programs they run (CliProcessRunner.ts) *)
(* and the browser tabs that ask (renderer/app/App.tsx and *)
(* renderer/features/pulls/CreatePullRequestDialog.tsx). *)
(* *)
(* The two services are alike and do not know each other: `flavor` says *)
(* which one it is.  What they read of a repository, its content and its *)
(* instructions, is a version number. *)
(****************************************)
EXTENDS Integers, Sequences, FiniteSets

CONSTANTS
  Tabs,             \* browser tabs
  Shelves,          \* what a tab can have open: for a message its repository, for a draft its selection too
  ActiveLimit,      \* generations that may be registered at once
  MaxGenerations,   \* bound: generations
  MaxEdits          \* bound: changes of what is read

ASSUME GenerationsAssumption ==
  Shelves # {} /\ ActiveLimit \in Nat \ {0} /\ {MaxGenerations, MaxEdits} \subseteq Nat

VARIABLES
  flavor,        \* which service
  generations,   \* all there have been; their index is the requestId
  registered,    \* `active` of the service
  aiClosed,      \* close() of the service and of the process runner
  aiTabs,        \* per tab what is shown, generationRequest, and whose result is shown (0 is none)
  readable       \* per repository the versions of what is read

aiVars == <<flavor, generations, registered, aiClosed, aiTabs, readable>>

Ids == DOMAIN generations
Content == {"content", "instructions"}
Reading == [Content -> 0..MaxEdits]
Ended == {"result", "failed", "cancelled", "over"}
Steps == {"status", "first", "second", "answering", "content again", "instructions again"} \cup Ended

Generation == [tab : Tabs, shelf : Shelves, step : Steps,
               aborted : BOOLEAN,      \* its controller
               gone : BOOLEAN,         \* the signal of the command: its client is gone or its time is over
               used : Reading, again : 0..MaxEdits,
               answered : Reading,     \* history: what there was when the model answered
               missed : BOOLEAN]       \* history: a cancellation came while nothing listens

GenerationsTypeOK ==
  /\ flavor \in {"message", "draft"} /\ aiClosed \in BOOLEAN
  /\ generations \in Seq(Generation) /\ Len(generations) <= MaxGenerations
  /\ registered \subseteq Ids
  /\ aiTabs \in [Tabs -> [shelf : Shelves, request : Ids \cup {0}, box : Ids \cup {0}]]
  /\ readable \in [Shelves -> Reading]

Unread == [x \in Content |-> 0]

GenerationsInit ==
  /\ flavor \in {"message", "draft"} /\ generations = <<>> /\ registered = {} /\ aiClosed = FALSE
  /\ aiTabs \in [Tabs -> {[shelf |-> s, request |-> 0, box |-> 0] : s \in Shelves}]
  /\ readable = [s \in Shelves |-> Unread]

Is(n, step) == n \in Ids /\ generations[n].step = step
GoesTo(n, step) == generations' = [generations EXCEPT ![n].step = step]
Aborted(n) == generations[n].aborted \/ generations[n].gone

\* finally: it is not registered any more, whatever happened.
EndsAs(n, step) == GoesTo(n, step) /\ registered' = registered \ {n}
------------------------------
(* generate. *)

\* Registered generations do not admit another one of the repository, or more than three.
Occupied(s) ==
  \/ \E n \in registered : generations[n].shelf = s
  \/ Cardinality(registered) >= ActiveLimit

\* The tab asks for a generation for what it shows. It is admitted by those that are registered
\* now; it is registered itself only when the status of the program is known.
Generate(t) ==
  /\ aiTabs[t].request = 0 /\ Len(generations) < MaxGenerations
  /\ generations' = Append(generations,
       [tab |-> t, shelf |-> aiTabs[t].shelf,
        step |-> IF Occupied(aiTabs[t].shelf) THEN "failed" ELSE "status",
        aborted |-> FALSE, gone |-> FALSE, used |-> Unread, again |-> 0, answered |-> Unread, missed |-> FALSE])
  /\ aiTabs' = [aiTabs EXCEPT ![t].request = Len(generations) + 1]
  /\ UNCHANGED <<flavor, registered, aiClosed, readable>>

StatusKnown(n) ==
  /\ Is(n, "status")
  /\ IF generations[n].gone
     THEN GoesTo(n, "cancelled") /\ UNCHANGED registered
     ELSE GoesTo(n, "first") /\ registered' = registered \cup {n}
  /\ UNCHANGED <<flavor, aiClosed, aiTabs, readable>>

\* The program is not installed or nobody is signed in.
StatusRefuses(n) ==
  /\ Is(n, "status") /\ GoesTo(n, "failed")
  /\ UNCHANGED <<flavor, registered, aiClosed, aiTabs, readable>>

\* The message reads the staged changes before the instructions, the draft after them.
ReadFirst == IF flavor = "message" THEN "content" ELSE "instructions"
ReadSecond == CHOOSE x \in Content : x # ReadFirst

Reads(n) ==
  \/ /\ Is(n, "first")
     /\ generations' = [generations EXCEPT ![n].used[ReadFirst] = readable[generations[n].shelf][ReadFirst],
                                           ![n].step = "second"]
     /\ UNCHANGED <<flavor, registered, aiClosed, aiTabs, readable>>
  \/ /\ Is(n, "content again")
     /\ IF Aborted(n) THEN EndsAs(n, "cancelled")
        ELSE /\ generations' = [generations EXCEPT ![n].again = readable[generations[n].shelf]["content"],
                                                   ![n].step = "instructions again"]
             /\ UNCHANGED registered
     /\ UNCHANGED <<flavor, aiClosed, aiTabs, readable>>

RunnerTakes == ~aiClosed

\* Both are read: the program is started, unless it was cancelled or the server stops.
StartProgram(n) ==
  /\ Is(n, "second")
  /\ CASE Aborted(n) -> EndsAs(n, "cancelled")
       [] ~Aborted(n) /\ ~RunnerTakes -> EndsAs(n, "failed")
       [] OTHER -> /\ generations' = [generations EXCEPT ![n].used[ReadSecond] = readable[generations[n].shelf][ReadSecond],
                                                         ![n].step = "answering"]
                   /\ UNCHANGED registered
  /\ UNCHANGED <<flavor, aiClosed, aiTabs, readable>>

\* The program answers; one that was killed may have answered just before.
ProgramAnswers(n) ==
  /\ Is(n, "answering")
  /\ generations' = [generations EXCEPT ![n].step = "content again", ![n].answered = readable[generations[n].shelf]]
  /\ UNCHANGED <<flavor, registered, aiClosed, aiTabs, readable>>

\* The program is killed because of the cancellation.
ProgramKilled(n) ==
  /\ Is(n, "answering") /\ Aborted(n) /\ EndsAs(n, "cancelled")
  /\ UNCHANGED <<flavor, aiClosed, aiTabs, readable>>

\* A read, the program or what it wrote fails.
GenerationFails(n) ==
  /\ n \in registered /\ EndsAs(n, "failed")
  /\ UNCHANGED <<flavor, aiClosed, aiTabs, readable>>

\* Something else has been read the second time.
Changed(n) ==
  \/ generations[n].again # generations[n].used["content"]
  \/ readable[generations[n].shelf]["instructions"] # generations[n].used["instructions"]

ReadsInstructionsAgain(n) ==
  /\ Is(n, "instructions again") /\ EndsAs(n, IF Changed(n) THEN "failed" ELSE "result")
  /\ UNCHANGED <<flavor, aiClosed, aiTabs, readable>>
------------------------------
(* cancel, the end of a connection, and close. *)

\* Generation n is aborted if it is registered; otherwise nothing happens. (From its last check
\* on, it does not look at the signal either.)
Cancelled(n) ==
  IF n = 0 THEN generations
  ELSE [generations EXCEPT ![n].aborted = @ \/ n \in registered,
                           ![n].missed = @ \/ n \notin registered \/ Is(n, "instructions again")]

CancelGeneration(t) ==
  /\ aiTabs[t].request # 0 /\ generations' = Cancelled(aiTabs[t].request)
  /\ UNCHANGED <<flavor, registered, aiClosed, aiTabs, readable>>

\* Bug: the answer to the old selection is still waited for.
AwaitedKept(t) == aiTabs[t].request

\* The dialog of a draft does not wait any longer for a request of the old selection.
Awaited(t) == IF flavor = "draft" THEN 0 ELSE aiTabs[t].request

\* Another repository, or another selection in the dialog: the generation is cancelled. The plan
\* of commits is cleared; a draft is the user's text and stays, as its dialog's.
ShowOther(t) ==
  \E s \in Shelves \ {aiTabs[t].shelf} :
    /\ generations' = Cancelled(aiTabs[t].request)
    /\ aiTabs' = [aiTabs EXCEPT ![t] = [shelf |-> s, request |-> Awaited(t), box |-> 0]]
    /\ UNCHANGED <<flavor, registered, aiClosed, readable>>

\* The command's signal: its socket is closed or its time is over. The caller is told.
Abandoned(n) ==
  /\ n \in Ids /\ ~generations[n].gone /\ generations[n].step # "over"
  /\ generations' = [generations EXCEPT ![n].gone = TRUE]
  /\ aiTabs' = [t \in Tabs |-> [aiTabs[t] EXCEPT !.request = IF @ = n THEN 0 ELSE @]]
  /\ UNCHANGED <<flavor, registered, aiClosed, readable>>

\* The runtime closes: what is registered is aborted, and no program is started from now on.
CloseGenerations ==
  /\ ~aiClosed /\ aiClosed' = TRUE /\ registered' = {}
  /\ generations' = [n \in Ids |-> [generations[n] EXCEPT !.aborted = @ \/ n \in registered]]
  /\ UNCHANGED <<flavor, aiTabs, readable>>
------------------------------
(* What the tab gets, and the repository. *)

\* What is left of a generation whose caller has been told: where it was asked for.
Over(n) == [generations[n] EXCEPT !.step = "over", !.aborted = FALSE, !.gone = FALSE,
                                  !.used = Unread, !.again = 0, !.answered = Unread]

\* The answer arrives: a result is shown if it is the one that is waited for. (The message's
\* callback also compares the repository of the request with the one that was shown when it
\* began; they are the same.)
Delivered(n) ==
  LET t == generations[n].tab
      mine == aiTabs[t].request = n IN
  /\ n \in Ids /\ generations[n].step \in Ended \ {"over"}
  /\ generations' = [generations EXCEPT ![n] = Over(n)]
  /\ aiTabs' = [aiTabs EXCEPT ![t].box = IF mine /\ Is(n, "result") THEN n ELSE @,
                              ![t].request = IF mine THEN 0 ELSE @]
  /\ UNCHANGED <<flavor, registered, aiClosed, readable>>

SomethingChanges ==
  \E s \in Shelves, x \in Content :
    /\ readable[s]["content"] + readable[s]["instructions"] < MaxEdits
    /\ readable' = [readable EXCEPT ![s][x] = @ + 1]
    /\ UNCHANGED <<flavor, generations, registered, aiClosed, aiTabs>>

GenerationsNext ==
  \/ SomethingChanges \/ CloseGenerations
  \/ \E t \in Tabs : Generate(t) \/ CancelGeneration(t) \/ ShowOther(t)
  \/ \E n \in Ids :
       \/ StatusKnown(n) \/ StatusRefuses(n) \/ Reads(n) \/ StartProgram(n) \/ ProgramAnswers(n)
       \/ ProgramKilled(n) \/ GenerationFails(n) \/ ReadsInstructionsAgain(n) \/ Abandoned(n) \/ Delivered(n)

GenerationsSpec == GenerationsInit /\ [][GenerationsNext]_aiVars
------------------------------
(* Properties. *)

\* A result is of the content and of the instructions as both were when the model answered,
\* although they are read one after the other and change in between.
ResultsAreCurrent ==
  \A n \in Ids : Is(n, "result") => generations[n].used = generations[n].answered

\* A generation that was cancelled ends without a result, unless it was cancelled while nothing
\* listens: before it was registered, or after its last check.
CancelledIsCancelled ==
  \A n \in Ids : generations[n].aborted /\ ~generations[n].missed /\ ~aiClosed => ~Is(n, "result")

\* What a tab shows was generated for what it shows; the draft in any case, the message unless
\* its cancellation was missed.
ShownIsAskedFor ==
  \A t \in Tabs : LET n == aiTabs[t].box IN
    n # 0 /\ (flavor = "draft" \/ ~generations[n].missed) => generations[n].shelf = aiTabs[t].shelf

\* After close, no program is running that nobody has aborted: one that was registered just
\* then is not started.
NoProgramAfterClose ==
  aiClosed => \A n \in Ids : Is(n, "answering") => Aborted(n)

\* A repository is free again when its generation has ended, however it did.
FreeAfterwards == \A n \in registered : generations[n].step \notin Ended

\* What holds of every generation.
GenerationsHold ==
  ResultsAreCurrent /\ CancelledIsCancelled /\ ShownIsAskedFor /\ NoProgramAfterClose /\ FreeAfterwards

\* CommitMessageService.ts:74: "A generation is already in progress for this repository." Two
\* that ask while the program's status is looked up are both admitted.
OnePerRepository ==
  \A m, n \in registered : generations[m].shelf = generations[n].shelf => m = n
==============================
