------- MODULE AuthStore -------
(****************************************)
(* packages/server/src/auth-store.ts: the owner's sessions, in memory and *)
(* in a file that is replaced as a whole.  Changes queue: each one computes *)
(* the next sessions from those in memory, writes them, and only then makes *)
(* them current.  A write that fails may have replaced the file already. *)
(* *)
(* Renaming, renewing and recording a connection change no more than the *)
(* record of a session: they are one operation here, "touch". *)
(****************************************)
EXTENDS Sequences, FiniteSets, Integers

CONSTANTS
  Browsers,    \* sessions of paired browsers
  Desktops,    \* sessions of the desktop window, one per bootstrap
  Nobody,
  MaxQueue     \* bound: how many changes wait

ASSUME StoreAssumption ==
  /\ Browsers \cap Desktops = {}
  /\ Nobody \notin Browsers \cup Desktops
  /\ MaxQueue \in Nat \ {0}

VARIABLES
  memory,      \* PersistentAuthStore.sessions
  stored,      \* the sessions file
  queue,       \* mutationQueue: the changes not started, oldest first
  writes,      \* the changes being written: the queue lets in one at a time
  asked,       \* history: sessions some change was to remove
  revoked      \* history: sessions a completed change removed

storeVars == <<memory, stored, queue, writes, asked, revoked>>

Sessions == Browsers \cup Desktops

StoreChange == [kind : {"issue", "undo", "revoke", "revokeBrowsers", "revokeAll", "reset", "touch"},
           who : Sessions \cup {Nobody}]

Write == [change : StoreChange, next : SUBSET Sessions, landed : BOOLEAN]

StoreTypeOK ==
  /\ memory \in SUBSET Sessions /\ stored \in SUBSET Sessions
  /\ queue \in Seq(StoreChange)
  /\ writes \in SUBSET Write
  /\ asked \in SUBSET Sessions /\ revoked \in SUBSET Sessions

StoreInit ==
  /\ memory = {} /\ stored = {} /\ queue = <<>> /\ writes = {}
  /\ asked = {} /\ revoked = {}

\* What a change makes of the sessions.  A new desktop session replaces the last one.
After(change) ==
  CASE change.kind = "issue" -> {change.who} \cup
         (IF change.who \in Desktops THEN memory \ Desktops ELSE memory)
    [] change.kind \in {"revoke", "undo"} -> memory \ {change.who}
    [] change.kind = "revokeBrowsers" -> memory \cap Desktops
    [] change.kind \in {"revokeAll", "reset"} -> {}
    [] OTHER -> memory

\* A change that finds nothing to do writes nothing.  revokeAll always writes.
WritesFile(change) ==
  \/ After(change) # memory
  \/ change.kind \in {"revokeAll", "reset"}
  \/ change.kind = "touch" /\ change.who \in memory

\* mutate(): behind the changes asked for before.
Mutate(kind, who) == queue' = Append(queue, [kind |-> kind, who |-> who])
------------------------------
\* The previous change is over.
Turn == queue # <<>> /\ writes = {}

BeginWrite ==
  LET change == Head(queue) IN
  /\ Turn
  /\ WritesFile(change)
  /\ queue' = Tail(queue)
  /\ writes' = writes \cup {[change |-> change, next |-> After(change), landed |-> FALSE]}
  /\ asked' = asked \cup (memory \ After(change))
  /\ UNCHANGED <<memory, stored, revoked>>

NothingToWrite(change) ==
  /\ Turn
  /\ change = Head(queue)
  /\ ~ WritesFile(change)
  /\ queue' = Tail(queue)
  /\ UNCHANGED <<memory, stored, writes, asked, revoked>>

\* rename() of the synced temporary file.
Rename(w) ==
  /\ w \in writes /\ ~ w.landed
  /\ stored' = w.next
  /\ writes' = (writes \ {w}) \cup {[w EXCEPT !.landed = TRUE]}
  /\ UNCHANGED <<memory, queue, asked, revoked>>

\* Bug: the file is not waited for, and its failure not noticed.
CommitUnwritten(w) ==
  /\ w \in writes
  /\ memory' = w.next
  /\ writes' = writes \ {w}
  /\ revoked' = revoked \cup (memory \ w.next)
  /\ queue' = IF w.change.kind = "reset"
              THEN Append(queue, [kind |-> "issue", who |-> w.change.who]) ELSE queue
  /\ UNCHANGED <<stored, asked>>

\* The write is over: the sessions become current, and the caller goes on.
CommitWrite(w) ==
  /\ w \in writes /\ w.landed
  /\ memory' = w.next
  /\ writes' = writes \ {w}
  /\ revoked' = revoked \cup (memory \ w.next)
  /\ queue' = IF w.change.kind = "reset"   \* revokeAllAndIssueDesktopCookie
              THEN Append(queue, [kind |-> "issue", who |-> w.change.who]) ELSE queue
  /\ UNCHANGED <<stored, asked>>

\* Before the rename, or after it when the file's mode cannot be set.
WriteFails(w) ==
  /\ w \in writes
  /\ writes' = writes \ {w}
  /\ UNCHANGED <<memory, stored, queue, asked, revoked>>

\* The process dies and another one loads the file.
StoreRestarts ==
  /\ memory' = stored
  /\ queue' = <<>> /\ writes' = {}
  /\ UNCHANGED <<stored, asked, revoked>>
==============================
