------- MODULE RemoteCall -------
(****************************************)
(* What the caller of a mutation may believe.  The command's work starts at *)
(* most once.  "ok" means the work succeeded.  "failed" means it did not *)
(* succeed and never will.  Anything else is "unknown": the work may be *)
(* done, running, or still to start. *)
(****************************************)
CONSTANT Calls

VARIABLES work, told

Work == {"none", "running", "done", "failed"}
Told == {"none", "ok", "failed", "unknown"}

Init == work = [c \in Calls |-> "none"] /\ told = [c \in Calls |-> "none"]

\* A call never believed failed may start once, and a started one ends once.
WorkStep(c) ==
  \/ work'[c] = work[c]
  \/ work[c] = "none" /\ work'[c] = "running" /\ told'[c] # "failed"
  \/ work[c] = "running" /\ work'[c] \in {"done", "failed"}

\* The caller is told once, and a definite answer is true.
ToldStep(c) ==
  \/ told'[c] = told[c]
  \/ /\ told[c] = "none"
     /\ \/ told'[c] = "ok" /\ work[c] = "done"
        \/ told'[c] = "failed" /\ work[c] \in {"none", "failed"}
        \/ told'[c] = "unknown"

Next == /\ work' \in [Calls -> Work]
        /\ told' \in [Calls -> Told]
        /\ \A c \in Calls : WorkStep(c) /\ ToldStep(c)

Spec == Init /\ [][Next]_<<work, told>>
==============================
