------- MODULE WriteQueue -------
(****************************************)
(* What GitProcess.withWriteLock promises: per lock key, write tasks run *)
(* one at a time and in the order they were asked for. *)
(****************************************)
EXTENDS Sequences

CONSTANTS Writers, LockKeys

VARIABLES
  line,     \* per lock key, the tasks asked for and not finished, oldest first
  inside    \* the tasks running now

Init == /\ line = [k \in LockKeys |-> <<>>]
        /\ inside = {}

Waiting(w) == \E k \in LockKeys : \E i \in DOMAIN line[k] : line[k][i] = w

Ask(w, k) == /\ ~ Waiting(w)
             /\ line' = [line EXCEPT ![k] = Append(@, w)]
             /\ UNCHANGED inside

Start(w, k) == /\ line[k] # <<>> /\ Head(line[k]) = w
               /\ w \notin inside
               /\ inside' = inside \cup {w}
               /\ UNCHANGED line

Finish(w, k) == /\ line[k] # <<>> /\ Head(line[k]) = w
                /\ w \in inside
                /\ line' = [line EXCEPT ![k] = Tail(@)]
                /\ inside' = inside \ {w}

Next == \E w \in Writers, k \in LockKeys : Ask(w, k) \/ Start(w, k) \/ Finish(w, k)

Spec == Init /\ [][Next]_<<line, inside>>
==============================
