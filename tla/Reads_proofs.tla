------- MODULE Reads_proofs -------
(****************************************)
(* Proofs about what MCReads composes, for any constants.  GitProcess: type *)
(* correctness, the exclusion of write tasks with the chain of promises *)
(* shown to be a queue, and the freshness of shared reads.  CliStartup: a *)
(* command that succeeded has the server it asked for.  Refreshes: a browser *)
(* tab misses nothing that has changed and shows what belongs together. *)
(****************************************)
EXTENDS MCReads, TLAPS

------------------------------
(* The write lock. *)

\* The chain of a key spells out its line: each task awaits the one before it, the
\* map holds the last, and only the first can be inside.
LineOK(k) ==
  /\ \A i \in 1..Len(line[k]) :
       /\ pc[line[k][i]] # "idle"
       /\ lockKey[line[k][i]] = k
       /\ i = 1 => previous[line[k][i]] = NoWriter
       /\ i > 1 => previous[line[k][i]] = line[k][i - 1]
  /\ \A i, j \in 1..Len(line[k]) : line[k][i] = line[k][j] => i = j
  /\ Len(line[k]) = 0 => tail[k] = NoWriter
  /\ Len(line[k]) > 0 => tail[k] = line[k][Len(line[k])]

TaskOK(w) ==
  /\ pc[w] # "idle" => \E i \in 1..Len(line[lockKey[w]]) : line[lockKey[w]][i] = w
  /\ pc[w] \in {"inside", "running"} => previous[w] = NoWriter

LockInv ==
  /\ LockTypeOK
  /\ \A k \in LockKeys : LineOK(k)
  /\ \A w \in Writers : TaskOK(w)

LEMMA AnyLockKeyType == AnyLockKey \in LockKeys
BY WriteAssumption DEF AnyLockKey

\* A task inside its lock is the first of its line.
LEMMA InsideIsHead ==
  ASSUME LockInv, NEW w \in Writers, pc[w] \in {"inside", "running"}
  PROVE  Len(line[lockKey[w]]) > 0 /\ line[lockKey[w]][1] = w
<1> DEFINE k == lockKey[w]
<1>1. k \in LockKeys /\ line[k] \in Seq(Writers) BY DEF LockInv, LockTypeOK
<1>2. PICK i \in 1..Len(line[k]) : line[k][i] = w BY DEF LockInv, TaskOK
<1>3. previous[w] = NoWriter BY DEF LockInv, TaskOK
<1>4. i > 1 => previous[w] = line[k][i - 1] /\ line[k][i - 1] \in Writers
  <2> SUFFICES ASSUME i > 1
               PROVE  previous[w] = line[k][i - 1] /\ line[k][i - 1] \in Writers
    OBVIOUS
  <2>1. previous[w] = line[k][i - 1] BY <1>1, <1>2 DEF LockInv, LineOK
  <2>2. i - 1 \in 1..Len(line[k]) BY <1>1, <1>2
  <2>3. line[k][i - 1] \in Writers BY <1>1, <2>2
  <2> QED BY <2>1, <2>3
<1>5. i = 1 BY <1>1, <1>2, <1>3, <1>4, WriteAssumption
<1> QED BY <1>1, <1>2, <1>5

LEMMA EnqueueStep ==
  ASSUME LockInv, NEW w \in Writers, NEW k \in LockKeys, Enqueue(w, k)
  PROVE  LockInv'
<1> DEFINE n == Len(line[k])
<1>1. line \in [LockKeys -> Seq(Writers)] /\ n \in Nat BY DEF LockInv, LockTypeOK
<1>2. /\ line' = [line EXCEPT ![k] = Append(@, w)]
      /\ pc' = [pc EXCEPT ![w] = "queued"] /\ pc[w] = "idle"
      /\ lockKey' = [lockKey EXCEPT ![w] = k]
      /\ previous' = [previous EXCEPT ![w] = tail[k]]
      /\ tail' = [tail EXCEPT ![k] = w]
  BY DEF Enqueue
<1>3. /\ line'[k] \in Seq(Writers)
      /\ Len(line'[k]) = n + 1
      /\ \A i \in 1..n : line'[k][i] = line[k][i]
      /\ line'[k][n + 1] = w
      /\ \A j \in LockKeys \ {k} : line'[j] = line[j]
  BY <1>1, <1>2
<1>4. LockTypeOK'
  <2>1. line' \in [LockKeys -> Seq(Writers)] BY <1>1, <1>2, <1>3
  <2> QED BY <2>1, <1>2 DEF LockInv, LockTypeOK
<1>5. \A j \in LockKeys : \A i \in 1..Len(line[j]) : line[j][i] \in Writers \ {w}
  BY <1>1, <1>2 DEF LockInv, LineOK
<1>6. ASSUME NEW j \in LockKeys
      PROVE  LineOK(j)'
  <2>1. CASE j # k BY <2>1, <1>2, <1>3, <1>5 DEF LockInv, LockTypeOK, LineOK
  <2>2. CASE j = k
    <3>1. ASSUME NEW i \in 1..(n + 1)
          PROVE  /\ pc'[line'[k][i]] # "idle"
                 /\ lockKey'[line'[k][i]] = k
                 /\ i = 1 => previous'[line'[k][i]] = NoWriter
                 /\ i > 1 => previous'[line'[k][i]] = line'[k][i - 1]
      <4>1. CASE i = n + 1 BY <4>1, <1>1, <1>2, <1>3 DEF LockInv, LockTypeOK, LineOK
      <4>2. CASE i \in 1..n BY <4>2, <1>1, <1>2, <1>3, <1>5 DEF LockInv, LockTypeOK, LineOK
      <4> QED BY <4>1, <4>2, <1>1
    <3>2. \A i, m \in 1..(n + 1) : line'[k][i] = line'[k][m] => i = m
      <4> DEFINE old == line[k]
                 new == line'[k]
      <4>1. /\ \A i \in 1..n : new[i] = old[i] /\ old[i] # w
            /\ new[n + 1] = w /\ n \in Nat
        BY <1>1, <1>3, <1>5
      <4>2. \A i, m \in 1..n : old[i] = old[m] => i = m BY DEF LockInv, LineOK
      <4> HIDE DEF n, old, new
      <4>3. SUFFICES ASSUME NEW i \in 1..(n + 1), NEW m \in 1..(n + 1), new[i] = new[m]
                     PROVE  i = m
        BY DEF new
      <4>4. (i \in 1..n \/ i = n + 1) /\ (m \in 1..n \/ m = n + 1) BY <4>1
      <4> QED BY <4>1, <4>2, <4>3, <4>4
    <3>3. tail'[k] = line'[k][n + 1] BY <1>2, <1>3 DEF LockInv, LockTypeOK
    <3> QED BY <2>2, <3>1, <3>2, <3>3, <1>1, <1>3 DEF LineOK
  <2> QED BY <2>1, <2>2
<1>7. ASSUME NEW v \in Writers
      PROVE  TaskOK(v)'
  <2>1. CASE v = w BY <2>1, <1>1, <1>2, <1>3 DEF LockInv, LockTypeOK, TaskOK
  <2>2. CASE v # w
    <3>1. pc'[v] = pc[v] /\ lockKey'[v] = lockKey[v] /\ previous'[v] = previous[v]
          /\ lockKey[v] \in LockKeys
      BY <2>2, <1>2 DEF LockInv, LockTypeOK
    <3>2. ASSUME pc[v] # "idle"
          PROVE  \E i \in 1..Len(line'[lockKey[v]]) : line'[lockKey[v]][i] = v
      <4>1. PICK i \in 1..Len(line[lockKey[v]]) : line[lockKey[v]][i] = v
        BY <3>2 DEF LockInv, TaskOK
      <4> QED BY <4>1, <3>1, <1>1, <1>3
    <3> QED BY <3>1, <3>2 DEF LockInv, TaskOK
  <2> QED BY <2>1, <2>2
<1> QED BY <1>4, <1>6, <1>7 DEF LockInv

LEMMA EnterStep ==
  ASSUME LockInv, NEW w \in Writers, Enter(w)
  PROVE  LockInv'
<1>1. /\ pc' = [pc EXCEPT ![w] = "inside"] /\ pc[w] = "queued"
      /\ previous[w] = NoWriter
      /\ UNCHANGED <<tail, lockKey, previous, line>>
  BY DEF Enter
<1>2. \A v \in Writers : (pc'[v] # "idle") = (pc[v] # "idle") BY <1>1 DEF LockInv, LockTypeOK
<1>3. LockTypeOK' BY <1>1 DEF LockInv, LockTypeOK
<1>4. ASSUME NEW k \in LockKeys
      PROVE  LineOK(k)'
  <2>1. \A i \in 1..Len(line[k]) : line[k][i] \in Writers BY DEF LockInv, LockTypeOK
  <2> QED BY <1>1, <1>2, <2>1 DEF LockInv, LineOK
<1>5. \A v \in Writers : TaskOK(v)' BY <1>1, <1>2 DEF LockInv, LockTypeOK, TaskOK
<1> QED BY <1>3, <1>4, <1>5 DEF LockInv

\* A command starting or ending moves a task that is inside and nothing else.
LEMMA CommandStep ==
  ASSUME LockInv, NEW w \in Writers, pc[w] \in {"inside", "running"},
         NEW s \in {"inside", "running"}, pc' = [pc EXCEPT ![w] = s],
         UNCHANGED <<tail, lockKey, previous, line>>
  PROVE  LockInv'
<1>1. \A v \in Writers : (pc'[v] # "idle") = (pc[v] # "idle") BY DEF LockInv, LockTypeOK
<1>2. LockTypeOK' BY DEF LockInv, LockTypeOK
<1>3. ASSUME NEW k \in LockKeys
      PROVE  LineOK(k)'
  <2>1. \A i \in 1..Len(line[k]) : line[k][i] \in Writers BY DEF LockInv, LockTypeOK
  <2> QED BY <1>1, <2>1 DEF LockInv, LineOK
<1>4. \A v \in Writers : TaskOK(v)' BY <1>1 DEF LockInv, LockTypeOK, TaskOK
<1> QED BY <1>2, <1>3, <1>4 DEF LockInv

LEMMA ReleaseStep ==
  ASSUME LockInv, NEW w \in Writers, Release(w)
  PROVE  LockInv'
<1> DEFINE k == lockKey[w]
           n == Len(line[k])
<1>1. line \in [LockKeys -> Seq(Writers)] /\ k \in LockKeys /\ n \in Nat BY DEF LockInv, LockTypeOK
<1>2. /\ pc[w] = "inside" /\ pc' = [pc EXCEPT ![w] = "idle"]
      /\ previous' = [v \in Writers |-> IF previous[v] = w THEN NoWriter ELSE previous[v]]
      /\ tail' = [tail EXCEPT ![k] = IF @ = w THEN NoWriter ELSE @]
      /\ lockKey' = [lockKey EXCEPT ![w] = AnyLockKey]
      /\ line' = [line EXCEPT ![k] = Tail(@)]
  BY DEF Release
<1>3. n > 0 /\ line[k][1] = w BY <1>2, InsideIsHead
<1>4. /\ line'[k] \in Seq(Writers)
      /\ Len(line'[k]) = n - 1
      /\ \A i \in 1..(n - 1) : line'[k][i] = line[k][i + 1]
      /\ \A j \in LockKeys \ {k} : line'[j] = line[j]
  BY <1>1, <1>2, <1>3
<1>5. LockTypeOK'
  <2>1. line' \in [LockKeys -> Seq(Writers)] BY <1>1, <1>2, <1>4
  <2> QED BY <2>1, <1>2, AnyLockKeyType DEF LockInv, LockTypeOK
\* No one else's line holds w, and in its own line only the first place does.
<1>6. /\ \A j \in LockKeys \ {k} : \A i \in 1..Len(line[j]) : line[j][i] \in Writers \ {w}
      /\ \A i \in 2..n : line[k][i] \in Writers \ {w}
  BY <1>1, <1>3 DEF LockInv, LineOK
<1>7. ASSUME NEW v \in Writers \ {w}
      PROVE  /\ pc'[v] = pc[v] /\ lockKey'[v] = lockKey[v]
             /\ previous'[v] = IF previous[v] = w THEN NoWriter ELSE previous[v]
  BY <1>2 DEF LockInv, LockTypeOK
<1>8. ASSUME NEW j \in LockKeys
      PROVE  LineOK(j)'
  <2>1. CASE j # k
    <3>1. \A i \in 1..Len(line[j]) :
            /\ pc'[line[j][i]] # "idle"
            /\ lockKey'[line[j][i]] = j
            /\ i = 1 => previous'[line[j][i]] = NoWriter
            /\ i > 1 => previous'[line[j][i]] = line[j][i - 1]
      <4> SUFFICES ASSUME NEW i \in 1..Len(line[j])
                   PROVE  /\ pc'[line[j][i]] # "idle"
                          /\ lockKey'[line[j][i]] = j
                          /\ i = 1 => previous'[line[j][i]] = NoWriter
                          /\ i > 1 => previous'[line[j][i]] = line[j][i - 1]
        OBVIOUS
      <4>1. line[j][i] \in Writers \ {w} /\ (i > 1 => line[j][i - 1] \in Writers \ {w})
        <5>1. line[j][i] \in Writers /\ (i > 1 => i - 1 \in 1..Len(line[j])) BY <1>1
        <5>2. i > 1 => line[j][i - 1] \in Writers BY <1>1, <5>1
        <5> QED BY <1>6, <2>1, <5>1, <5>2
      <4>2. previous[line[j][i]] # w BY <1>1, <4>1, WriteAssumption DEF LockInv, LineOK
      <4> QED BY <4>1, <4>2, <1>7 DEF LockInv, LineOK
    <3>2. tail'[j] = tail[j] /\ line'[j] = line[j] BY <2>1, <1>2, <1>4 DEF LockInv, LockTypeOK
    <3> QED BY <3>1, <3>2 DEF LockInv, LineOK
  <2>2. CASE j = k
    <3>1. ASSUME NEW i \in 1..(n - 1)
          PROVE  /\ pc'[line'[k][i]] # "idle"
                 /\ lockKey'[line'[k][i]] = k
                 /\ i = 1 => previous'[line'[k][i]] = NoWriter
                 /\ i > 1 => previous'[line'[k][i]] = line'[k][i - 1]
      <4>1. i + 1 \in 2..n /\ line'[k][i] = line[k][i + 1] /\ line[k][i + 1] \in Writers \ {w}
        BY <1>1, <1>4, <1>6
      <4>2. /\ pc[line[k][i + 1]] # "idle"
            /\ lockKey[line[k][i + 1]] = k
            /\ previous[line[k][i + 1]] = line[k][i]
        BY <4>1, <1>1 DEF LockInv, LineOK
      <4>3. i > 1 => line'[k][i - 1] = line[k][i] /\ line[k][i] # w BY <1>1, <1>4, <1>6
      <4> QED BY <4>1, <4>2, <4>3, <1>3, <1>7
    <3>2. \A i, m \in 1..(n - 1) : line'[k][i] = line'[k][m] => i = m
      <4> SUFFICES ASSUME NEW i \in 1..(n - 1), NEW m \in 1..(n - 1),
                          line'[k][i] = line'[k][m]
                   PROVE  i = m
        OBVIOUS
      <4>1. i + 1 \in 1..n /\ m + 1 \in 1..n BY <1>1
      <4>2. line'[k][i] = line[k][i + 1] /\ line'[k][m] = line[k][m + 1] BY <1>4
      <4>3. \A a, b \in 1..n : line[k][a] = line[k][b] => a = b BY <1>1 DEF LockInv, LineOK
      <4>4. line[k][i + 1] = line[k][m + 1] BY <4>2
      <4>5. i + 1 = m + 1 BY <4>1, <4>3, <4>4
      <4> QED BY <4>5, <1>1
    <3>3. n - 1 = 0 => tail'[k] = NoWriter
      <4> SUFFICES ASSUME n - 1 = 0
                   PROVE  tail'[k] = NoWriter
        OBVIOUS
      <4>1. n = 1 BY <1>1
      <4>2. tail[k] = line[k][n] BY <1>1, <1>3 DEF LockInv, LineOK
      <4> QED BY <4>1, <4>2, <1>1, <1>2, <1>3 DEF LockInv, LockTypeOK
    <3>4. n - 1 > 0 => tail'[k] = line'[k][n - 1]
      <4> SUFFICES ASSUME n - 1 > 0
                   PROVE  tail'[k] = line'[k][n - 1]
        OBVIOUS
      <4>1. n - 1 \in 1..(n - 1) /\ n \in 2..n BY <1>1
      <4>2. tail[k] = line[k][n] /\ line[k][n] # w BY <1>1, <1>3, <1>6, <4>1 DEF LockInv, LineOK
      <4>3. line'[k][n - 1] = line[k][n]
        <5> DEFINE m == n - 1
        <5>1. m \in 1..(n - 1) /\ m + 1 = n BY <1>1, <4>1
        <5> HIDE DEF m, n, k
        <5>2. line'[k][m] = line[k][m + 1] BY <1>4, <5>1
        <5> QED BY <5>1, <5>2 DEF m
      <4> QED BY <4>2, <4>3, <1>2 DEF LockInv, LockTypeOK
    <3> QED BY <2>2, <3>1, <3>2, <3>3, <3>4, <1>1, <1>4 DEF LineOK
  <2> QED BY <2>1, <2>2
<1>9. ASSUME NEW v \in Writers
      PROVE  TaskOK(v)'
  <2>1. CASE v = w BY <2>1, <1>2 DEF LockInv, LockTypeOK, TaskOK
  <2>2. CASE v # w
    <3>1. ASSUME pc[v] # "idle"
          PROVE  \E i \in 1..Len(line'[lockKey[v]]) : line'[lockKey[v]][i] = v
      <4>1. PICK i \in 1..Len(line[lockKey[v]]) : line[lockKey[v]][i] = v
        BY <3>1 DEF LockInv, TaskOK
      <4>2. CASE lockKey[v] = k
        <5>1. i \in 2..n /\ i - 1 \in 1..(n - 1) BY <4>1, <4>2, <1>1, <1>3, <2>2
        <5>2. line'[k][i - 1] = v BY <5>1, <4>1, <4>2, <1>1, <1>4
        <5> QED BY <5>1, <5>2, <4>2, <1>1, <1>4
      <4>3. CASE lockKey[v] # k BY <4>1, <4>3, <1>4 DEF LockInv, LockTypeOK
      <4> QED BY <4>2, <4>3
    <3> QED BY <2>2, <3>1, <1>7, WriteAssumption DEF LockInv, TaskOK
  <2> QED BY <2>1, <2>2
<1> QED BY <1>5, <1>8, <1>9 DEF LockInv
------------------------------
(* Shared reads. *)

RepoOf(s) == IF s \in Dirs THEN CommonDir[s] ELSE s

\* x is a flight: it reads the repository of its scope, and while it can be joined it
\* has not seen less than the last write that ended in its scope.
FlightGood(x) ==
  /\ x.stage # "free" => x.scope \in {x.key, CommonDir[x.key]}
  /\ x.stage = "free" => x.gen = "dropped"
  /\ x.gen = "current" /\ x.seen # None => x.seen >= committed[x.scope]

\* q is a call of run among the flights fl: what it awaits has not seen less than the
\* last write that had ended in its scope when its attempt began, q.floor.
ReaderGood(fl, q) ==
  /\ q.pc = "waiting" =>
       /\ q.flight \in Flights
       /\ fl[q.flight].stage # "free"
       /\ fl[q.flight].scope = q.scope
       /\ q.scope \in {q.key, CommonDir[q.key]}
       /\ q.floor <= committed[q.scope]
       /\ fl[q.flight].seen # None => fl[q.flight].seen >= q.floor
  /\ q.pc = "returned" /\ q.result # None => q.result >= q.floor

ReadInv ==
  /\ ReadTypeOK
  /\ registered \in SUBSET Dirs
  /\ version \in [CommonDirs -> Nat]
  /\ committed \in [Scopes -> Nat]
  /\ \A s \in Scopes : committed[s] <= version[RepoOf(s)]
  /\ \A f \in Flights : FlightGood(flight[f])
  /\ \A r \in Readers : ReaderGood(flight, reader[r])

LEMMA ScopeType == ASSUME NEW d \in Dirs
                   PROVE  /\ Scope(d) \in Scopes /\ Scope(d) \in {d, CommonDir[d]}
                          /\ d \in Scopes /\ CommonDir[d] \in CommonDirs /\ CommonDir[d] \in Scopes
                          /\ d \in Keys
                          /\ RepoOf(d) = CommonDir[d] /\ RepoOf(CommonDir[d]) = CommonDir[d]
BY GitAssumption DEF Scope, RepoOf, GitAssumption

\* Taking flights of a scope out of the map, whatever the flag, keeps every promise.
LEMMA LeaveMapGood ==
  ASSUME NEW fl \in [Flights -> Flight], NEW s, NEW flag \in {"dropped", "invalidated"}
  PROVE  /\ LeaveMap(fl, s, flag) \in [Flights -> Flight]
         /\ \A f \in Flights :
              /\ LeaveMap(fl, s, flag)[f].stage = fl[f].stage
              /\ LeaveMap(fl, s, flag)[f].scope = fl[f].scope
              /\ LeaveMap(fl, s, flag)[f].key = fl[f].key
              /\ LeaveMap(fl, s, flag)[f].seen = fl[f].seen
              /\ LeaveMap(fl, s, flag)[f].gen =
                   IF fl[f].gen = "current" /\ fl[f].scope = s THEN flag ELSE fl[f].gen
BY DEF LeaveMap, InGeneration, Flight

\* An invalidation keeps the invariant, and afterwards nothing of the scope is current.
LEMMA InvalidateStep ==
  ASSUME ReadInv, NEW s, InvalidateScope(s), registered' \in SUBSET Dirs,
         UNCHANGED <<version, committed>>
  PROVE  ReadInv'
<1>1. flight' = LeaveMap(flight, s, "invalidated") /\ reader' = reader
  BY DEF InvalidateScope, Invalidated
<1>2. flight \in [Flights -> Flight] /\ reader \in [Readers -> Reader] BY DEF ReadInv, ReadTypeOK
<1>3. /\ flight' \in [Flights -> Flight]
      /\ \A f \in Flights :
           /\ flight'[f].stage = flight[f].stage /\ flight'[f].scope = flight[f].scope
           /\ flight'[f].key = flight[f].key /\ flight'[f].seen = flight[f].seen
           /\ flight'[f].gen = IF flight[f].gen = "current" /\ flight[f].scope = s
                               THEN "invalidated" ELSE flight[f].gen
  BY <1>1, <1>2, LeaveMapGood
<1>4. \A f \in Flights : FlightGood(flight'[f]) BY <1>3 DEF ReadInv, FlightGood
<1>5. \A r \in Readers : ReaderGood(flight', reader[r]) BY <1>3 DEF ReadInv, ReaderGood
<1>6. \A f \in Flights : FlightGood(flight[f])' BY <1>4 DEF FlightGood
<1>7. \A r \in Readers : ReaderGood(flight, reader[r])' BY <1>1, <1>5 DEF ReaderGood
<1>8. \A x \in Scopes : (committed[x] <= version[RepoOf(x)])' BY DEF ReadInv, RepoOf
<1> QED BY <1>1, <1>2, <1>3, <1>6, <1>7, <1>8 DEF ReadInv, ReadTypeOK

\* Joining or starting a flight gives the caller one that has seen at least its floor.
LEMMA AttachStep ==
  ASSUME NEW r \in Readers, NEW fl \in [Flights -> Flight], NEW call \in Reader,
         ReadInv,
         \A f \in Flights : FlightGood(fl[f]),
         \A q \in Readers \ {r} : ReaderGood(fl, reader[q]),
         call.pc = "waiting", call.scope \in {call.key, CommonDir[call.key]},
         call.floor <= committed[call.scope],
         Attach(r, fl, call), UNCHANGED <<registered, version, committed>>
  PROVE  ReadInv'
<1>1. reader \in [Readers -> Reader] /\ committed \in [Scopes -> Nat] BY DEF ReadInv, ReadTypeOK
<1>2. call.scope \in Scopes /\ call.key \in Keys /\ call.floor \in Nat BY DEF Reader
<1>3. SUFFICES /\ flight' \in [Flights -> Flight]
               /\ reader' \in [Readers -> Reader]
               /\ \A f \in Flights : FlightGood(flight'[f])
               /\ \A q \in Readers : ReaderGood(flight', reader'[q])
  <2>1. \A x \in Scopes : (committed[x] <= version[RepoOf(x)])' BY DEF ReadInv, RepoOf
  <2>2. \A f \in Flights : FlightGood(flight'[f]) => FlightGood(flight[f])' BY DEF FlightGood
  <2>3. \A q \in Readers : ReaderGood(flight', reader'[q]) => ReaderGood(flight, reader[q])'
    BY DEF ReaderGood
  <2> QED BY <2>1, <2>2, <2>3, <1>3 DEF ReadInv, ReadTypeOK
<1>4. CASE \E f \in Flights :
             /\ f \in Unreleased(fl, call.scope) /\ fl[f].key = call.key
             /\ flight' = fl
             /\ reader' = [reader EXCEPT ![r] = [call EXCEPT !.flight = f]]
  <2>1. PICK f \in Flights :
             /\ f \in Unreleased(fl, call.scope) /\ fl[f].key = call.key
             /\ flight' = fl
             /\ reader' = [reader EXCEPT ![r] = [call EXCEPT !.flight = f]]
    BY <1>4
  <2> DEFINE mine == [call EXCEPT !.flight = f]
  <2>2. fl[f].stage = "pending" /\ fl[f].gen = "current" /\ fl[f].scope = call.scope
    BY <2>1 DEF Unreleased, InGeneration
  <2>3. /\ mine \in Reader /\ mine.flight = f /\ mine.pc = "waiting"
        /\ mine.scope = call.scope /\ mine.key = call.key /\ mine.floor = call.floor
    BY DEF Reader
  <2>4. fl[f].seen # None => fl[f].seen >= call.floor
    <3>1. fl[f].seen \in Nat \cup {None} /\ committed[call.scope] \in Nat BY <1>1, <1>2 DEF Flight
    <3>2. fl[f].seen # None => fl[f].seen >= committed[call.scope] BY <2>2 DEF FlightGood
    <3> QED BY <3>1, <3>2, <1>2
  <2>5. ReaderGood(fl, mine) BY <2>2, <2>3, <2>4 DEF ReaderGood
  <2>6. reader' \in [Readers -> Reader] /\ reader'[r] = mine
        /\ \A q \in Readers \ {r} : reader'[q] = reader[q]
    BY <1>1, <2>1, <2>3
  <2> QED BY <2>1, <2>5, <2>6
<1>5. CASE \E f \in Flights :
             /\ fl[f].stage = "free"
             /\ flight' = [fl EXCEPT ![f] =
                  [stage |-> "pending", gen |-> "current", scope |-> call.scope,
                   key |-> call.key, seen |-> None]]
             /\ reader' = [reader EXCEPT ![r] = [call EXCEPT !.flight = f]]
  <2>1. PICK f \in Flights :
             /\ fl[f].stage = "free"
             /\ flight' = [fl EXCEPT ![f] =
                  [stage |-> "pending", gen |-> "current", scope |-> call.scope,
                   key |-> call.key, seen |-> None]]
             /\ reader' = [reader EXCEPT ![r] = [call EXCEPT !.flight = f]]
    BY <1>5
  <2> DEFINE mine == [call EXCEPT !.flight = f]
             new == [stage |-> "pending", gen |-> "current", scope |-> call.scope,
                     key |-> call.key, seen |-> None]
  <2>2. new \in Flight /\ FlightGood(new) BY <1>2 DEF Flight, FlightGood
  <2>3. /\ flight' \in [Flights -> Flight] /\ flight'[f] = new
        /\ \A g \in Flights \ {f} : flight'[g] = fl[g]
    BY <2>1, <2>2
  <2>4. /\ mine \in Reader /\ mine.flight = f /\ mine.pc = "waiting"
        /\ mine.scope = call.scope /\ mine.key = call.key /\ mine.floor = call.floor
    BY DEF Reader
  <2>5. ReaderGood(flight', mine) BY <2>3, <2>4 DEF ReaderGood
  <2>6. reader' \in [Readers -> Reader] /\ reader'[r] = mine
        /\ \A q \in Readers \ {r} : reader'[q] = reader[q]
    BY <1>1, <2>1, <2>4
  <2>7. \A q \in Readers \ {r} : ReaderGood(flight', reader[q])
    <3>1. ASSUME NEW q \in Readers \ {r}
          PROVE  ReaderGood(flight', reader[q])
      <4>1. ReaderGood(fl, reader[q]) OBVIOUS
      <4>2. reader[q].pc = "waiting" => flight'[reader[q].flight] = fl[reader[q].flight]
        BY <4>1, <2>1, <2>3 DEF ReaderGood
      <4> QED BY <4>1, <4>2 DEF ReaderGood
    <3> QED BY <3>1
  <2> QED BY <2>2, <2>3, <2>5, <2>6, <2>7
<1> QED BY <1>4, <1>5 DEF Attach, Unreleased, InGeneration

\* What makes a new state good, once the flights and readers are.
LEMMA ReadInvFrom ==
  ASSUME ReadInv, UNCHANGED <<registered, version, committed>>,
         flight' \in [Flights -> Flight], reader' \in [Readers -> Reader],
         \A f \in Flights : FlightGood(flight'[f]),
         \A q \in Readers : ReaderGood(flight', reader'[q])
  PROVE  ReadInv'
<1>1. \A x \in Scopes : (committed[x] <= version[RepoOf(x)])' BY DEF ReadInv, RepoOf
<1>2. \A f \in Flights : FlightGood(flight[f])' BY DEF FlightGood
<1>3. \A q \in Readers : ReaderGood(flight, reader[q])' BY DEF ReaderGood
<1> QED BY <1>1, <1>2, <1>3 DEF ReadInv, ReadTypeOK

LEMMA LookStep ==
  ASSUME ReadInv, NEW f \in Flights, ReadLooks(f)
  PROVE  ReadInv'
<1> DEFINE x == flight[f]
           v == version[CommonDir[x.key]]
<1>1. /\ x.stage = "pending" /\ x.seen = None
      /\ flight' = [flight EXCEPT ![f].seen = v] /\ reader' = reader
      /\ UNCHANGED <<registered, version, committed>>
  BY DEF ReadLooks, Look, gitVars
<1>2. flight \in [Flights -> Flight] /\ reader \in [Readers -> Reader] BY DEF ReadInv, ReadTypeOK
<1>3. x.key \in Dirs /\ x.scope \in Scopes BY <1>2, GitAssumption DEF Flight, GitAssumption
<1>4. v \in Nat BY <1>3, ScopeType DEF ReadInv
<1>5. committed[x.scope] <= v /\ committed[x.scope] \in Nat
  <2>1. RepoOf(x.scope) = CommonDir[x.key] BY <1>1, <1>3, ScopeType DEF ReadInv, FlightGood
  <2> QED BY <2>1, <1>3 DEF ReadInv
<1>6. /\ flight' \in [Flights -> Flight]
      /\ flight'[f] = [x EXCEPT !.seen = v]
      /\ \A g \in Flights \ {f} : flight'[g] = flight[g]
  BY <1>1, <1>2, <1>4 DEF Flight
<1>7. /\ flight'[f].seen = v /\ flight'[f].stage = x.stage /\ flight'[f].gen = x.gen
      /\ flight'[f].scope = x.scope /\ flight'[f].key = x.key
  BY <1>2, <1>6 DEF Flight
<1>8. ASSUME NEW g \in Flights PROVE FlightGood(flight'[g])
  BY <1>5, <1>6, <1>7, <1>4 DEF ReadInv, FlightGood
<1>9. ASSUME NEW q \in Readers PROVE ReaderGood(flight', reader'[q])
  <2>1. ReaderGood(flight, reader[q]) /\ reader'[q] = reader[q] /\ reader[q] \in Reader
    BY <1>1, <1>2 DEF ReadInv
  <2>2. CASE reader[q].pc = "waiting" /\ reader[q].flight = f
    <3>1. reader[q].floor <= committed[x.scope] /\ reader[q].floor \in Nat
      BY <2>1, <2>2 DEF ReaderGood, Reader
    <3>2. v >= reader[q].floor BY <3>1, <1>4, <1>5
    <3> QED BY <2>1, <2>2, <3>2, <1>7 DEF ReaderGood
  <2>3. CASE ~ (reader[q].pc = "waiting" /\ reader[q].flight = f) BY <2>1, <2>3, <1>6 DEF ReaderGood
  <2> QED BY <2>2, <2>3
<1> QED BY <1>1, <1>2, <1>6, <1>8, <1>9, ReadInvFrom

LEMMA LandStep ==
  ASSUME ReadInv, NEW f \in Flights, ReadLands(f)
  PROVE  ReadInv'
<1>1. PICK failed \in BOOLEAN : Land(f, failed) BY DEF ReadLands
<1> DEFINE gone == [flight EXCEPT ![f].stage = "settled"]
           rel == Released(flight, f)
<1>2. /\ flight' = [rel EXCEPT ![f].seen = IF failed THEN None ELSE @]
      /\ reader' = reader /\ flight[f].stage = "pending"
      /\ UNCHANGED <<registered, version, committed>>
  BY <1>1 DEF Land, ReadLands, gitVars
<1>3. flight \in [Flights -> Flight] /\ reader \in [Readers -> Reader] BY DEF ReadInv, ReadTypeOK
<1>4. gone \in [Flights -> Flight] BY <1>3 DEF Flight
<1>5. /\ rel \in [Flights -> Flight]
      /\ \A g \in Flights :
           /\ rel[g].stage = IF g = f THEN "settled" ELSE flight[g].stage
           /\ rel[g].scope = flight[g].scope /\ rel[g].key = flight[g].key
           /\ rel[g].seen = flight[g].seen
           /\ rel[g].gen = flight[g].gen \/ rel[g].gen = "dropped"
  <2>1. \A g \in Flights :
           /\ gone[g].stage = IF g = f THEN "settled" ELSE flight[g].stage
           /\ gone[g].scope = flight[g].scope /\ gone[g].key = flight[g].key
           /\ gone[g].seen = flight[g].seen /\ gone[g].gen = flight[g].gen
    BY <1>3 DEF Flight
  <2>2. CASE rel = gone BY <2>1, <2>2, <1>4
  <2>3. CASE rel = LeaveMap(gone, flight[f].scope, "dropped")
    <3>1. /\ rel \in [Flights -> Flight]
          /\ \A g \in Flights :
               /\ rel[g].stage = gone[g].stage /\ rel[g].scope = gone[g].scope
               /\ rel[g].key = gone[g].key /\ rel[g].seen = gone[g].seen
               /\ rel[g].gen = gone[g].gen \/ rel[g].gen = "dropped"
      <4> HIDE DEF gone, rel
      <4> QED BY <2>3, <1>4, LeaveMapGood
    <3> QED BY <2>1, <3>1
  <2> QED BY <2>2, <2>3 DEF Released
<1>6. /\ flight' \in [Flights -> Flight]
      /\ \A g \in Flights :
           /\ flight'[g].stage = IF g = f THEN "settled" ELSE flight[g].stage
           /\ flight'[g].scope = flight[g].scope /\ flight'[g].key = flight[g].key
           /\ flight'[g].seen = flight[g].seen \/ flight'[g].seen = None
           /\ flight'[g].gen = flight[g].gen \/ flight'[g].gen = "dropped"
  BY <1>2, <1>5 DEF Flight
<1>7. ASSUME NEW g \in Flights PROVE FlightGood(flight'[g]) BY <1>2, <1>6 DEF ReadInv, FlightGood
<1>8. ASSUME NEW q \in Readers PROVE ReaderGood(flight', reader'[q])
  <2>1. ReaderGood(flight, reader[q]) /\ reader'[q] = reader[q] BY <1>2, <1>3 DEF ReadInv
  <2> QED BY <2>1, <1>6 DEF ReaderGood
<1> QED BY <1>2, <1>3, <1>6, <1>7, <1>8, ReadInvFrom

\* Freeing the identity of a promise that only r held disturbs no other reader.
LEMMA ForgottenGood ==
  ASSUME ReadInv, NEW r \in Readers, NEW f \in Flights
  PROVE  /\ Forgotten(flight, f, r) \in [Flights -> Flight]
         /\ \A g \in Flights : FlightGood(Forgotten(flight, f, r)[g])
         /\ \A q \in Readers \ {r} : ReaderGood(Forgotten(flight, f, r), reader[q])
<1> DEFINE fl == Forgotten(flight, f, r)
<1>1. flight \in [Flights -> Flight] BY DEF ReadInv, ReadTypeOK
<1>2. FreeFlight \in Flight /\ FlightGood(FreeFlight)
  BY ReadAssumption DEF FreeFlight, Flight, FlightGood, AnyScope, AnyKey
<1>3. CASE \E q \in Readers \ {r} : reader[q].flight = f BY <1>1, <1>3 DEF Forgotten, ReadInv
<1>4. CASE ~ \E q \in Readers \ {r} : reader[q].flight = f
  <2>1. fl = [flight EXCEPT ![f] = FreeFlight] BY <1>4 DEF Forgotten
  <2>2. fl \in [Flights -> Flight] /\ \A g \in Flights : FlightGood(fl[g])
    BY <1>1, <1>2, <2>1 DEF ReadInv
  <2>3. ASSUME NEW q \in Readers \ {r} PROVE ReaderGood(fl, reader[q])
    <3>1. ReaderGood(flight, reader[q]) /\ reader[q].flight # f BY <1>4 DEF ReadInv
    <3>2. reader[q].pc = "waiting" => fl[reader[q].flight] = flight[reader[q].flight]
      BY <3>1, <1>1, <2>1 DEF ReaderGood
    <3> QED BY <3>1, <3>2 DEF ReaderGood
  <2> QED BY <2>2, <2>3
<1> QED BY <1>3, <1>4

LEMMA ReturnStep ==
  ASSUME ReadInv, NEW r \in Readers, ReadReturns(r)
  PROVE  ReadInv'
<1> DEFINE f == reader[r].flight
           fl == Forgotten(flight, f, r)
<1>1. flight \in [Flights -> Flight] /\ reader \in [Readers -> Reader]
      /\ reader[r] \in Reader /\ ReaderGood(flight, reader[r])
      /\ UNCHANGED <<registered, version, committed>>
  BY DEF ReadInv, ReadTypeOK, ReadReturns, gitVars
<1>2. reader[r].pc = "waiting" BY DEF ReadReturns, ReturnRead, RetryRead, Landed
<1>3. f \in Flights BY <1>1, <1>2 DEF ReaderGood
<1>4. /\ fl \in [Flights -> Flight] /\ \A g \in Flights : FlightGood(fl[g])
      /\ \A q \in Readers \ {r} : ReaderGood(fl, reader[q])
  BY <1>3, ForgottenGood
<1>5. CASE ReturnRead(r)
  <2> DEFINE mine == [reader[r] EXCEPT !.pc = "returned", !.flight = None,
                                       !.result = flight[f].seen]
  <2>1. flight' = fl /\ reader' = [reader EXCEPT ![r] = mine] BY <1>5, <1>1 DEF ReturnRead
  <2>2. mine \in Reader /\ mine.pc = "returned" /\ mine.result = flight[f].seen
        /\ mine.floor = reader[r].floor
    BY <1>1, <1>3 DEF Reader, Flight
  <2>3. ReaderGood(fl, mine) BY <1>1, <1>2, <2>2 DEF ReaderGood
  <2>4. reader' \in [Readers -> Reader] /\ reader'[r] = mine
        /\ \A q \in Readers \ {r} : reader'[q] = reader[q]
    BY <1>1, <2>1, <2>2
  <2>5. \A q \in Readers : ReaderGood(flight', reader'[q]) BY <1>4, <2>1, <2>3, <2>4
  <2>6. \A g \in Flights : FlightGood(flight'[g]) BY <1>4, <2>1
  <2>7. flight' \in [Flights -> Flight] BY <1>4, <2>1
  <2> QED BY <1>1, <2>4, <2>5, <2>6, <2>7, ReadInvFrom
<1>6. CASE RetryRead(r, committed[reader[r].scope])
  <2> DEFINE next == IF reader[r].attempt < LastAttempt THEN reader[r].attempt + 1
                                                        ELSE reader[r].attempt
             call == [reader[r] EXCEPT !.attempt = next,
                                       !.floor = committed[reader[r].scope]]
  <2>1. Attach(r, fl, call) BY <1>6, <1>1 DEF RetryRead
  <2>2. next \in 0..LastAttempt BY <1>1 DEF Reader, LastAttempt
  <2>3. reader[r].scope \in Scopes /\ committed[reader[r].scope] \in Nat BY <1>1 DEF ReadInv, Reader
  <2>4. /\ call \in Reader /\ call.pc = "waiting" /\ call.scope = reader[r].scope
        /\ call.key = reader[r].key /\ call.floor = committed[reader[r].scope]
    BY <1>1, <1>2, <2>2, <2>3 DEF Reader
  <2>5. call.scope \in {call.key, CommonDir[call.key]} /\ call.floor <= committed[call.scope]
    BY <1>1, <1>2, <2>3, <2>4 DEF ReaderGood
  <2> QED BY <1>1, <1>4, <2>1, <2>4, <2>5, AttachStep
<1> QED BY <1>5, <1>6 DEF ReadReturns

LEMMA CallerDoneStep ==
  ASSUME ReadInv, NEW r \in Readers, ReadAgain(r)
  PROVE  ReadInv'
<1>1. /\ reader' = [reader EXCEPT ![r] = IdleReader] /\ flight' = flight
      /\ UNCHANGED <<registered, version, committed>>
  BY DEF ReadAgain, CallerDone, gitVars
<1>2. IdleReader \in Reader /\ ReaderGood(flight, IdleReader)
  BY ReadAssumption DEF IdleReader, Reader, ReaderGood, AnyScope, AnyKey, LastAttempt
<1>3. \A q \in Readers : ReaderGood(flight', reader'[q]) BY <1>1, <1>2 DEF ReadInv, ReadTypeOK
<1>4. flight' \in [Flights -> Flight] /\ reader' \in [Readers -> Reader]
      /\ \A g \in Flights : FlightGood(flight'[g])
  BY <1>1, <1>2 DEF ReadInv, ReadTypeOK
<1> QED BY <1>1, <1>3, <1>4, ReadInvFrom

LEMMA AskReadStep ==
  ASSUME ReadInv, NEW r \in Readers, NEW d \in Dirs, AskRead(r, d)
  PROVE  ReadInv'
<1>1. PICK retry \in BOOLEAN : RunRead(r, Scope(d), d, retry, committed[Scope(d)]) BY DEF AskRead
<1> DEFINE call == [pc |-> "waiting", scope |-> Scope(d), key |-> d,
                    retryInvalidated |-> retry, attempt |-> 0, flight |-> None,
                    floor |-> committed[Scope(d)], result |-> None]
<1>2. Attach(r, flight, call) /\ UNCHANGED <<registered, version, committed>>
  BY <1>1 DEF RunRead, AskRead, gitVars
<1>3. Scope(d) \in Scopes /\ Scope(d) \in {d, CommonDir[d]} /\ d \in Keys BY ScopeType
<1>4. committed[Scope(d)] \in Nat BY <1>3 DEF ReadInv
<1>5. call \in Reader BY <1>3, <1>4 DEF Reader, LastAttempt
<1>6. call.floor <= committed[call.scope] /\ call.scope \in {call.key, CommonDir[call.key]}
  BY <1>3, <1>4
<1>7. flight \in [Flights -> Flight] /\ (\A f \in Flights : FlightGood(flight[f]))
      /\ \A q \in Readers \ {r} : ReaderGood(flight, reader[q])
  BY DEF ReadInv, ReadTypeOK
<1> QED BY <1>2, <1>5, <1>6, <1>7, AttachStep

\* A write ends: its content is what the scope promises from now on, and no flight that
\* may have missed it can be joined any more.
LEMMA EndCommandReads ==
  ASSUME ReadInv, cwd \in [Writers -> Dirs], NEW w \in Writers, EndCommand(w)
  PROVE  ReadInv'
<1> DEFINE d == cwd[w]
           s == Scope(d)
           v == version[CommonDir[d]]
<1>1. /\ flight' = LeaveMap(flight, s, "invalidated") /\ reader' = reader
      /\ committed' = [committed EXCEPT ![s] = v]
      /\ UNCHANGED <<registered, version>>
  BY DEF EndCommand, InvalidateScope, Invalidated
<1>2. /\ flight \in [Flights -> Flight] /\ reader \in [Readers -> Reader]
      /\ committed \in [Scopes -> Nat] /\ version \in [CommonDirs -> Nat]
  BY DEF ReadInv, ReadTypeOK
<1>3. s \in Scopes /\ RepoOf(s) = CommonDir[d] /\ v \in Nat BY <1>2, ScopeType
<1>4. committed[s] <= v BY <1>3 DEF ReadInv
<1>5. /\ committed' \in [Scopes -> Nat]
      /\ \A x \in Scopes : committed'[x] = IF x = s THEN v ELSE committed[x]
  BY <1>1, <1>2, <1>3
<1>6. /\ flight' \in [Flights -> Flight]
      /\ \A f \in Flights :
           /\ flight'[f].stage = flight[f].stage /\ flight'[f].scope = flight[f].scope
           /\ flight'[f].key = flight[f].key /\ flight'[f].seen = flight[f].seen
           /\ flight'[f].gen = IF flight[f].gen = "current" /\ flight[f].scope = s
                               THEN "invalidated" ELSE flight[f].gen
  BY <1>1, <1>2, LeaveMapGood
<1>7. ASSUME NEW f \in Flights PROVE FlightGood(flight[f])'
  <2>1. FlightGood(flight[f]) /\ flight[f] \in Flight BY <1>2 DEF ReadInv
  <2>2. ASSUME flight'[f].gen = "current", flight'[f].seen # None
        PROVE  flight'[f].seen >= committed'[flight'[f].scope]
    <3>1. flight[f].gen = "current" /\ flight[f].scope # s /\ flight[f].scope \in Scopes
      BY <1>6, <2>1, <2>2 DEF Flight
    <3> QED BY <1>5, <1>6, <2>1, <2>2, <3>1 DEF FlightGood
  <2> QED BY <1>6, <2>1, <2>2 DEF FlightGood
<1>8. ASSUME NEW q \in Readers PROVE ReaderGood(flight, reader[q])'
  <2>1. ReaderGood(flight, reader[q]) /\ reader[q] \in Reader /\ reader'[q] = reader[q]
    BY <1>1, <1>2 DEF ReadInv
  <2>2. reader[q].scope \in Scopes /\ reader[q].floor \in Nat BY <2>1 DEF Reader
  <2>3. reader[q].floor <= committed[reader[q].scope]
        => reader[q].floor <= committed'[reader[q].scope]
    BY <1>2, <1>3, <1>4, <1>5, <2>2
  <2> QED BY <1>6, <2>1, <2>3 DEF ReaderGood
<1>9. ASSUME NEW x \in Scopes PROVE (committed[x] <= version[RepoOf(x)])'
  BY <1>1, <1>3, <1>5 DEF ReadInv, RepoOf
<1> QED BY <1>1, <1>2, <1>5, <1>6, <1>7, <1>8, <1>9 DEF ReadInv, ReadTypeOK

LEMMA ContentReads ==
  ASSUME ReadInv, NEW c \in CommonDirs, ContentChanges(c)
  PROVE  ReadInv'
<1>1. /\ version' = [version EXCEPT ![c] = @ + 1]
      /\ UNCHANGED <<flight, reader, registered, committed>>
  BY DEF ContentChanges, readVars
<1>2. version' \in [CommonDirs -> Nat] BY <1>1 DEF ReadInv
<1>3. ASSUME NEW x \in Scopes PROVE (committed[x] <= version[RepoOf(x)])'
  <2>1. RepoOf(x) \in CommonDirs /\ committed[x] \in Nat
    BY ScopeType, GitAssumption DEF ReadInv, RepoOf, GitAssumption
  <2>2. committed[x] <= version[RepoOf(x)] /\ version[RepoOf(x)] \in Nat BY <2>1 DEF ReadInv
  <2>3. version'[RepoOf(x)] >= version[RepoOf(x)] /\ version'[RepoOf(x)] \in Nat
    BY <1>1, <1>2, <2>1, <2>2 DEF ReadInv
  <2>4. committed[x] <= version'[RepoOf(x)] BY <2>1, <2>2, <2>3
  <2> QED BY <1>1, <2>4 DEF RepoOf
<1>4. \A f \in Flights : FlightGood(flight[f])' BY <1>1 DEF ReadInv, FlightGood
<1>5. \A q \in Readers : ReaderGood(flight, reader[q])' BY <1>1 DEF ReadInv, ReaderGood
<1> QED BY <1>1, <1>2, <1>3, <1>4, <1>5 DEF ReadInv, ReadTypeOK

------------------------------
(* The specification. *)

Inv == LockInv /\ ReadInv /\ cwd \in [Writers -> Dirs]

LEMMA InitInv == Init => Inv
<1> SUFFICES ASSUME Init PROVE Inv
  OBVIOUS
<1>1. LockInv
  <2>1. LockTypeOK BY AnyLockKeyType DEF Init, LockInit, LockTypeOK
  <2>2. \A k \in LockKeys : LineOK(k) BY DEF Init, LockInit, LineOK
  <2>3. \A w \in Writers : TaskOK(w) BY DEF Init, LockInit, TaskOK
  <2> QED BY <2>1, <2>2, <2>3 DEF LockInv
<1>2. ReadInv
  <2>1. FreeFlight \in Flight /\ FlightGood(FreeFlight)
    BY ReadAssumption DEF FreeFlight, Flight, FlightGood, AnyScope, AnyKey
  <2>2. IdleReader \in Reader /\ ReaderGood(flight, IdleReader)
    BY ReadAssumption DEF IdleReader, Reader, ReaderGood, AnyScope, AnyKey, LastAttempt
  <2>3. \A s \in Scopes : committed[s] = 0 /\ version[RepoOf(s)] = 0
    BY ScopeType, GitAssumption DEF Init, RepoOf, GitAssumption
  <2> QED BY <2>1, <2>2, <2>3 DEF Init, ReadInit, ReadInv, ReadTypeOK
<1>3. cwd \in [Writers -> Dirs]
  <2>1. Dirs # {} => AnyDir \in Dirs BY DEF AnyDir
  <2>2. Dirs # {} BY ReadAssumption, GitAssumption DEF GitAssumption
  <2> QED BY <2>1, <2>2 DEF Init
<1> QED BY <1>1, <1>2, <1>3 DEF Inv

LEMMA NextInv == Inv /\ [Next]_vars => Inv'
<1> SUFFICES ASSUME Inv, [Next]_vars PROVE Inv'
  OBVIOUS
<1>1. LockInv /\ ReadInv /\ cwd \in [Writers -> Dirs] BY DEF Inv
<1>2. AnyDir \in Dirs BY ReadAssumption, GitAssumption DEF AnyDir, GitAssumption
\* Steps that leave the lock alone, and steps that leave the reads alone.
<1>3. UNCHANGED lockVars => LockInv' BY <1>1 DEF LockInv, LockTypeOK, LineOK, TaskOK, lockVars
<1>4. UNCHANGED <<readVars, registered, version, committed>> => ReadInv'
  BY <1>1 DEF ReadInv, ReadTypeOK, FlightGood, ReaderGood, RepoOf, readVars
<1>5. ASSUME NEW d \in Dirs, Register(d) \/ Unregister(d) PROVE Inv'
  <2>1. registered' \in SUBSET Dirs /\ UNCHANGED <<lockVars, cwd, version, committed>>
        /\ InvalidateScope(Scope(d))
    BY <1>1, <1>5 DEF Register, Unregister, ReadInv
  <2>2. ReadInv' BY <1>1, <2>1, InvalidateStep
  <2> QED BY <1>1, <1>3, <2>1, <2>2 DEF Inv
<1>6. ASSUME NEW w \in Writers, NEW d \in Dirs, AskWrite(w, d) PROVE Inv'
  <2>1. PICK k \in LockKeys : Enqueue(w, k)
    BY <1>6, ScopeType, GitAssumption DEF AskWrite, GitAssumption
  <2>2. LockInv' BY <1>1, <2>1, EnqueueStep
  <2>3. ReadInv' /\ cwd' \in [Writers -> Dirs] BY <1>1, <1>4, <1>6 DEF AskWrite
  <2> QED BY <2>2, <2>3 DEF Inv
<1>7. ASSUME NEW w \in Writers, BeginTask(w) PROVE Inv'
  <2>1. LockInv' BY <1>1, <1>7, EnterStep DEF BeginTask
  <2>2. ReadInv' BY <1>1, <1>7, InvalidateStep DEF BeginTask, gitVars, ReadInv
  <2> QED BY <1>1, <1>7, <2>1, <2>2 DEF Inv, BeginTask, gitVars
<1>8. ASSUME NEW w \in Writers, StartCommand(w) PROVE Inv'
  <2>1. LockInv' BY <1>1, <1>8, CommandStep DEF StartCommand, gitVars
  <2>2. ReadInv' BY <1>1, <1>8, InvalidateStep DEF StartCommand, gitVars, ReadInv
  <2> QED BY <1>1, <1>8, <2>1, <2>2 DEF Inv, StartCommand, gitVars
<1>9. ASSUME NEW w \in Writers, EndCommand(w) PROVE Inv'
  <2>1. LockInv' BY <1>1, <1>9, CommandStep DEF EndCommand
  <2>2. ReadInv' BY <1>1, <1>9, EndCommandReads
  <2> QED BY <1>1, <1>9, <2>1, <2>2 DEF Inv, EndCommand
<1>10. ASSUME NEW w \in Writers, EndTask(w) PROVE Inv'
  <2>1. LockInv' BY <1>1, <1>10, ReleaseStep DEF EndTask
  <2>2. ReadInv' BY <1>1, <1>10, InvalidateStep DEF EndTask, ReadInv
  <2> QED BY <1>1, <1>2, <1>10, <2>1, <2>2 DEF Inv, EndTask
<1>11. ASSUME NEW c \in CommonDirs, ContentChanges(c) PROVE Inv'
  BY <1>1, <1>3, <1>11, ContentReads DEF Inv, ContentChanges
<1>12. ASSUME NEW r \in Readers, NEW d \in Dirs, AskRead(r, d) PROVE Inv'
  BY <1>1, <1>3, <1>12, AskReadStep DEF Inv, AskRead, gitVars
<1>13. ASSUME NEW f \in Flights, ReadLooks(f) PROVE Inv'
  BY <1>1, <1>3, <1>13, LookStep DEF Inv, ReadLooks, gitVars
<1>14. ASSUME NEW f \in Flights, ReadLands(f) PROVE Inv'
  BY <1>1, <1>3, <1>14, LandStep DEF Inv, ReadLands, gitVars
<1>15. ASSUME NEW r \in Readers, ReadReturns(r) PROVE Inv'
  BY <1>1, <1>3, <1>15, ReturnStep DEF Inv, ReadReturns, gitVars
<1>16. ASSUME NEW r \in Readers, ReadAgain(r) PROVE Inv'
  BY <1>1, <1>3, <1>16, CallerDoneStep DEF Inv, ReadAgain, gitVars
<1>17. CASE UNCHANGED vars BY <1>1, <1>3, <1>4, <1>17 DEF Inv, vars, gitVars
<1> QED BY <1>5, <1>6, <1>7, <1>8, <1>9, <1>10, <1>11, <1>12, <1>13, <1>14, <1>15, <1>16,
     <1>17 DEF Next

LEMMA Invariant == Spec => []Inv
BY InitInv, NextInv, PTL DEF Spec

(* Every variable of GitProcess keeps its type. *)
THEOREM TypeCorrect == Spec => []TypeOK
<1>1. Inv => TypeOK BY DEF Inv, LockInv, ReadInv, TypeOK
<1> QED BY <1>1, Invariant, PTL

(* withWriteLock: two tasks of one lock key are never inside together. *)
THEOREM Exclusion == Spec => []WriteExclusion
<1>1. Inv => WriteExclusion
  <2> SUFFICES ASSUME Inv, NEW v \in Inside, NEW w \in Inside, lockKey[v] = lockKey[w]
               PROVE  v = w
    BY DEF WriteExclusion
  <2>1. v = line[lockKey[v]][1] /\ w = line[lockKey[w]][1] BY InsideIsHead DEF Inv, Inside
  <2> QED BY <2>1
<1> QED BY <1>1, Invariant, PTL

(* runDirect and ReadSingleFlight: a flight that can still be joined has *)
(* seen every write that ended in its scope. *)
THEOREM Freshness == Spec => []SharedReadsFresh
<1>1. Inv => SharedReadsFresh BY DEF Inv, ReadInv, FlightGood, SharedReadsFresh
<1> QED BY <1>1, Invariant, PTL

(* shareRead: no answer is older than the last write that had ended when *)
(* the answering attempt began. *)
THEOREM ReadsSeeWrites == Spec => []ReadYourWrites
<1>1. Inv => ReadYourWrites BY DEF Inv, ReadInv, ReaderGood, ReadYourWrites
<1> QED BY <1>1, Invariant, PTL

------------------------------
(* One child per read. *)

\* The flights that can be joined, and among fl no two of one read.
Joinable(fl, f) == fl[f].stage = "pending" /\ fl[f].gen = "current"

Single(fl) ==
  \A f, g \in Flights : /\ Joinable(fl, f) /\ Joinable(fl, g)
                        /\ fl[f].scope = fl[g].scope /\ fl[f].key = fl[g].key
                        => f = g

\* No flight can be joined in next that could not in fl.
NoneMore(fl, next) ==
  \A f \in Flights : Joinable(next, f) =>
    Joinable(fl, f) /\ next[f].scope = fl[f].scope /\ next[f].key = fl[f].key

LEMMA NoneMoreSingle == ASSUME NEW fl, NEW next, Single(fl), NoneMore(fl, next)
                        PROVE  Single(next)
BY DEF Single, NoneMore

LEMMA LeaveMapLess ==
  ASSUME NEW fl \in [Flights -> Flight], NEW s, NEW flag \in {"dropped", "invalidated"}
  PROVE  NoneMore(fl, LeaveMap(fl, s, flag))
BY LeaveMapGood DEF NoneMore, Joinable

LEMMA ForgottenLess ==
  ASSUME NEW fl \in [Flights -> Flight], NEW f \in Flights, NEW r
  PROVE  Forgotten(fl, f, r) \in [Flights -> Flight] /\ NoneMore(fl, Forgotten(fl, f, r))
<1>1. FreeFlight \in Flight /\ FreeFlight.stage = "free"
  BY ReadAssumption DEF FreeFlight, Flight, AnyScope, AnyKey
<1> QED BY <1>1 DEF Forgotten, NoneMore, Joinable

\* A flight is started only where none of this read can be joined.
LEMMA AttachSingle ==
  ASSUME NEW r \in Readers, NEW fl \in [Flights -> Flight], NEW call, Single(fl), Attach(r, fl, call)
  PROVE  Single(flight')
<1> DEFINE new == [stage |-> "pending", gen |-> "current", scope |-> call.scope,
                   key |-> call.key, seen |-> None]
           existing == {f \in Unreleased(fl, call.scope) : fl[f].key = call.key}
<1>1. CASE flight' = fl BY <1>1
<1>2. CASE existing = {} /\ \E f \in Flights : flight' = [fl EXCEPT ![f] = new]
  <2>1. PICK f \in Flights : flight' = [fl EXCEPT ![f] = new] BY <1>2
  <2>2. flight'[f] = new /\ \A g \in Flights \ {f} : flight'[g] = fl[g] BY <2>1
  <2>3. ASSUME NEW g \in Flights, Joinable(fl, g), fl[g].scope = call.scope, fl[g].key = call.key
        PROVE  FALSE
    BY <1>2, <2>3 DEF Unreleased, InGeneration, Joinable
  <2> QED BY <2>2, <2>3 DEF Single, Joinable
<1> QED BY <1>1, <1>2 DEF Attach

LEMMA SingleStep ==
  ASSUME Inv, Single(flight), [Next]_vars
  PROVE  Single(flight')
<1>1. flight \in [Flights -> Flight] /\ reader \in [Readers -> Reader]
  BY DEF Inv, ReadInv, ReadTypeOK
<1>2. ASSUME NEW s, InvalidateScope(s)
      PROVE  Single(flight')
  BY <1>1, <1>2, LeaveMapLess, NoneMoreSingle DEF InvalidateScope, Invalidated
<1>3. ASSUME NEW r \in Readers, NEW d \in Dirs, AskRead(r, d)
      PROVE  Single(flight')
  BY <1>1, <1>3, AttachSingle DEF AskRead, RunRead
<1>4. ASSUME NEW f \in Flights, ReadLooks(f)
      PROVE  Single(flight')
  BY <1>1, <1>4 DEF ReadLooks, Look, Flight, Single, Joinable
<1>5. ASSUME NEW f \in Flights, ReadLands(f)
      PROVE  Single(flight')
  <2> DEFINE gone == [flight EXCEPT ![f].stage = "settled"]
             rel == Released(flight, f)
  <2>1. gone \in [Flights -> Flight] /\ NoneMore(flight, gone)
    BY <1>1 DEF Flight, NoneMore, Joinable
  <2>2. rel = gone \/ rel = LeaveMap(gone, flight[f].scope, "dropped") BY DEF Released
  <2>3. rel \in [Flights -> Flight] /\ Single(rel)
    <3> HIDE DEF gone, rel
    <3>1. Single(gone) BY <2>1, NoneMoreSingle
    <3> QED BY <2>1, <2>2, <3>1, LeaveMapLess, LeaveMapGood, NoneMoreSingle
  <2>4. PICK failed \in BOOLEAN : flight' = [rel EXCEPT ![f].seen = IF failed THEN None ELSE @]
    BY <1>5 DEF ReadLands, Land
  <2>5. NoneMore(rel, flight')
    <3> HIDE DEF rel
    <3> QED BY <2>3, <2>4 DEF NoneMore, Joinable, Flight
  <2> QED BY <2>3, <2>5, NoneMoreSingle
<1>6. ASSUME NEW r \in Readers, ReadReturns(r)
      PROVE  Single(flight')
  <2> DEFINE fl == Forgotten(flight, reader[r].flight, r)
  <2>1. reader[r].flight \in Flights
    BY <1>6 DEF Inv, ReadInv, ReaderGood, ReadReturns, ReturnRead, RetryRead, Landed
  <2>2. fl \in [Flights -> Flight] /\ Single(fl) BY <1>1, <2>1, ForgottenLess, NoneMoreSingle
  <2> QED BY <1>6, <2>2, AttachSingle DEF ReadReturns, ReturnRead, RetryRead
<1>7. CASE flight' = flight BY <1>7
<1> QED BY <1>2, <1>3, <1>4, <1>5, <1>6, <1>7
     DEF Next, Register, Unregister, AskWrite, BeginTask, StartCommand, EndCommand, EndTask,
         ContentChanges, ReadAgain, CallerDone, vars, readVars

(* ReadSingleFlight.pending: no two reads that can be joined are the same, *)
(* so requests of one moment cost one child, whatever is invalidated. *)
THEOREM SharedChildren == Spec => []OneFlightPerKey
<1>1. Init => Single(flight) BY DEF Init, ReadInit, FreeFlight, Single, Joinable
<1>2. Inv /\ Single(flight) /\ [Next]_vars => Single(flight)' BY SingleStep DEF Single, Joinable
<1>3. Single(flight) => OneFlightPerKey BY DEF Single, Joinable, OneFlightPerKey
<1> QED BY <1>1, <1>2, <1>3, Invariant, PTL DEF Spec

(* withWriteLock's chain of promises is a first-in first-out queue. *)
THEOREM ChainRefinesQueue == Spec => ChainIsQueue
<1>1. Init => Queue!Init BY DEF Init, LockInit, Queue!Init, Inside
<1>2. Inv /\ [Next]_vars => [Queue!Next]_<<line, Inside>>
  <2> SUFFICES ASSUME Inv, [Next]_vars PROVE [Queue!Next]_<<line, Inside>>
    OBVIOUS
  <2>1. LockInv /\ LockTypeOK BY DEF Inv, LockInv
  <2>2. UNCHANGED lockVars => UNCHANGED <<line, Inside>> BY DEF lockVars, Inside
  <2>3. ASSUME NEW w \in Writers, NEW d \in Dirs, AskWrite(w, d)
        PROVE  \E k \in LockKeys : Queue!Ask(w, k)
    <3>1. PICK k \in LockKeys : Enqueue(w, k)
      BY <2>3, ScopeType, GitAssumption DEF AskWrite, GitAssumption
    <3>2. ~ Queue!Waiting(w)
      <4>1. \A j \in LockKeys : DOMAIN line[j] = 1..Len(line[j]) BY <2>1 DEF LockTypeOK
      <4>2. \A j \in LockKeys : \A i \in 1..Len(line[j]) : line[j][i] # w
        BY <2>1, <3>1 DEF LockInv, LineOK, Enqueue
      <4> QED BY <4>1, <4>2 DEF Queue!Waiting
    <3>3. Inside' = Inside BY <2>1, <3>1 DEF LockTypeOK, Enqueue, Inside
    <3> QED BY <3>1, <3>2, <3>3 DEF Enqueue, Queue!Ask
  <2>4. ASSUME NEW w \in Writers, BeginTask(w)
        PROVE  \E k \in LockKeys : Queue!Start(w, k)
    <3> DEFINE k == lockKey[w]
    <3>1. pc' = [pc EXCEPT ![w] = "inside"] /\ pc[w] = "queued" /\ line' = line
          /\ lockKey' = lockKey
      BY <2>4 DEF BeginTask, Enter
    <3>2. LockInv' BY <2>1, <2>4, EnterStep DEF BeginTask
    <3>3. pc'[w] = "inside" /\ k \in LockKeys /\ line[k] \in Seq(Writers)
      BY <2>1, <3>1 DEF LockTypeOK
    <3>4. previous[w] = NoWriter /\ \E i \in 1..Len(line[k]) : line[k][i] = w
      BY <2>1, <2>4, <3>1 DEF BeginTask, Enter, LockInv, TaskOK
    <3>5. Len(line[k]) > 0 /\ line[k][1] = w
      <4>1. PICK i \in 1..Len(line[k]) : line[k][i] = w BY <3>4
      <4>2. i > 1 => previous[w] = line[k][i - 1] /\ i - 1 \in 1..Len(line[k])
        BY <2>1, <3>3, <4>1 DEF LockInv, LineOK
      <4>3. i = 1 BY <3>3, <3>4, <4>1, <4>2, WriteAssumption
      <4> QED BY <3>3, <4>1, <4>3
    <3>6. Inside' = Inside \cup {w} /\ w \notin Inside BY <2>1, <3>1 DEF LockTypeOK, Inside
    <3> QED BY <3>1, <3>3, <3>5, <3>6 DEF Queue!Start
  <2>5. ASSUME NEW w \in Writers, StartCommand(w) \/ EndCommand(w)
        PROVE  UNCHANGED <<line, Inside>>
    BY <2>1, <2>5 DEF StartCommand, EndCommand, Inside, LockTypeOK
  <2>6. ASSUME NEW w \in Writers, EndTask(w)
        PROVE  \E k \in LockKeys : Queue!Finish(w, k)
    <3> DEFINE k == lockKey[w]
    <3>1. pc[w] = "inside" /\ pc' = [pc EXCEPT ![w] = "idle"]
          /\ line' = [line EXCEPT ![k] = Tail(@)]
      BY <2>6 DEF EndTask, Release
    <3>2. Len(line[k]) > 0 /\ line[k][1] = w /\ k \in LockKeys /\ line[k] \in Seq(Writers)
      BY <2>1, <3>1, InsideIsHead DEF LockTypeOK
    <3>3. Inside' = Inside \ {w} /\ w \in Inside BY <2>1, <3>1 DEF LockTypeOK, Inside
    <3>4. line[k] # <<>> /\ Head(line[k]) = w BY <3>2
    <3>5. Queue!Finish(w, k) BY <3>1, <3>3, <3>4 DEF Queue!Finish
    <3> QED BY <3>2, <3>5
  <2> QED BY <2>2, <2>3, <2>4, <2>5, <2>6 DEF Next, vars, lockVars, Register, Unregister,
       ContentChanges, AskRead, ReadLooks, ReadLands, ReadReturns, ReadAgain, Queue!Next
<1> QED BY <1>1, <1>2, Invariant, PTL DEF Spec, ChainIsQueue, Queue!Spec

------------------------------
(* Starts of a server for a home. *)

Attempts == Processes \cup {"command", NoProcess}
Process == [stage : Stages, managed : BOOLEAN, version : 1..2, port : Ports, failed : BOOLEAN,
            attempt : Attempts, previous : Attempts, seen : Processes \cup {NoProcess}]
Record == [attempt : Attempts, phase : {"none", "pending", "starting", "ready", "failed"},
           by : Processes \cup {NoProcess}]
Command == [stage : {"none", "stop", "start", "poll", "runtime", "verify", "ready", "failed", "late"},
            earlier : SUBSET Processes, record : Record, runtime : Processes \cup {NoProcess}]

\* A managed process has its attempt from the moment it reports, and keeps it.
ReportOK(p) ==
  LET x == processes[p] IN
  /\ x.stage = "begin" \/ x.stage \in Saving => x.managed
  /\ x.managed /\ x.stage \notin {"none", "begin", "gone"} => x.attempt # NoProcess

\* What a record of a start says of the process that wrote it stays true.
RecordOK(record) ==
  record.by # NoProcess =>
    /\ processes[record.by].stage \notin {"none", "begin"} /\ processes[record.by].managed
    /\ processes[record.by].attempt = record.attempt

\* Once the command has restarted the service, the manager's process was started by it or later.
RestartOK ==
  /\ command.stage \in {"poll", "runtime", "verify"} => job \in Processes \ command.earlier
  /\ command.earlier \subseteq {p \in Processes : processes[p].stage # "none"}
  /\ job # NoProcess => processes[job].stage # "none"
  /\ command.stage = "ready" =>
       /\ command.runtime \in Processes \ command.earlier /\ processes[command.runtime].version = unit
       /\ command.record.by = command.runtime /\ command.record.attempt = "command"

StartupInv ==
  /\ processes \in [Processes -> Process] /\ startupFile \in Record /\ startupFile.attempt # NoProcess
  /\ runtimeFile \in Processes \cup {NoProcess} /\ job \in Processes \cup {NoProcess} /\ unit \in 1..2
  /\ command \in Command /\ mishaps \in 0..MaxMishaps
  /\ \A p \in Processes : ReportOK(p)
  /\ RecordOK(startupFile) /\ RecordOK(command.record)
  /\ RestartOK

LEMMA StartupStarts ==
  ASSUME StartupInit PROVE StartupInv
<1>1. First \in Processes /\ NoProcess # First /\ ServicePort \in Ports /\ 0 \in 0..MaxMishaps
  BY StartupAssumption
<1>2. NotStarted \in Process BY <1>1 DEF NotStarted, Process, Stages, Attempts
<1>3. [NotStarted EXCEPT !.stage = "serve", !.managed = TRUE, !.attempt = First] \in Process
  BY <1>1, <1>2 DEF Process, Stages, Attempts
<1>4. processes \in [Processes -> Process] BY <1>2, <1>3 DEF StartupInit
<1>5. processes[First] = [NotStarted EXCEPT !.stage = "serve", !.managed = TRUE, !.attempt = First]
      /\ \A p \in Processes : p # First => processes[p] = NotStarted
  BY <1>1 DEF StartupInit
<1>6. /\ processes[First].stage = "serve" /\ processes[First].managed /\ processes[First].attempt = First
      /\ \A p \in Processes : p # First => processes[p].stage = "none"
  BY <1>5 DEF NotStarted
<1>7. startupFile \in Record /\ startupFile.attempt = First /\ startupFile.by = First
  BY <1>1 DEF StartupInit, Record, Attempts
<1>8. command = NoCommand /\ NoCommand \in Command /\ NoCommand.stage = "none" /\ NoCommand.earlier = {} /\ NoCommand.record.by = NoProcess
  BY DEF StartupInit, NoCommand, Command, NoStartup, Record, Attempts
<1>9. \A p \in Processes : ReportOK(p) BY <1>1, <1>6 DEF ReportOK, Saving
<1>10. RecordOK(startupFile) /\ RecordOK(command.record) /\ RestartOK
  BY <1>1, <1>6, <1>7, <1>8 DEF RecordOK, RestartOK, StartupInit
<1> QED BY <1>1, <1>4, <1>7, <1>8, <1>9, <1>10 DEF StartupInv, StartupInit

\* What a process may become: once it has reported its start, it stays who it is.
Follows(x, y) ==
  /\ y.stage = "none" => x.stage = "none"
  /\ x.stage \notin {"none", "begin"} =>
       y.stage \notin {"none", "begin"} /\ y.managed = x.managed /\ y.attempt = x.attempt /\ y.version = x.version
  /\ y.stage = "begin" \/ y.stage \in Saving => y.managed
  /\ y.managed /\ y.stage \notin {"none", "begin", "gone"} => y.attempt # NoProcess

\* A step of one process: the others are as they were, and the records stay true.
LEMMA ProcessFacts ==
  ASSUME StartupInv, NEW p \in Processes, NEW x \in Process, Follows(processes[p], x), Becomes(p, x)
  PROVE  /\ processes' \in [Processes -> Process] /\ processes'[p] = x
         /\ \A q \in Processes : ReportOK(q)'
         /\ \A q \in Processes : processes[q].stage # "none" => processes'[q].stage # "none"
         /\ \A q \in Processes : processes[q].stage \notin {"none", "begin"} => processes'[q].version = processes[q].version
         /\ \A record \in Record : RecordOK(record) => RecordOK(record)'
<1>1. /\ processes' \in [Processes -> Process] /\ processes'[p] = x
      /\ \A q \in Processes : q # p => processes'[q] = processes[q]
  BY DEF StartupInv, Becomes
<1>2. ASSUME NEW q \in Processes PROVE ReportOK(q)'
  <2>1. CASE q = p BY <1>1, <2>1 DEF ReportOK, Follows
  <2>2. CASE q # p BY <1>1, <1>2, <2>2 DEF StartupInv, ReportOK
  <2> QED BY <2>1, <2>2
<1>3. ASSUME NEW record \in Record, RecordOK(record) PROVE RecordOK(record)'
  <2>1. CASE record.by = p BY <1>1, <1>3, <2>1 DEF RecordOK, Follows
  <2>2. CASE record.by # p BY <1>1, <1>3, <2>2 DEF RecordOK, Record
  <2> QED BY <2>1, <2>2
<1>4. \A q \in Processes : processes[q].stage # "none" => processes'[q].stage # "none"
  BY <1>1 DEF Follows
<1>5. \A q \in Processes : processes[q].stage \notin {"none", "begin"} => processes'[q].version = processes[q].version
  BY <1>1 DEF Follows
<1> QED BY <1>1, <1>2, <1>3, <1>4, <1>5

\* While it goes on by itself, manager and command learn nothing.
LEMMA ProcessAlone ==
  ASSUME StartupInv, NEW p \in Processes, NEW x \in Process, Follows(processes[p], x), Becomes(p, x),
         UNCHANGED <<job, unit, command>>,
         runtimeFile' \in Processes \cup {NoProcess}, mishaps' \in 0..MaxMishaps,
         \/ startupFile' = startupFile
         \/ /\ startupFile' \in Record /\ startupFile'.by = p /\ startupFile'.attempt = x.attempt
            /\ x.attempt # NoProcess /\ x.managed /\ x.stage \notin {"none", "begin"}
  PROVE  StartupInv'
<1>1. /\ processes' \in [Processes -> Process] /\ processes'[p] = x
      /\ \A q \in Processes : ReportOK(q)'
      /\ \A q \in Processes : processes[q].stage # "none" => processes'[q].stage # "none"
      /\ \A q \in Processes : processes[q].stage \notin {"none", "begin"} => processes'[q].version = processes[q].version
      /\ \A record \in Record : RecordOK(record) => RecordOK(record)'
  BY ProcessFacts
<1>2. startupFile' \in Record /\ startupFile'.attempt # NoProcess /\ RecordOK(startupFile)'
  <2>1. CASE startupFile' = startupFile
    <3>1. startupFile \in Record /\ RecordOK(startupFile) /\ startupFile.attempt # NoProcess
      BY DEF StartupInv
    <3> QED BY <1>1, <2>1, <3>1 DEF RecordOK
  <2>2. CASE startupFile' # startupFile BY <1>1, <2>2 DEF RecordOK
  <2> QED BY <2>1, <2>2
<1>3. command \in Command /\ command.record \in Record /\ RecordOK(command.record)
  BY DEF StartupInv, Command
<1>4. RecordOK(command.record)' BY <1>1, <1>3 DEF RecordOK
<1>5. RestartOK'
  <2>1. command.stage = "ready" => processes'[command.runtime].version = unit
    BY <1>1, <1>3, StartupAssumption DEF StartupInv, RestartOK, RecordOK
  <2> QED BY <1>1, <2>1 DEF StartupInv, RestartOK, Command
<1> QED BY <1>1, <1>2, <1>3, <1>4, <1>5 DEF StartupInv

\* The stages that follow one another.
LEMMA StageFacts ==
  ASSUME NEW x \in Process, NEW stage \in Stages
  PROVE  LET y == [x EXCEPT !.stage = stage] IN
         /\ y \in Process /\ y.stage = stage /\ y.managed = x.managed /\ y.attempt = x.attempt /\ y.version = x.version
BY DEF Process

LEMMA GoesFollows ==
  ASSUME StartupInv, NEW p \in Processes, NEW stage \in Stages \ {"none", "begin"}, Goes(p, stage),
         processes[p].stage \notin {"none", "begin", "gone"}, stage \in Saving => processes[p].managed
  PROVE  \E x \in Process : Becomes(p, x) /\ Follows(processes[p], x) /\ x.stage = stage /\ x.managed = processes[p].managed
                            /\ x.attempt = processes[p].attempt
<1> DEFINE y == [processes[p] EXCEPT !.stage = stage]
<1>1. processes[p] \in Process /\ ReportOK(p) BY DEF StartupInv
<1>2. y \in Process /\ y.stage = stage /\ y.managed = processes[p].managed /\ y.attempt = processes[p].attempt
      /\ y.version = processes[p].version
  BY <1>1, StageFacts
<1>3. Becomes(p, y) BY DEF Goes
<1>4. Follows(processes[p], y) BY <1>1, <1>2 DEF Follows, ReportOK
<1> QED BY <1>2, <1>3, <1>4

\* A process whose start fails reports it, if it is managed, after it has cleared its record.
LEMMA FailingFollows ==
  ASSUME StartupInv, NEW p \in Processes, Failing(p), processes[p].stage \in {"refuse", "listen", "record", "save-ready"}
  PROVE  \E x \in Process : Becomes(p, x) /\ Follows(processes[p], x)
<1> DEFINE next == IF processes[p].stage \in {"record", "save-ready"} THEN "clear"
                   ELSE IF processes[p].managed THEN "save-failed" ELSE "gone"
           y == [processes[p] EXCEPT !.failed = TRUE, !.stage = next]
<1>1. processes[p] \in Process /\ ReportOK(p) BY DEF StartupInv
<1>2. Becomes(p, y) BY <1>1 DEF Failing, Process
<1>3. next \in {"clear", "save-failed", "gone"} /\ (next = "save-failed" => processes[p].managed) /\ next \in Stages
  BY DEF Stages, Saving
<1> HIDE DEF next
<1>4. y \in Process /\ y.stage = next /\ y.managed = processes[p].managed /\ y.attempt = processes[p].attempt
      /\ y.version = processes[p].version
  BY <1>1, <1>3 DEF Process
<1>5. Follows(processes[p], y) BY <1>1, <1>3, <1>4 DEF Follows, ReportOK, Saving
<1> QED BY <1>2, <1>4, <1>5

\* Only one that was not used yet is born.
LEMMA BornFollows ==
  ASSUME StartupInv, NEW p \in Processes, NEW managed \in BOOLEAN, NEW defined \in 1..2, NEW port \in Ports,
         Born(p, managed, defined, port)
  PROVE  \E x \in Process : /\ Becomes(p, x) /\ Follows(processes[p], x) /\ x.stage \in {"begin", "refuse"}
                            /\ processes[p].stage = "none"
<1> DEFINE next == IF managed THEN "begin" ELSE "refuse"
           y == [NotStarted EXCEPT !.stage = next, !.managed = managed, !.version = defined, !.port = port]
<1>1. processes[p].stage = "none" /\ Becomes(p, y) BY DEF Born
<1>2. next \in Stages /\ next \in {"begin", "refuse"} /\ (next = "begin" => managed) /\ (next = "refuse" => ~managed)
  BY DEF Stages
<1> HIDE DEF next
<1>3. NotStarted \in Process BY StartupAssumption DEF NotStarted, Process, Stages, Attempts
<1>4. y \in Process /\ y.stage = next /\ y.managed = managed BY <1>2, <1>3 DEF Process
<1>5. Follows(processes[p], y) BY <1>1, <1>2, <1>4 DEF Follows, Saving
<1> QED BY <1>1, <1>2, <1>4, <1>5

\* What leaves the files as they are.
LEMMA QuietStep ==
  ASSUME StartupInv, NEW p \in Processes,
         \/ BeginReport(p) \/ StartInTerminal(p) \/ SaveLooks(p) \/ RefuseActive(p) \/ Clears(p) \/ Ends(p)
         \/ Listens(p) \/ FailsToStart(p) \/ Interrupted(p) \/ Killed(p)
  PROVE  StartupInv'
<1>1. processes[p] \in Process /\ ReportOK(p) /\ runtimeFile \in Processes \cup {NoProcess} /\ mishaps \in 0..MaxMishaps
  BY DEF StartupInv
<1>2. UNCHANGED <<startupFile, runtimeFile, job, unit, command>>
  BY DEF BeginReport, StartInTerminal, SaveLooks, RefuseActive, Clears, Ends, Listens, FailsToStart, Interrupted, Killed
<1>3. mishaps' \in 0..MaxMishaps
  <2>1. Mishap \/ UNCHANGED mishaps
    BY DEF BeginReport, StartInTerminal, SaveLooks, RefuseActive, Clears, Ends, Listens, FailsToStart, Interrupted, Killed
  <2> QED BY <1>1, <2>1, StartupAssumption DEF Mishap
<1>4. SUFFICES \E x \in Process : Becomes(p, x) /\ Follows(processes[p], x)
  BY <1>1, <1>2, <1>3, ProcessAlone
<1>5. ASSUME NEW stage \in Stages \ {"none", "begin"}, Goes(p, stage), stage \in Saving => processes[p].managed,
             processes[p].stage \notin {"none", "begin", "gone"}
      PROVE  \E x \in Process : Becomes(p, x) /\ Follows(processes[p], x)
  BY <1>5, GoesFollows
<1>6. CASE BeginReport(p)
  <2> DEFINE attempt == IF startupFile.phase = "pending" THEN startupFile.attempt ELSE p
             y == [processes[p] EXCEPT !.stage = "save-starting", !.previous = startupFile.attempt, !.attempt = attempt]
  <2>1. processes[p].stage = "begin" /\ Becomes(p, y) BY <1>6 DEF BeginReport
  <2>2. attempt \in Attempts /\ attempt # NoProcess /\ startupFile.attempt \in Attempts /\ "save-starting" \in Stages
    BY StartupAssumption DEF StartupInv, Record, Attempts, Stages, Saving
  <2> HIDE DEF attempt
  <2>3. y \in Process /\ y.stage = "save-starting" /\ y.managed = processes[p].managed /\ y.attempt = attempt
    BY <1>1, <2>2 DEF Process
  <2>4. Follows(processes[p], y) BY <1>1, <2>1, <2>2, <2>3 DEF Follows, ReportOK
  <2> QED BY <2>1, <2>3, <2>4
<1>7. CASE StartInTerminal(p) BY <1>7, BornFollows DEF StartInTerminal
<1>8. CASE SaveLooks(p)
  <2> DEFINE next == IF MaySave(p) THEN WriteStage(processes[p].stage) ELSE AfterSave(processes[p].stage)
  <2>1. processes[p].stage \in {"save-starting", "save-ready", "save-failed"} /\ Goes(p, next)
    BY <1>8 DEF SaveLooks
  <2>2. next \in {"write-starting", "write-ready", "write-failed", "refuse", "serve", "gone"}
    BY <2>1 DEF WriteStage, AfterSave
  <2>3. processes[p].managed BY <1>1, <2>1 DEF ReportOK, Saving
  <2> HIDE DEF next
  <2> QED BY <1>5, <2>1, <2>2, <2>3 DEF Stages, Saving
<1>9. CASE RefuseActive(p)
  <2>1. processes[p].stage = "refuse" BY <1>9 DEF RefuseActive
  <2>2. CASE Goes(p, "listen") BY <1>5, <2>1, <2>2 DEF Stages, Saving
  <2>3. CASE Failing(p) BY <2>1, <2>3, FailingFollows
  <2>4. CASE Becomes(p, [processes[p] EXCEPT !.stage = "clear-stale", !.seen = runtimeFile])
    <3> DEFINE y == [processes[p] EXCEPT !.stage = "clear-stale", !.seen = runtimeFile]
    <3>1. y \in Process /\ y.stage = "clear-stale" /\ y.managed = processes[p].managed /\ y.attempt = processes[p].attempt
          /\ y.version = processes[p].version
      BY <1>1 DEF Process, Stages
    <3>2. Follows(processes[p], y) BY <1>1, <2>1, <3>1 DEF Follows, ReportOK, Saving
    <3> QED BY <2>4, <3>1, <3>2
  <2> QED BY <1>9, <2>2, <2>3, <2>4 DEF RefuseActive
<1>10. CASE Clears(p)
  <2>1. processes[p].stage \in {"clear-stale", "clear"} /\ \E next \in {"rm", "end", "rm-stale", "listen"} : Goes(p, next)
    BY <1>10 DEF Clears
  <2> QED BY <1>5, <2>1 DEF Stages, Saving
<1>11. CASE Ends(p)
  <2>1. processes[p].stage = "end" /\ \/ Goes(p, "gone")
                                      \/ Goes(p, "save-failed") /\ processes[p].managed
    BY <1>11 DEF Ends
  <2> QED BY <1>5, <2>1 DEF Stages, Saving
<1>12. CASE Listens(p)
  <2>1. processes[p].stage = "listen" /\ (Failing(p) \/ Goes(p, "record")) BY <1>12 DEF Listens
  <2> QED BY <1>5, <2>1, FailingFollows DEF Stages, Saving
<1>13. CASE FailsToStart(p) BY <1>13, FailingFollows DEF FailsToStart
<1>14. CASE Interrupted(p)
  <2>1. processes[p].stage = "serve" /\ Goes(p, "clear") BY <1>14 DEF Interrupted, Signalled
  <2> QED BY <1>5, <2>1 DEF Stages, Saving
<1>15. CASE Killed(p)
  <2> DEFINE y == [processes[p] EXCEPT !.stage = "gone", !.failed = TRUE]
  <2>1. Becomes(p, y) /\ processes[p].stage \notin {"none", "gone"} BY <1>15 DEF Killed, Lives
  <2>2. y \in Process /\ y.stage = "gone" /\ y.managed = processes[p].managed /\ y.attempt = processes[p].attempt
        /\ y.version = processes[p].version
    BY <1>1 DEF Process, Stages
  <2>3. Follows(processes[p], y) BY <2>2 DEF Follows, Saving
  <2> QED BY <2>1, <2>2, <2>3
<1> QED BY <1>6, <1>7, <1>8, <1>9, <1>10, <1>11, <1>12, <1>13, <1>14, <1>15

\* What writes the files.
LEMMA WritingStep ==
  ASSUME StartupInv, NEW p \in Processes, SaveWrites(p) \/ Removes(p) \/ Records(p)
  PROVE  StartupInv'
<1>1. processes[p] \in Process /\ ReportOK(p) /\ mishaps' \in 0..MaxMishaps /\ UNCHANGED <<job, unit, command>>
  BY DEF StartupInv, SaveWrites, Removes, Records
<1>2. CASE SaveWrites(p)
  <2> DEFINE next == AfterSave(processes[p].stage)
  <2>1. /\ processes[p].stage \in {"write-starting", "write-ready", "write-failed"} /\ Goes(p, next)
        /\ startupFile' = [attempt |-> processes[p].attempt, phase |-> Phase(processes[p].stage), by |-> p]
        /\ runtimeFile' \in Processes \cup {NoProcess}
    BY <1>2 DEF SaveWrites, StartupInv
  <2>2. next \in {"refuse", "serve", "gone"} /\ Phase(processes[p].stage) \in {"starting", "ready", "failed"}
    BY <2>1 DEF AfterSave, Phase
  <2>3. processes[p].managed /\ processes[p].attempt # NoProcess /\ processes[p].attempt \in Attempts
    BY <1>1, <2>1 DEF ReportOK, Saving, Process
  <2>4. startupFile' \in Record /\ startupFile'.by = p /\ startupFile'.attempt = processes[p].attempt
    BY <2>1, <2>2, <2>3 DEF Record
  <2> HIDE DEF next
  <2>5. next \in Stages \ {"none", "begin"} /\ next \notin Saving BY <2>2 DEF Stages, Saving
  <2>6. PICK x \in Process : Becomes(p, x) /\ Follows(processes[p], x) /\ x.stage = next /\ x.managed = processes[p].managed
                             /\ x.attempt = processes[p].attempt
    BY <2>1, <2>5, GoesFollows
  <2> QED BY <1>1, <2>1, <2>3, <2>4, <2>5, <2>6, ProcessAlone
<1>3. CASE Removes(p)
  <2>1. /\ processes[p].stage \in {"rm-stale", "rm"} /\ \E next \in {"end", "listen"} : Goes(p, next)
        /\ runtimeFile' \in Processes \cup {NoProcess} /\ startupFile' = startupFile
    BY <1>3 DEF Removes
  <2>2. PICK x \in Process : Becomes(p, x) /\ Follows(processes[p], x)
    BY <2>1, GoesFollows DEF Stages, Saving
  <2> QED BY <1>1, <2>1, <2>2, ProcessAlone
<1>4. CASE Records(p)
  <2>1. /\ processes[p].stage = "record"
        /\ \/ Goes(p, "save-ready") /\ processes[p].managed
           \/ Goes(p, "serve")
        /\ runtimeFile' \in Processes \cup {NoProcess} /\ startupFile' = startupFile
    BY <1>4 DEF Records
  <2>2. PICK x \in Process : Becomes(p, x) /\ Follows(processes[p], x)
    BY <2>1, GoesFollows DEF Stages, Saving
  <2> QED BY <1>1, <2>1, <2>2, ProcessAlone
<1> QED BY <1>2, <1>3, <1>4

\* The manager starts the service again; what it starts is not from before the restart.
LEMMA StartStep ==
  ASSUME StartupInv, NEW p \in Processes, StartsAgain(p) \/ RestartStarts(p)
  PROVE  StartupInv'
<1>1. Born(p, TRUE, unit, ServicePort) /\ job' = p /\ UNCHANGED <<startupFile, runtimeFile, unit, mishaps>>
  BY DEF StartsAgain, RestartStarts
<1>2. PICK x \in Process : /\ Becomes(p, x) /\ Follows(processes[p], x) /\ x.stage \in {"begin", "refuse"}
                           /\ processes[p].stage = "none"
  BY <1>1, BornFollows, StartupAssumption DEF StartupInv
<1>3. /\ processes' \in [Processes -> Process] /\ processes'[p] = x
      /\ \A q \in Processes : ReportOK(q)'
      /\ \A q \in Processes : processes[q].stage # "none" => processes'[q].stage # "none"
      /\ \A q \in Processes : processes[q].stage \notin {"none", "begin"} => processes'[q].version = processes[q].version
      /\ \A record \in Record : RecordOK(record) => RecordOK(record)'
  BY <1>2, ProcessFacts
<1>4. command \in Command /\ command.record \in Record /\ startupFile \in Record
  BY DEF StartupInv, Command
<1>5. /\ command' \in Command /\ command'.record = command.record /\ command'.runtime = command.runtime
      /\ \/ command' = command
         \/ command'.stage = "poll" /\ command'.earlier = {q \in Processes : processes[q].stage # "none"}
  BY <1>4 DEF StartsAgain, RestartStarts, Command
<1>6. RecordOK(startupFile)' /\ RecordOK(command.record)'
  <2>1. RecordOK(startupFile) /\ RecordOK(command.record) BY DEF StartupInv
  <2> QED BY <1>1, <1>3, <1>4, <1>5, <2>1 DEF RecordOK
<1>7. RestartOK'
  <2>1. p \notin command'.earlier /\ command'.earlier \subseteq {q \in Processes : processes'[q].stage # "none"}
    BY <1>2, <1>3, <1>5 DEF StartupInv, RestartOK
  <2>2. processes'[p].stage # "none" BY <1>2, <1>3
  <2>3. command'.stage = "ready" => command' = command /\ processes'[command.runtime].version = unit
    BY <1>3, <1>4, <1>5, StartupAssumption DEF StartupInv, RestartOK, RecordOK
  <2> QED BY <1>1, <1>5, <2>1, <2>2, <2>3 DEF StartupInv, RestartOK
<1> QED BY <1>1, <1>3, <1>5, <1>6, <1>7 DEF StartupInv

\* The command asks the manager to restart the service.
LEMMA RestartStep ==
  ASSUME StartupInv, RequestStartup \/ RestartStops
  PROVE  StartupInv'
<1>1. command \in Command /\ command.record \in Record BY DEF StartupInv, Command
<1>2. /\ command' = [command EXCEPT !.stage = command'.stage] /\ command'.stage \in {"stop", "start"}
      /\ UNCHANGED <<runtimeFile, job, mishaps>>
  BY <1>1 DEF RequestStartup, RestartStops, CommandGoes, Command
<1>3. /\ command' \in Command /\ command'.stage \in {"stop", "start"} /\ command'.earlier = command.earlier
      /\ command'.record = command.record
  BY <1>1, <1>2 DEF Command
<1>4. CASE RequestStartup
  <2>1. /\ startupFile' = [attempt |-> "command", phase |-> "pending", by |-> NoProcess] /\ unit' \in 1..2
        /\ UNCHANGED processes
    BY <1>4 DEF RequestStartup
  <2>2. startupFile' \in Record /\ startupFile'.attempt # NoProcess /\ startupFile'.by = NoProcess
    BY <2>1, StartupAssumption DEF Record, Attempts
  <2>3. RecordOK(startupFile)' /\ RecordOK(command.record)'
    BY <1>3, <2>1, <2>2 DEF StartupInv, RecordOK
  <2>4. \A p \in Processes : ReportOK(p)' BY <2>1 DEF StartupInv, ReportOK
  <2> QED BY <1>2, <1>3, <2>1, <2>2, <2>3, <2>4 DEF StartupInv, RestartOK
<1>5. CASE RestartStops /\ Lives(job)
  <2>1. job \in Processes /\ processes[job].stage \notin {"none", "gone"} /\ Signalled(job) /\ UNCHANGED <<startupFile, unit>>
    BY <1>5 DEF RestartStops, Lives, StartupInv
  <2>2. PICK stage \in {"clear", "gone"} : Goes(job, stage) BY <2>1 DEF Signalled
  <2> DEFINE y == [processes[job] EXCEPT !.stage = stage]
  <2>3. processes[job] \in Process /\ stage \in Stages /\ stage \notin Saving /\ ReportOK(job)
    BY <2>1, <2>2 DEF StartupInv, Stages, Saving
  <2>4. y \in Process /\ y.stage = stage /\ y.managed = processes[job].managed /\ y.attempt = processes[job].attempt
        /\ y.version = processes[job].version
    BY <2>3, StageFacts
  <2>5. Follows(processes[job], y)
    <3>1. CASE stage = "gone" BY <3>1, <2>3, <2>4 DEF Follows
    <3>2. CASE stage = "clear"
      <4>1. processes[job].stage = "serve"
        BY <2>1, <2>2, <2>3, <3>2 DEF Signalled, Goes, Becomes, Process, StartupInv
      <4> QED BY <3>2, <2>3, <2>4, <4>1 DEF Follows, ReportOK
    <3> QED BY <3>1, <3>2
  <2>6. Becomes(job, y) BY <2>2 DEF Goes
  <2> HIDE DEF y
  <2>7. /\ processes' \in [Processes -> Process]
        /\ \A q \in Processes : ReportOK(q)'
        /\ \A q \in Processes : processes[q].stage # "none" => processes'[q].stage # "none"
        /\ \A record \in Record : RecordOK(record) => RecordOK(record)'
    BY <2>1, <2>4, <2>5, <2>6, ProcessFacts
  <2>8. RecordOK(startupFile)' /\ RecordOK(command.record)'
    <3>1. RecordOK(startupFile) /\ RecordOK(command.record) /\ startupFile \in Record
      BY DEF StartupInv
    <3> QED BY <1>1, <1>3, <2>1, <2>7, <3>1 DEF RecordOK
  <2>9. RestartOK' BY <1>2, <1>3, <2>7 DEF StartupInv, RestartOK
  <2> QED BY <1>2, <1>3, <2>1, <2>7, <2>8, <2>9 DEF StartupInv
<1>6. CASE RestartStops /\ ~Lives(job)
  <2>1. UNCHANGED <<processes, startupFile, unit>> BY <1>6 DEF RestartStops
  <2>2. RecordOK(startupFile)' /\ RecordOK(command.record)' BY <1>3, <2>1 DEF StartupInv, RecordOK
  <2>3. \A p \in Processes : ReportOK(p)' BY <2>1 DEF StartupInv, ReportOK
  <2> QED BY <1>2, <1>3, <2>1, <2>2, <2>3 DEF StartupInv, RestartOK
<1> QED BY <1>4, <1>5, <1>6

\* The command polls the files.
LEMMA PollStep ==
  ASSUME StartupInv, PollStartup \/ PollRuntime \/ VerifyReady \/ GiveUpWaiting
  PROVE  StartupInv'
<1>1. command \in Command /\ command.record \in Record /\ startupFile \in Record /\ RecordOK(startupFile) /\ RecordOK(command.record)
      /\ runtimeFile \in Processes \cup {NoProcess}
  BY DEF StartupInv, Command
<1>2. UNCHANGED <<processes, startupFile, runtimeFile, job, unit, mishaps>>
  BY DEF PollStartup, PollRuntime, VerifyReady, GiveUpWaiting
<1>3. ASSUME command' \in Command, command'.earlier = command.earlier, command.stage \in {"poll", "runtime", "verify"},
             RecordOK(command'.record), command'.stage # "ready"
      PROVE  StartupInv'
  <2>1. RecordOK(command.record)' /\ RecordOK(startupFile)' BY <1>1, <1>2, <1>3 DEF RecordOK
  <2>2. RestartOK' BY <1>2, <1>3 DEF StartupInv, RestartOK
  <2>3. \A p \in Processes : ReportOK(p)' BY <1>2 DEF StartupInv, ReportOK
  <2> QED BY <1>2, <1>3, <2>1, <2>2, <2>3 DEF StartupInv
<1>4. CASE PollStartup
  <2>1. /\ command' \in Command /\ command'.earlier = command.earlier /\ command'.record = startupFile
        /\ command'.stage # "ready" /\ command.stage = "poll"
    BY <1>1, <1>4 DEF PollStartup, Command
  <2> QED BY <1>1, <1>3, <2>1
<1>5. CASE PollRuntime
  <2>1. /\ command' \in Command /\ command'.earlier = command.earlier /\ command'.record = command.record
        /\ command'.stage # "ready" /\ command.stage = "runtime"
    BY <1>1, <1>5 DEF PollRuntime, Command
  <2> QED BY <1>1, <1>3, <2>1
<1>6. CASE GiveUpWaiting \/ (VerifyReady /\ ~IsVerified)
  <2>1. /\ command' \in Command /\ command'.earlier = command.earlier /\ command'.record = command.record
        /\ command'.stage # "ready" /\ command.stage \in {"poll", "verify"}
    BY <1>1, <1>6 DEF GiveUpWaiting, VerifyReady, CommandGoes, Command
  <2> QED BY <1>1, <1>3, <2>1
<1>7. CASE VerifyReady /\ IsVerified
  <2>1. /\ command' \in Command /\ command'.earlier = command.earlier /\ command'.record = command.record
        /\ command'.runtime = command.runtime /\ command'.stage = "ready" /\ command.stage = "verify"
    BY <1>1, <1>7 DEF VerifyReady, CommandGoes, Command
  <2>2. /\ job = command.runtime /\ processes[command.runtime].version = unit
        /\ command.record.by = command.runtime /\ command.record.attempt = "command"
    BY <1>7 DEF IsVerified
  <2>3. RestartOK' BY <1>2, <2>1, <2>2 DEF StartupInv, RestartOK
  <2>4. RecordOK(command.record)' /\ RecordOK(startupFile)' BY <1>1, <1>2, <2>1 DEF RecordOK
  <2>5. \A p \in Processes : ReportOK(p)' BY <1>2 DEF StartupInv, ReportOK
  <2> QED BY <1>2, <2>1, <2>3, <2>4, <2>5 DEF StartupInv
<1> QED BY <1>4, <1>5, <1>6, <1>7

LEMMA StartupStep ==
  ASSUME StartupInv, [StartupNext]_startupVars PROVE StartupInv'
<1>1. CASE UNCHANGED startupVars
  <2>1. \A p \in Processes : ReportOK(p)' BY <1>1 DEF StartupInv, ReportOK, startupVars
  <2> QED BY <1>1, <2>1 DEF StartupInv, RecordOK, RestartOK, startupVars
<1>2. CASE StartupNext
  BY <1>2, QuietStep, WritingStep, StartStep, RestartStep, PollStep DEF StartupNext
<1> QED BY <1>1, <1>2

LEMMA StartupFacts ==
  ASSUME StartupInv PROVE StartupTypeOK /\ ReadyIsTheRequested
<1>1. StartupTypeOK
  <2>1. ASSUME NEW p \in Processes
        PROVE  LET x == processes[p] IN
               /\ x.stage \in Stages /\ x.managed \in BOOLEAN /\ x.version \in 1..2 /\ x.port \in Ports /\ x.failed \in BOOLEAN
               /\ x.attempt \in Processes \cup {"command", NoProcess}
               /\ (x.stage \in Saving => x.managed /\ x.attempt # NoProcess)
    <3>1. processes[p] \in Process /\ ReportOK(p) BY DEF StartupInv
    <3> QED BY <3>1 DEF ReportOK, Process, Attempts, Saving
  <2> QED BY <2>1 DEF StartupInv, StartupTypeOK, Record, Command
<1>2. ReadyIsTheRequested
  BY StartupAssumption DEF StartupInv, RestartOK, RecordOK, Command, ReadyIsTheRequested
<1> QED BY <1>1, <1>2

------------------------------
(* What a tab shows of its repositories. *)

Read == [stage : {"none", "asked", "looked", "lost"}, version : 0..MaxVersions, polled : BOOLEAN]
Requests == Refresh \cup {NoRequest}
Cycle == [stage : {"none", "fetching", "reading", "pausing"}, request : Requests, queued : Requests,
          awaits : SUBSET Resources, got : Versions, again : BOOLEAN, old : BOOLEAN]
AppState == [tree : Trees \cup {NoTree}, view : Views, snapshot : Trees \cup {NoTree}, busy : BOOLEAN,
             has : Versions, of : [Resources -> Trees \cup {NoTree}]]

CycleOK(r) ==
  LET c == cycles[r] IN
  /\ c.stage = "none" <=> c.request = NoRequest
  /\ c.awaits # {} <=> c.stage = "reading"
  /\ c.awaits \subseteq Needs(c.request) /\ \A res \in c.awaits : reads[r][res].stage # "none"
  /\ c.stage = "none" => c.queued = NoRequest

RefreshTyped ==
  /\ world \in [Trees -> Versions] /\ reads \in [Trees -> [Resources -> Read]] /\ cycles \in [Trees -> Cycle]
  /\ app \in AppState /\ reports \subseteq Trees \X ChangeKinds /\ link \in {"up", "down", "back"}
  /\ behind \subseteq Trees /\ moves \in 0..MaxMoves /\ readFaults \in 0..MaxReadFaults
  /\ \A r \in Trees : CycleOK(r)

Looked(r, res) == reads[r][res].stage = "looked"
IsOld(r, res) == Looked(r, res) /\ reads[r][res].version # world[r][res]

\* It is going to be read again: an event or the next round tells the tab so.
Told(r, res) ==
  \/ \E scope \in ChangeKinds : <<r, scope>> \in reports /\ res \in ChangedBy(scope)
  \/ cycles[r].queued # NoRequest /\ res \in Needs(cycles[r].queued)
Due(r, res) == Told(r, res) \/ link # "up"

\* The round under way is going to read it, or will have joined a read that was too early.
Again(r, res) ==
  /\ res \in Needs(cycles[r].request)
  /\ cycles[r].stage \in {"fetching", "pausing"} \/ (cycles[r].stage = "reading" /\ cycles[r].old)

\* What the round has read of it, or reads, is up to date.
Fresh(r, res) ==
  /\ cycles[r].stage = "reading" /\ res \in Needs(cycles[r].request)
  /\ IF res \in cycles[r].awaits THEN ~IsOld(r, res) ELSE cycles[r].got[res] = world[r][res]

\* No read that the round waits for was lost with the connection.
Intact(r) == \A res \in cycles[r].awaits : reads[r][res].stage # "lost"

\* What the tab has of the repository that it shows is up to date, or will be read again.
ShownOK(r) ==
  r \notin behind =>
    /\ app.snapshot = r \/ cycles[r].stage # "none" \/ link # "up"
    /\ \A res \in ShownResources :
         /\ app.has[res] = world[r][res] \/ Due(r, res) \/ Again(r, res) \/ Fresh(r, res)
         /\ IsOld(r, res) => Due(r, res) \/ Again(r, res)

\* What a round brings is up to date, or will be read again.
RoundOK(r) ==
  cycles[r].stage = "reading" /\ ~cycles[r].old /\ Intact(r) =>
    \A res \in ShownResources \cap Needs(cycles[r].request) :
      /\ Fresh(r, res) \/ Told(r, res)
      /\ IsOld(r, res) => Told(r, res)

\* Who waits for a round, or the next, gets what is shown.
ViewOK(r) ==
  /\ cycles[r].queued # NoRequest => cycles[r].queued.view = app.view
  /\ cycles[r].stage # "none" /\ cycles[r].request.view # app.view =>
       cycles[r].queued # NoRequest /\ cycles[r].queued.scope = "unknown"

\* While there is no connection nothing is found, and a round has nothing yet.
NothingFound(r) ==
  /\ \A res \in Resources : ~Looked(r, res)
  /\ cycles[r].stage = "reading" => cycles[r].awaits = Needs(cycles[r].request) \/ ~Intact(r)
LinkOK ==
  /\ link = "down" => \A r \in Trees : NothingFound(r)
  /\ link # "down" => \A r \in Trees, res \in Resources : reads[r][res].stage # "lost"

\* What is shown is of the repository that is shown.
BelongsOK ==
  /\ app.snapshot \in {app.tree, NoTree} /\ app.of["files"] \in {app.tree, NoTree}
  /\ app.snapshot # NoTree => app.of["status"] = app.tree

RefreshInv ==
  /\ RefreshTyped /\ LinkOK /\ BelongsOK
  /\ \A t \in Trees : app.tree = t => ShownOK(t) /\ RoundOK(t) /\ ViewOK(t)

\* What a request needs, alone and merged with another one.
LEMMA NeedsFacts ==
  ASSUME NEW q
  PROVE  /\ "status" \in Needs(q) /\ Needs(q) \subseteq Resources
         /\ q.scope = "unknown" /\ q.view = app.view => ShownResources \subseteq Needs(q)
         /\ \A scope \in RepositoryChangeScope :
              q.scope = scope /\ q.view = app.view => ChangedBy(scope) \cap ShownResources \subseteq Needs(q)
<1>1. "status" \in Needs(q) /\ Needs(q) \subseteq Resources BY DEF Needs, Resources
<1>2. ASSUME q.scope = "unknown", q.view = app.view PROVE ShownResources \subseteq Needs(q)
  BY <1>2 DEF ShownResources, Needs
<1>3. ASSUME NEW scope \in RepositoryChangeScope, q.scope = scope, q.view = app.view
      PROVE  ChangedBy(scope) \cap ShownResources \subseteq Needs(q)
  <2>1. /\ [NoRequest EXCEPT !.scope = scope, !.view = "files"].scope = scope
        /\ [NoRequest EXCEPT !.scope = scope, !.view = "files"].view = "files"
    BY DEF NoRequest
  <2> QED BY <1>3, <2>1 DEF ChangedBy, ShownResources, Needs
<1> QED BY <1>1, <1>2, <1>3

LEMMA ScopesMerge ==
  ASSUME NEW left \in RepositoryChangeScope, NEW right \in RepositoryChangeScope
  PROVE  /\ Merged(left, right) \in RepositoryChangeScope
         /\ Merged(left, right) \in {left, "index", "unknown"} /\ Merged(left, right) \in {right, "index", "unknown"}
         /\ Merged(left, right) = "index" => left \in {"worktree", "index"} /\ right \in {"worktree", "index"}
         /\ left = "unknown" \/ right = "unknown" => Merged(left, right) = "unknown"
<1>1. CASE left = right BY <1>1 DEF Merged, RepositoryChangeScope
<1>2. CASE left # right /\ {left, right} = {"worktree", "index"}
  BY <1>2 DEF Merged, RepositoryChangeScope
<1>3. CASE left # right /\ {left, right} # {"worktree", "index"}
  <2>1. Merged(left, right) = "unknown" BY <1>3 DEF Merged
  <2> QED BY <2>1 DEF RepositoryChangeScope
<1> QED BY <1>1, <1>2, <1>3

LEMMA RequestsMerge ==
  ASSUME NEW p \in Refresh, NEW q \in Refresh
  PROVE  /\ MergedRequests(p, q) \in Refresh /\ MergedRequests(p, q).view = q.view
         /\ Needs(q) \subseteq Needs(MergedRequests(p, q))
         /\ p.view = q.view => Needs(p) \subseteq Needs(MergedRequests(p, q))
         /\ p.scope = "unknown" \/ q.scope = "unknown" => MergedRequests(p, q).scope = "unknown"
<1>1. /\ p.scope \in RepositoryChangeScope /\ q.scope \in RepositoryChangeScope
      /\ {p.background, p.manual, q.background, q.manual} \subseteq BOOLEAN /\ q.view \in Views
  BY DEF Refresh
<1> DEFINE s == Merged(p.scope, q.scope)
<1>2. /\ s \in RepositoryChangeScope
      /\ s \in {p.scope, "index", "unknown"} /\ s \in {q.scope, "index", "unknown"}
      /\ s = "index" => p.scope \in {"worktree", "index"} /\ q.scope \in {"worktree", "index"}
      /\ p.scope = "unknown" \/ q.scope = "unknown" => s = "unknown"
  BY <1>1, ScopesMerge
<1>3. MergedRequests(p, q).scope = s /\ MergedRequests(p, q).view = q.view BY DEF MergedRequests
<1>4. MergedRequests(p, q) \in Refresh
  <2>1. (p.background /\ q.background) \in BOOLEAN /\ (p.manual \/ q.manual) \in BOOLEAN OBVIOUS
  <2> HIDE DEF s
  <2> QED BY <1>1, <1>2, <2>1 DEF MergedRequests, Refresh, s
<1> HIDE DEF s
<1>5. Needs(q) \subseteq Needs(MergedRequests(p, q)) BY <1>2, <1>3 DEF Needs
<1>6. p.view = q.view => Needs(p) \subseteq Needs(MergedRequests(p, q)) BY <1>2, <1>3 DEF Needs
<1> QED BY <1>2, <1>3, <1>4, <1>5, <1>6

\* c and d are the cycle and the reads of a repository when a round for q begins; rd were its reads.
Begins(r, q, c, d, rd) ==
  /\ c \in Cycle /\ d \in [Resources -> Read] /\ c.request = q
  /\ \/ c.stage = "fetching" /\ c.awaits = {}
     \/ /\ c.stage = "reading" /\ c.awaits = Needs(q)
        /\ \A res \in Needs(q) : d[res].stage # "none"
        /\ ~c.old => \A res \in Needs(q) : ~(d[res].stage = "looked" /\ d[res].version # world[r][res])
  /\ \A res \in Resources : d[res] = rd[res] \/ (rd[res].stage = "none" /\ d[res].stage = "asked")

LEMMA NoCycleType == NoCycle \in Cycle /\ NoRequest \in Requests /\ NoRequest \notin Refresh /\ NoRead \in Read
<1>1. Unread \in Versions /\ NoRequest \in Requests
  BY RefreshAssumption DEF Unread, Versions, Requests
<1>2. NoRequest \notin Refresh BY DEF NoRequest, Refresh, RepositoryChangeScope
<1> QED BY <1>1, <1>2, RefreshAssumption DEF NoCycle, Cycle, NoRead, Read

LEMMA AskedFacts ==
  ASSUME NEW rd \in [Resources -> Read], NEW need \in SUBSET Resources
  PROVE  /\ Asked(rd, need) \in [Resources -> Read]
         /\ \A res \in need : Asked(rd, need)[res].stage # "none"
         /\ \A res \in Resources : Asked(rd, need)[res] = rd[res] \/ (rd[res].stage = "none" /\ Asked(rd, need)[res].stage = "asked")
<1> DEFINE asked == [NoRead EXCEPT !.stage = "asked"]
<1>1. asked \in Read /\ asked.stage = "asked" BY NoCycleType DEF Read
<1> HIDE DEF asked
<1>2. Asked(rd, need) = [res \in Resources |-> IF res \in need /\ rd[res].stage = "none" THEN asked ELSE rd[res]]
  BY DEF Asked, asked
<1> QED BY <1>1, <1>2

\* A cycle that reads, from now on.
LEMMA ReadingBegins ==
  ASSUME NEW r \in Trees, NEW c \in Cycle, NEW rd \in [Resources -> Read]
  PROVE  /\ Begins(r, c.request, Reading(r, c, rd), Asked(rd, Needs(c.request)), rd)
         /\ Reading(r, c, rd).queued = c.queued
<1> DEFINE n == Reading(r, c, rd)
           d == Asked(rd, Needs(c.request))
           old == JoinsOld(r, rd, Needs(c.request))
<1>1. Needs(c.request) \subseteq Resources BY NeedsFacts
<1>2. /\ d \in [Resources -> Read] /\ \A res \in Needs(c.request) : d[res].stage # "none"
      /\ \A res \in Resources : d[res] = rd[res] \/ (rd[res].stage = "none" /\ d[res].stage = "asked")
  BY <1>1, AskedFacts
<1>3. old \in BOOLEAN /\ (~old => \A res \in Needs(c.request) : ~(rd[res].stage = "looked" /\ rd[res].version # world[r][res]))
  BY DEF JoinsOld
<1>4. Unread \in Versions BY RefreshAssumption DEF Unread, Versions
<1> HIDE DEF old, d
<1>5. n = [c EXCEPT !.stage = "reading", !.awaits = Needs(c.request), !.got = Unread, !.old = old]
  BY DEF Reading, old
<1>6. n \in Cycle /\ n.stage = "reading" /\ n.awaits = Needs(c.request) /\ n.request = c.request /\ n.queued = c.queued /\ n.old = old
  BY <1>1, <1>3, <1>4, <1>5 DEF Cycle
<1>7. ~old => \A res \in Needs(c.request) : ~(d[res].stage = "looked" /\ d[res].version # world[r][res])
  BY <1>1, <1>2, <1>3
<1> QED BY <1>2, <1>6, <1>7 DEF Begins, d

LEMMA RoundBegins ==
  ASSUME NEW r \in Trees, NEW q \in Refresh, NEW rd \in [Resources -> Read]
  PROVE  Begins(r, q, Round(r, q, rd), RoundReads(q, rd), rd) /\ Round(r, q, rd).queued = NoRequest
<1> DEFINE c == [NoCycle EXCEPT !.request = q]
<1>1. c \in Cycle /\ c.request = q /\ c.queued = NoRequest /\ c.awaits = {}
  BY NoCycleType DEF Cycle, Requests, NoCycle
<1> HIDE DEF c
<1>2. Round(r, q, rd) = IF q.manual THEN [c EXCEPT !.stage = "fetching"] ELSE Reading(r, c, rd)
  BY DEF Round, c
<1>3. CASE q.manual
  <2>1. Round(r, q, rd) = [c EXCEPT !.stage = "fetching"] /\ RoundReads(q, rd) = rd
    BY <1>2, <1>3 DEF RoundReads
  <2>2. /\ [c EXCEPT !.stage = "fetching"] \in Cycle /\ [c EXCEPT !.stage = "fetching"].stage = "fetching"
        /\ [c EXCEPT !.stage = "fetching"].request = q /\ [c EXCEPT !.stage = "fetching"].queued = NoRequest
        /\ [c EXCEPT !.stage = "fetching"].awaits = {}
    BY <1>1 DEF Cycle
  <2> QED BY <2>1, <2>2 DEF Begins
<1>4. CASE ~q.manual
  <2>1. Round(r, q, rd) = Reading(r, c, rd) /\ RoundReads(q, rd) = Asked(rd, Needs(c.request))
    BY <1>1, <1>2, <1>4 DEF RoundReads
  <2> QED BY <1>1, <2>1, ReadingBegins
<1> QED BY <1>3, <1>4

\* A round that begins will have read all that it needs, or joined what was too early.
LEMMA BeginCovers ==
  ASSUME NEW r \in Trees, NEW q, NEW rd, Begins(r, q, cycles'[r], reads'[r], rd), q # NoRequest, world' = world
  PROVE  /\ CycleOK(r)' /\ RoundOK(r)' /\ cycles'[r].stage # "none"
         /\ \A res \in Needs(q) : (Again(r, res) \/ Fresh(r, res))' /\ (IsOld(r, res)' => Again(r, res)')
         /\ cycles'[r].stage = "reading" => cycles'[r].awaits = Needs(cycles'[r].request)
<1>1. Needs(q) # {} /\ Needs(q) \subseteq Resources BY NeedsFacts
<1>2. CycleOK(r)' BY <1>1 DEF Begins, CycleOK
<1>3. ASSUME NEW res \in Needs(q) PROVE (Again(r, res) \/ Fresh(r, res))' /\ (IsOld(r, res)' => Again(r, res)')
  BY <1>3 DEF Begins, Again, Fresh, IsOld, Looked
<1>4. RoundOK(r)' BY <1>3 DEF RoundOK, Begins, Again
<1> QED BY <1>2, <1>3, <1>4 DEF Begins

\* What a step on one repository leaves true of the others, and of what is not shown.
Elsewhere(r) ==
  /\ cycles' \in [Trees -> Cycle] /\ reads' \in [Trees -> [Resources -> Read]] /\ world' = world
  /\ \A t \in Trees \ {r} : cycles'[t] = cycles[t] /\ reads'[t] = reads[t]

\* What is read of a repository was read before, or is asked for now.
NothingNew(r) ==
  \A res \in Resources :
    \/ reads'[r][res].stage = reads[r][res].stage /\ reads'[r][res].version = reads[r][res].version
    \/ reads'[r][res].stage \in {"none", "asked"}

\* refresh: the request is merged into the next round, or its round begins.
LEMMA RefreshWithFacts ==
  ASSUME RefreshTyped, NEW r \in Trees, NEW q \in Refresh, NEW a \in AppState, RefreshWith(r, q, a), world' = world
  PROVE  /\ Elsewhere(r) /\ NothingNew(r) /\ CycleOK(r)' /\ cycles'[r].stage # "none"
         /\ app' \in AppState /\ app' = [a EXCEPT !.busy = app'.busy]
         /\ NothingFound(r) => NothingFound(r)'
         /\ \/ /\ cycles[r].stage # "none" /\ reads' = reads
               /\ \E m \in Refresh :
                    /\ cycles'[r] = [cycles[r] EXCEPT !.queued = m] /\ m.view = q.view /\ Needs(q) \subseteq Needs(m)
                    /\ q.scope = "unknown" => m.scope = "unknown"
                    /\ cycles[r].queued # NoRequest /\ cycles[r].queued.view = q.view =>
                         Needs(cycles[r].queued) \subseteq Needs(m)
                    /\ cycles[r].queued # NoRequest /\ cycles[r].queued.scope = "unknown" => m.scope = "unknown"
            \/ /\ cycles[r].stage = "none"
               /\ Begins(r, q, cycles'[r], reads'[r], reads[r]) /\ cycles'[r].queued = NoRequest
<1>1. /\ cycles \in [Trees -> Cycle] /\ reads \in [Trees -> [Resources -> Read]] /\ cycles[r] \in Cycle
      /\ reads[r] \in [Resources -> Read] /\ CycleOK(r)
  BY DEF RefreshTyped
<1>2. Busy(q, a) \in AppState /\ Busy(q, a) = [a EXCEPT !.busy = Busy(q, a).busy] /\ a = [a EXCEPT !.busy = a.busy]
  BY DEF Busy, AppState
<1>3. CASE cycles[r].stage # "none"
  <2> DEFINE old == cycles[r].queued
             m == IF old = NoRequest THEN q ELSE MergedRequests(old, q)
  <2>1. old \in Refresh \/ old = NoRequest BY <1>1 DEF Cycle, Requests
  <2>2. /\ m \in Refresh /\ m.view = q.view /\ Needs(q) \subseteq Needs(m)
        /\ q.scope = "unknown" => m.scope = "unknown"
        /\ old # NoRequest /\ old.view = q.view => Needs(old) \subseteq Needs(m)
        /\ old # NoRequest /\ old.scope = "unknown" => m.scope = "unknown"
    BY <2>1, RequestsMerge
  <2>3. cycles' = [cycles EXCEPT ![r].queued = m] /\ app' = a /\ reads' = reads
    BY <1>3 DEF RefreshWith
  <2> HIDE DEF m
  <2>4. cycles'[r] = [cycles[r] EXCEPT !.queued = m] /\ \A t \in Trees \ {r} : cycles'[t] = cycles[t]
    BY <1>1, <2>3
  <2>5. /\ cycles'[r] \in Cycle /\ cycles'[r].stage = cycles[r].stage /\ cycles'[r].awaits = cycles[r].awaits
        /\ cycles'[r].request = cycles[r].request
    BY <1>1, <2>2, <2>4 DEF Cycle, Requests
  <2>6. cycles' \in [Trees -> Cycle] BY <1>1, <2>3, <2>4, <2>5
  <2>7. CycleOK(r)' /\ (NothingFound(r) => NothingFound(r)')
    BY <1>1, <1>3, <2>3, <2>5 DEF CycleOK, NothingFound, Looked, Intact
  <2>8. Elsewhere(r) /\ NothingNew(r) BY <1>1, <2>3, <2>4, <2>6 DEF Elsewhere, NothingNew
  <2> QED BY <1>2, <1>3, <2>2, <2>3, <2>4, <2>5, <2>7, <2>8
<1>4. CASE cycles[r].stage = "none"
  <2>1. /\ cycles' = [cycles EXCEPT ![r] = Round(r, q, reads[r])]
        /\ reads' = [reads EXCEPT ![r] = RoundReads(q, reads[r])] /\ app' = Busy(q, a)
    BY <1>1, <1>4 DEF RefreshWith
  <2>2. cycles'[r] = Round(r, q, reads[r]) /\ reads'[r] = RoundReads(q, reads[r]) BY <1>1, <2>1
  <2>3. Begins(r, q, cycles'[r], reads'[r], reads[r]) /\ cycles'[r].queued = NoRequest
    BY <1>1, <2>2, RoundBegins
  <2>4. cycles'[r] \in Cycle /\ reads'[r] \in [Resources -> Read] BY <2>3 DEF Begins
  <2>5. Elsewhere(r) /\ NothingNew(r) BY <1>1, <2>1, <2>3, <2>4 DEF Elsewhere, NothingNew, Begins
  <2>6. CycleOK(r)' /\ cycles'[r].stage # "none" /\ (cycles'[r].stage = "reading" => cycles'[r].awaits = Needs(cycles'[r].request))
    BY <2>3, BeginCovers, NoCycleType
  <2>7. NothingFound(r) => NothingFound(r)' BY <2>5, <2>6 DEF NothingFound, NothingNew, Looked
  <2> QED BY <1>2, <1>4, <2>1, <2>3, <2>5, <2>6, <2>7
<1> QED BY <1>3, <1>4

\* The end of a round: there is no cycle any more, or the next round begins.
LEMMA RoundEndsFacts ==
  ASSUME RefreshTyped, NEW r \in Trees, NEW rd \in [Resources -> Read], NEW a \in AppState, RoundEnds(r, rd, a), world' = world,
         \A res \in Resources : rd[res] = reads[r][res] \/ rd[res] = NoRead
  PROVE  /\ Elsewhere(r) /\ NothingNew(r) /\ CycleOK(r)'
         /\ app' \in AppState /\ app' = [a EXCEPT !.busy = app'.busy]
         /\ NothingFound(r) => NothingFound(r)'
         /\ \A res \in Resources : reads'[r][res] = rd[res] \/ reads'[r][res].stage = "asked"
         /\ \/ /\ cycles[r].queued = NoRequest /\ cycles'[r] = NoCycle /\ reads'[r] = rd
            \/ /\ cycles[r].queued \in Refresh
               /\ Begins(r, cycles[r].queued, cycles'[r], reads'[r], rd) /\ cycles'[r].queued = NoRequest
<1>1. /\ cycles \in [Trees -> Cycle] /\ reads \in [Trees -> [Resources -> Read]] /\ cycles[r] \in Cycle
      /\ reads[r] \in [Resources -> Read] /\ CycleOK(r)
  BY DEF RefreshTyped
<1> DEFINE q == cycles[r].queued
           b == IF ~cycles[r].request.background /\ app.tree = r THEN [a EXCEPT !.busy = FALSE] ELSE a
<1>2. b \in AppState /\ b = [a EXCEPT !.busy = b.busy] /\ Busy(q, b) \in AppState /\ Busy(q, b) = [b EXCEPT !.busy = Busy(q, b).busy]
  BY DEF Busy, AppState
<1>3. app' \in AppState /\ app' = [a EXCEPT !.busy = app'.busy]
  <2>1. app' = b \/ app' = Busy(q, b) BY DEF RoundEnds
  <2> HIDE DEF b, q
  <2> QED BY <1>2, <2>1 DEF AppState
<1> HIDE DEF b
<1>4. CASE q = NoRequest
  <2>1. cycles' = [cycles EXCEPT ![r] = NoCycle] /\ reads' = [reads EXCEPT ![r] = rd]
    BY <1>4 DEF RoundEnds
  <2>2. Elsewhere(r) /\ cycles'[r] = NoCycle /\ reads'[r] = rd
    BY <1>1, <2>1, NoCycleType DEF Elsewhere
  <2>3. NothingNew(r) BY <2>2 DEF NothingNew, NoRead
  <2>4. CycleOK(r)' BY <2>2 DEF CycleOK, NoCycle
  <2>5. NothingFound(r) => NothingFound(r)'
    BY <2>2, <2>3 DEF NothingFound, NothingNew, Looked, NoCycle
  <2> QED BY <1>3, <1>4, <2>2, <2>3, <2>4, <2>5
<1>5. CASE q # NoRequest
  <2>1. cycles' = [cycles EXCEPT ![r] = Round(r, q, rd)] /\ reads' = [reads EXCEPT ![r] = RoundReads(q, rd)]
    BY <1>5 DEF RoundEnds
  <2>2. q \in Refresh BY <1>1, <1>5 DEF Cycle, Requests
  <2> HIDE DEF q
  <2>3. cycles'[r] = Round(r, q, rd) /\ reads'[r] = RoundReads(q, rd) BY <1>1, <2>1
  <2>4. Begins(r, q, cycles'[r], reads'[r], rd) /\ cycles'[r].queued = NoRequest
    BY <2>2, <2>3, RoundBegins
  <2>5. cycles'[r] \in Cycle /\ reads'[r] \in [Resources -> Read]
        /\ \A res \in Resources : reads'[r][res] = rd[res] \/ (rd[res].stage = "none" /\ reads'[r][res].stage = "asked")
    BY <2>4 DEF Begins
  <2>6. Elsewhere(r) BY <1>1, <2>1, <2>5 DEF Elsewhere
  <2>7. NothingNew(r) BY <2>5 DEF NothingNew, NoRead
  <2>8. CycleOK(r)' /\ cycles'[r].stage # "none" /\ (cycles'[r].stage = "reading" => cycles'[r].awaits = Needs(cycles'[r].request))
    BY <1>5, <2>4, BeginCovers
  <2>9. NothingFound(r) => NothingFound(r)' BY <2>7, <2>8 DEF NothingFound, NothingNew, Looked
  <2> QED BY <1>3, <1>5, <2>2, <2>4, <2>5, <2>6, <2>7, <2>8, <2>9 DEF q
<1> QED BY <1>4, <1>5

\* What a step on one repository leaves typed.
LEMMA StaysTyped ==
  ASSUME RefreshTyped, NEW r \in Trees, Elsewhere(r), CycleOK(r)',
         app' \in AppState, reports' \subseteq reports, link' \in {"up", "down", "back"},
         behind' \subseteq behind \cup {r}, moves' \in 0..MaxMoves, readFaults' \in 0..MaxReadFaults
  PROVE  RefreshTyped'
<1>1. ASSUME NEW t \in Trees PROVE CycleOK(t)' BY <1>1 DEF RefreshTyped, Elsewhere, CycleOK
<1> QED BY <1>1 DEF RefreshTyped, Elsewhere

\* What a step on one repository, which finds nothing, leaves true of the connection.
LEMMA LinkStays ==
  ASSUME RefreshTyped, LinkOK, NEW r \in Trees, Elsewhere(r), NothingNew(r), NothingFound(r) => NothingFound(r)',
         (link = "down") <=> (link' = "down")
  PROVE  LinkOK'
<1>1. ASSUME link' = "down", NEW t \in Trees PROVE NothingFound(t)'
  <2>1. NothingFound(t) BY <1>1 DEF LinkOK
  <2>2. CASE t # r BY <2>1, <2>2 DEF Elsewhere, NothingFound, Looked, Intact
  <2> QED BY <2>1, <2>2
<1>2. ASSUME link' # "down", NEW t \in Trees, NEW res \in Resources PROVE reads'[t][res].stage # "lost"
  <2>1. reads[t][res].stage # "lost" BY <1>2 DEF LinkOK
  <2> QED BY <2>1 DEF Elsewhere, NothingNew
<1> QED BY <1>1, <1>2 DEF LinkOK

\* The step leaves the cycle and the repository that is shown as they are, and finds nothing old.
LEMMA StaysShown ==
  ASSUME NEW t \in Trees, app.tree = t, ShownOK(t), RoundOK(t), ViewOK(t),
         world'[t] = world[t], cycles'[t] = cycles[t],
         \A res \in Resources : IsOld(t, res)' => IsOld(t, res),
         Intact(t)' => Intact(t),
         \A scope \in ChangeKinds : <<t, scope>> \in reports => <<t, scope>> \in reports',
         link # "up" => link' # "up" \/ t \in behind',
         t \in behind => t \in behind',
         app'.view = app.view, app.snapshot = t => app'.snapshot = t,
         \A res \in ShownResources : \/ app'.has[res] = app.has[res] \/ app'.has[res] = world[t][res]
                                     \/ Due(t, res) \/ Again(t, res) \/ t \in behind
  PROVE  ShownOK(t)' /\ RoundOK(t)' /\ ViewOK(t)'
<1>0. ShownResources' = ShownResources /\ ShownResources \subseteq Resources
  BY DEF ShownResources, Resources
<1>1. ASSUME NEW res \in Resources
      PROVE  /\ (Told(t, res) => Told(t, res)') /\ (Again(t, res) => Again(t, res)')
             /\ Fresh(t, res) => Fresh(t, res)'
             /\ t \notin behind' => (Due(t, res) => Due(t, res)')
  BY <1>1 DEF Told, Again, Fresh, Due
<1>2. RoundOK(t)' BY <1>0, <1>1 DEF RoundOK
<1>3. ViewOK(t)' BY DEF ViewOK
<1>4. ShownOK(t)'
  <2> SUFFICES ASSUME t \notin behind'
               PROVE  /\ (app.snapshot = t \/ cycles[t].stage # "none" \/ link # "up")'
                      /\ \A res \in ShownResources :
                           /\ (app.has[res] = world[t][res] \/ Due(t, res) \/ Again(t, res) \/ Fresh(t, res))'
                           /\ (IsOld(t, res) => Due(t, res) \/ Again(t, res))'
    BY <1>0 DEF ShownOK
  <2>1. /\ app.snapshot = t \/ cycles[t].stage # "none" \/ link # "up"
        /\ \A res \in ShownResources :
             /\ app.has[res] = world[t][res] \/ Due(t, res) \/ Again(t, res) \/ Fresh(t, res)
             /\ IsOld(t, res) => Due(t, res) \/ Again(t, res)
    BY DEF ShownOK
  <2>2. (app.snapshot = t \/ cycles[t].stage # "none" \/ link # "up")' BY <2>1
  <2>3. ASSUME NEW res \in ShownResources
        PROVE  /\ (app.has[res] = world[t][res] \/ Due(t, res) \/ Again(t, res) \/ Fresh(t, res))'
               /\ (IsOld(t, res) => Due(t, res) \/ Again(t, res))'
    <3>1. res \in Resources BY <1>0, <2>3
    <3>2. /\ app.has[res] = world[t][res] \/ Due(t, res) \/ Again(t, res) \/ Fresh(t, res)
          /\ IsOld(t, res) => Due(t, res) \/ Again(t, res)
      BY <2>1, <2>3
    <3>0. /\ Due(t, res) => Due(t, res)'
          /\ Again(t, res) => Again(t, res)'
          /\ Fresh(t, res) => Fresh(t, res)'
          /\ IsOld(t, res)' => IsOld(t, res)
      BY <1>1, <3>1
    <3>3. IsOld(t, res)' => Due(t, res)' \/ Again(t, res)' BY <3>0, <3>2
    <3>4. app'.has[res] = world'[t][res] \/ Due(t, res)' \/ Again(t, res)' \/ Fresh(t, res)'
      <4>1. \/ app'.has[res] = app.has[res] \/ app'.has[res] = world[t][res]
            \/ Due(t, res) \/ Again(t, res)
        BY <2>3
      <4> QED BY <3>0, <3>2, <4>1
    <3> QED BY <3>3, <3>4
  <2> QED BY <2>2, <2>3
<1> QED BY <1>2, <1>3, <1>4

\* A refresh of everything covers whatever is shown of the repository.
LEMMA FullCovers ==
  ASSUME RefreshTyped, NEW r \in Trees, NEW q \in Refresh, NEW a \in AppState, RefreshWith(r, q, a), world' = world,
         q.scope = "unknown", q.view = a.view
  PROVE  ShownOK(r)' /\ RoundOK(r)' /\ ViewOK(r)'
<1>1. cycles'[r].stage # "none" /\ app'.view = a.view
  <2>1. app' = [a EXCEPT !.busy = app'.busy] /\ cycles'[r].stage # "none" BY RefreshWithFacts
  <2> QED BY <2>1 DEF AppState
<1>2. \A n : n.scope = "unknown" /\ n.view = app'.view => ShownResources' \subseteq Needs(n)
  BY DEF ShownResources, Needs
<1>3. CASE \E m \in Refresh : cycles'[r] = [cycles[r] EXCEPT !.queued = m] /\ m.view = q.view /\ m.scope = "unknown"
  <2>1. PICK m \in Refresh : cycles'[r] = [cycles[r] EXCEPT !.queued = m] /\ m.view = q.view /\ m.scope = "unknown"
    BY <1>3
  <2>2. cycles'[r].queued = m /\ m # NoRequest BY <2>1, NoCycleType DEF RefreshTyped, Cycle
  <2>3. \A res \in ShownResources' : Told(r, res)' BY <1>1, <1>2, <2>1, <2>2 DEF Told
  <2>4. ShownOK(r)' BY <1>1, <2>3 DEF ShownOK, Due
  <2>5. RoundOK(r)' BY <2>3 DEF RoundOK
  <2>6. ViewOK(r)' BY <1>1, <2>1, <2>2 DEF ViewOK
  <2> QED BY <2>4, <2>5, <2>6
<1>4. CASE Begins(r, q, cycles'[r], reads'[r], reads[r]) /\ cycles'[r].queued = NoRequest
  <2>1. RoundOK(r)' /\ \A res \in Needs(q) : (Again(r, res) \/ Fresh(r, res))' /\ (IsOld(r, res)' => Again(r, res)')
    BY <1>4, BeginCovers, NoCycleType
  <2>2. ShownResources' \subseteq Needs(q) BY <1>1, <1>2
  <2>3. ShownOK(r)' BY <1>1, <2>1, <2>2 DEF ShownOK
  <2>4. ViewOK(r)' BY <1>1, <1>4 DEF ViewOK, Begins
  <2> QED BY <2>1, <2>3, <2>4
<1>5. \/ \E m \in Refresh : cycles'[r] = [cycles[r] EXCEPT !.queued = m] /\ m.view = q.view /\ m.scope = "unknown"
      \/ Begins(r, q, cycles'[r], reads'[r], reads[r]) /\ cycles'[r].queued = NoRequest
  BY RefreshWithFacts
<1> QED BY <1>3, <1>4, <1>5

\* A refresh of a part covers that part; the rest stays as it was, or known to be read again.
LEMMA PartCovers ==
  ASSUME RefreshTyped, NEW r \in Trees, NEW q \in Refresh, RefreshWith(r, q, app), world' = world,
         q.view = app.view, link' = link, behind' = behind, app.tree = r, ShownOK(r), RoundOK(r), ViewOK(r),
         \A scope \in ChangeKinds, res \in ShownResources :
           <<r, scope>> \in reports /\ res \in ChangedBy(scope) => <<r, scope>> \in reports' \/ res \in Needs(q)
  PROVE  ShownOK(r)' /\ RoundOK(r)' /\ ViewOK(r)'
<1>1. cycles'[r].stage # "none" /\ app'.view = app.view /\ app'.has = app.has /\ app'.snapshot = app.snapshot /\ app \in AppState
  <2>1. app \in AppState BY DEF RefreshTyped
  <2>2. app' = [app EXCEPT !.busy = app'.busy] /\ cycles'[r].stage # "none"
    BY <2>1, RefreshWithFacts
  <2> QED BY <2>1, <2>2 DEF AppState
<1>2. ShownResources' = ShownResources /\ ShownResources \subseteq Resources
  BY <1>1 DEF ShownResources, Resources
<1>3. CASE /\ cycles[r].stage # "none" /\ reads' = reads
           /\ \E m \in Refresh :
                /\ cycles'[r] = [cycles[r] EXCEPT !.queued = m] /\ m.view = q.view /\ Needs(q) \subseteq Needs(m)
                /\ cycles[r].queued # NoRequest /\ cycles[r].queued.view = q.view =>
                     Needs(cycles[r].queued) \subseteq Needs(m)
                /\ cycles[r].queued # NoRequest /\ cycles[r].queued.scope = "unknown" => m.scope = "unknown"
  <2>1. PICK m \in Refresh :
                /\ cycles'[r] = [cycles[r] EXCEPT !.queued = m] /\ m.view = q.view /\ Needs(q) \subseteq Needs(m)
                /\ cycles[r].queued # NoRequest /\ cycles[r].queued.view = q.view =>
                     Needs(cycles[r].queued) \subseteq Needs(m)
                /\ cycles[r].queued # NoRequest /\ cycles[r].queued.scope = "unknown" => m.scope = "unknown"
    BY <1>3
  <2>2. cycles[r] \in Cycle BY DEF RefreshTyped
  <2>3. /\ cycles'[r].queued = m /\ m # NoRequest /\ cycles'[r].stage = cycles[r].stage
        /\ cycles'[r].request = cycles[r].request /\ cycles'[r].awaits = cycles[r].awaits
        /\ cycles'[r].got = cycles[r].got /\ cycles'[r].old = cycles[r].old
    BY <2>1, <2>2, NoCycleType DEF Cycle
  <2>4. cycles[r].queued # NoRequest => Needs(cycles[r].queued) \subseteq Needs(m)
    BY <2>1 DEF ViewOK
  <2>5. ASSUME NEW res \in ShownResources PROVE Told(r, res) => Told(r, res)'
    <3>1. res \in Needs(q) => Told(r, res)' BY <2>1, <2>3 DEF Told
    <3> QED BY <2>3, <2>4, <2>5, <3>1 DEF Told
  <2>6. ASSUME NEW res \in ShownResources
        PROVE  /\ (Due(r, res) => Due(r, res)') /\ (Again(r, res) => Again(r, res)')
               /\ (Fresh(r, res) => Fresh(r, res)') /\ (IsOld(r, res)' => IsOld(r, res))
    BY <1>3, <2>3, <2>5, <2>6 DEF Due, Again, Fresh, IsOld, Looked
  <2>7. RoundOK(r)' BY <1>2, <1>3, <2>3, <2>5, <2>6 DEF RoundOK, Intact
  <2>8. ViewOK(r)' BY <1>1, <2>1, <2>3 DEF ViewOK
  <2>9. ShownOK(r)' BY <1>1, <1>2, <2>3, <2>6 DEF ShownOK
  <2> QED BY <2>7, <2>8, <2>9
<1>4. CASE /\ cycles[r].stage = "none"
           /\ Begins(r, q, cycles'[r], reads'[r], reads[r]) /\ cycles'[r].queued = NoRequest
  <2>1. RoundOK(r)' /\ \A res \in Needs(q) : (Again(r, res) \/ Fresh(r, res))' /\ (IsOld(r, res)' => Again(r, res)')
    BY <1>4, BeginCovers, NoCycleType
  <2>2. cycles[r].queued = NoRequest BY <1>4 DEF RefreshTyped, CycleOK
  <2>3. ASSUME NEW res \in ShownResources, res \notin Needs(q)
        PROVE  /\ (Due(r, res) => Due(r, res)') /\ (IsOld(r, res)' => IsOld(r, res)) /\ ~Again(r, res) /\ ~Fresh(r, res)
    <3>1. Told(r, res) => Told(r, res)' BY <2>2, <2>3 DEF Told
    <3>2. IsOld(r, res)' => IsOld(r, res) BY <1>2, <1>4, <2>3 DEF Begins, IsOld, Looked
    <3> QED BY <1>4, <3>1, <3>2 DEF Due, Again, Fresh
  <2>4. ShownOK(r)' BY <1>1, <1>2, <2>1, <2>3 DEF ShownOK
  <2>5. ViewOK(r)' BY <1>1, <1>4 DEF ViewOK, Begins
  <2> QED BY <2>1, <2>4, <2>5
<1>5. \/ /\ cycles[r].stage # "none" /\ reads' = reads
         /\ \E m \in Refresh :
              /\ cycles'[r] = [cycles[r] EXCEPT !.queued = m] /\ m.view = q.view /\ Needs(q) \subseteq Needs(m)
              /\ q.scope = "unknown" => m.scope = "unknown"
              /\ cycles[r].queued # NoRequest /\ cycles[r].queued.view = q.view =>
                   Needs(cycles[r].queued) \subseteq Needs(m)
              /\ cycles[r].queued # NoRequest /\ cycles[r].queued.scope = "unknown" => m.scope = "unknown"
      \/ /\ cycles[r].stage = "none"
         /\ Begins(r, q, cycles'[r], reads'[r], reads[r]) /\ cycles'[r].queued = NoRequest
  BY <1>1, RefreshWithFacts
<1> QED BY <1>3, <1>4, <1>5

\* The round of what is shown ends: the next one covers what it is to read.
LEMMA NextCovers ==
  ASSUME RefreshTyped, NEW r \in Trees, NEW rd \in [Resources -> Read], NEW a \in AppState, RoundEnds(r, rd, a), world' = world,
         \A res \in Resources : rd[res] = reads[r][res] \/ rd[res] = NoRead,
         a.view = app.view, ViewOK(r)
  PROVE  /\ RoundOK(r)' /\ ViewOK(r)'
         /\ cycles[r].queued # NoRequest =>
              /\ cycles'[r].stage # "none"
              /\ \A res \in Needs(cycles[r].queued) : (Again(r, res) \/ Fresh(r, res))' /\ (IsOld(r, res)' => Again(r, res)')
         /\ \A res \in Resources : IsOld(r, res)' => IsOld(r, res)
<1>1. app'.view = app.view
  <2>1. app' = [a EXCEPT !.busy = app'.busy] BY RoundEndsFacts
  <2> QED BY <2>1 DEF AppState
<1>2. \A res \in Resources : IsOld(r, res)' => IsOld(r, res)
  <2>1. \A res \in Resources : reads'[r][res] = rd[res] \/ reads'[r][res].stage = "asked"
    BY RoundEndsFacts
  <2> QED BY <2>1 DEF IsOld, Looked, NoRead
<1>3. CASE cycles[r].queued = NoRequest /\ cycles'[r] = NoCycle
  BY <1>2, <1>3 DEF RoundOK, ViewOK, NoCycle
<1>4. CASE /\ cycles[r].queued \in Refresh
           /\ Begins(r, cycles[r].queued, cycles'[r], reads'[r], rd) /\ cycles'[r].queued = NoRequest
  <2>1. /\ RoundOK(r)' /\ cycles'[r].stage # "none"
        /\ \A res \in Needs(cycles[r].queued) : (Again(r, res) \/ Fresh(r, res))' /\ (IsOld(r, res)' => Again(r, res)')
    BY <1>4, BeginCovers, NoCycleType
  <2>2. ViewOK(r)' BY <1>1, <1>4, NoCycleType DEF ViewOK, Begins
  <2> QED BY <1>2, <2>1, <2>2
<1> QED BY <1>3, <1>4, RoundEndsFacts

\* The cycle of what is shown begins to read: for the first time, or again.
LEMMA ReadsOn ==
  ASSUME RefreshTyped, NEW r \in Trees, cycles[r].stage \in {"fetching", "pausing"},
         cycles' = [cycles EXCEPT ![r] = Reading(r, @, reads[r])],
         reads' = [reads EXCEPT ![r] = Asked(@, Needs(cycles[r].request))], UNCHANGED <<worldVars, app, behind>>
  PROVE  /\ Elsewhere(r) /\ NothingNew(r) /\ CycleOK(r)' /\ (NothingFound(r) => NothingFound(r)')
         /\ app.tree = r /\ ShownOK(r) /\ ViewOK(r) => ShownOK(r)' /\ RoundOK(r)' /\ ViewOK(r)'
<1>1. /\ cycles \in [Trees -> Cycle] /\ reads \in [Trees -> [Resources -> Read]] /\ cycles[r] \in Cycle
      /\ reads[r] \in [Resources -> Read] /\ CycleOK(r)
  BY DEF RefreshTyped
<1> DEFINE q == cycles[r].request
<1>2. q # NoRequest BY <1>1 DEF CycleOK
<1>3. cycles'[r] = Reading(r, cycles[r], reads[r]) /\ reads'[r] = Asked(reads[r], Needs(q)) BY <1>1
<1>4. Begins(r, q, cycles'[r], reads'[r], reads[r]) /\ cycles'[r].queued = cycles[r].queued
  BY <1>1, <1>3, ReadingBegins
<1>5. cycles'[r].stage = "reading" /\ cycles'[r].request = q BY <1>1, <1>3 DEF Reading, Cycle
<1>6. cycles'[r] \in Cycle /\ reads'[r] \in [Resources -> Read]
      /\ \A res \in Resources : reads'[r][res] = reads[r][res] \/ (reads[r][res].stage = "none" /\ reads'[r][res].stage = "asked")
  BY <1>4 DEF Begins
<1>7. Elsewhere(r) /\ NothingNew(r) BY <1>1, <1>6 DEF Elsewhere, NothingNew, worldVars
<1>8. world' = world /\ reports' = reports /\ link' = link BY DEF worldVars
<1>9. /\ CycleOK(r)' /\ RoundOK(r)' /\ cycles'[r].awaits = Needs(q)
      /\ \A res \in Needs(q) : (Again(r, res) \/ Fresh(r, res))' /\ (IsOld(r, res)' => Again(r, res)')
  BY <1>2, <1>4, <1>5, <1>8, BeginCovers
<1>10. NothingFound(r) => NothingFound(r)' BY <1>5, <1>7, <1>9 DEF NothingFound, NothingNew, Looked
<1>11. ASSUME app.tree = r, ShownOK(r), ViewOK(r) PROVE ShownOK(r)' /\ ViewOK(r)'
  <2>1. ShownResources' = ShownResources /\ ShownResources \subseteq Resources
    BY DEF ShownResources, Resources
  <2>2. ViewOK(r)' BY <1>4, <1>5, <1>11 DEF ViewOK
  <2>3. ASSUME NEW res \in ShownResources, res \notin Needs(q)
        PROVE  /\ (Due(r, res) => Due(r, res)') /\ (IsOld(r, res)' => IsOld(r, res)) /\ ~Again(r, res) /\ ~Fresh(r, res)
    BY <1>4, <1>6, <1>8, <2>1, <2>3 DEF Due, Told, Again, Fresh, IsOld, Looked
  <2>4. ShownOK(r)' BY <1>5, <1>8, <1>9, <1>11, <2>1, <2>3 DEF ShownOK
  <2> QED BY <2>2, <2>4
<1> QED BY <1>7, <1>9, <1>10, <1>11

\* The tab begins with nothing.
LEMMA RefreshStarts == RefreshInit => RefreshInv
<1> SUFFICES ASSUME RefreshInit PROVE RefreshInv
  OBVIOUS
<1>1. /\ Unread \in Versions /\ Unread \in [Resources -> 0..MaxVersions]
      /\ 0 \in 0..MaxMoves /\ 0 \in 0..MaxReadFaults
  BY RefreshAssumption DEF Unread, Versions
<1>2. (CHOOSE v \in Views : TRUE) \in Views BY RefreshAssumption
<1>3. /\ world \in [Trees -> Versions] /\ reads \in [Trees -> [Resources -> Read]] /\ cycles \in [Trees -> Cycle]
      /\ app \in AppState /\ \A r \in Trees : CycleOK(r)
  <2>1. world \in [Trees -> Versions] /\ reads \in [Trees -> [Resources -> Read]] /\ cycles \in [Trees -> Cycle]
    BY <1>1, NoCycleType DEF RefreshInit
  <2>2. app \in AppState BY <1>1, <1>2 DEF RefreshInit, AppState
  <2>3. \A r \in Trees : CycleOK(r) BY DEF RefreshInit, CycleOK, NoCycle
  <2> QED BY <2>1, <2>2, <2>3
<1>4. RefreshTyped BY <1>1, <1>3 DEF RefreshTyped, RefreshInit
<1>5. LinkOK BY DEF LinkOK, RefreshInit, NoRead
<1>6. BelongsOK /\ app.tree \notin Trees BY RefreshAssumption DEF BelongsOK, RefreshInit, Resources
<1> QED BY <1>4, <1>5, <1>6 DEF RefreshInv

\* The server reads: what it finds is how things are.
LEMMA LooksStep ==
  ASSUME RefreshInv, NEW r \in Trees, NEW res \in Resources, Looks(r, res)
  PROVE  RefreshInv'
<1>1. /\ RefreshTyped /\ reads \in [Trees -> [Resources -> Read]] /\ world[r][res] \in 0..MaxVersions /\ LinkOK /\ link # "down"
      /\ world \in [Trees -> Versions] /\ CycleOK(r)
  BY DEF RefreshInv, RefreshTyped, Looks, Versions
<1>2. /\ reads' = [reads EXCEPT ![r][res].stage = "looked", ![r][res].version = world[r][res]]
      /\ UNCHANGED <<world, reports, link, cycles, app, behind, moves, readFaults>>
  BY DEF Looks, worldVars
<1>3. /\ reads' \in [Trees -> [Resources -> Read]] /\ (\A t \in Trees \ {r} : reads'[t] = reads[t])
      /\ reads'[r][res].stage = "looked" /\ reads'[r][res].version = world[r][res]
      /\ \A x \in Resources \ {res} : reads'[r][x] = reads[r][x]
  <2> DEFINE e == [[reads[r][res] EXCEPT !.stage = "looked"] EXCEPT !.version = world[r][res]]
  <2>1. reads[r] \in [Resources -> Read] /\ reads[r][res] \in Read BY <1>1
  <2>2. e \in Read /\ e.stage = "looked" /\ e.version = world[r][res] BY <1>1, <2>1 DEF Read
  <2>3. reads' = [reads EXCEPT ![r] = [@ EXCEPT ![res] = e]] BY <1>1, <1>2, <2>1 DEF Read
  <2> HIDE DEF e
  <2> QED BY <1>1, <2>1, <2>2, <2>3
<1>4. Elsewhere(r) BY <1>1, <1>2, <1>3 DEF RefreshTyped, Elsewhere
<1>5. CycleOK(r)'
  <2>1. cycles'[r] = cycles[r] /\ cycles[r].awaits \subseteq Resources
    BY <1>1, <1>2, NeedsFacts DEF CycleOK
  <2> QED BY <1>1, <1>3, <2>1 DEF CycleOK
<1>6. RefreshTyped' BY <1>1, <1>2, <1>4, <1>5, StaysTyped DEF RefreshTyped
<1>7. LinkOK' BY <1>1, <1>2, <1>3 DEF LinkOK
<1>8. BelongsOK' BY <1>2 DEF RefreshInv, BelongsOK
<1>9. ASSUME NEW t \in Trees, app'.tree = t PROVE ShownOK(t)' /\ RoundOK(t)' /\ ViewOK(t)'
  <2>1. app.tree = t /\ ShownOK(t) /\ RoundOK(t) /\ ViewOK(t) BY <1>2, <1>9 DEF RefreshInv
  <2>2. \A x \in Resources : IsOld(t, x)' => IsOld(t, x) BY <1>2, <1>3, <2>1 DEF IsOld, Looked
  <2>3. Intact(t)' => Intact(t)
    <3>1. cycles[t].awaits \subseteq Resources BY <1>1, <2>1 DEF RefreshTyped, Cycle
    <3> QED BY <1>1, <2>1, <3>1 DEF Intact, LinkOK
  <2> QED BY <1>2, <2>1, <2>2, <2>3, StaysShown
<1> QED BY <1>6, <1>7, <1>8, <1>9 DEF RefreshInv

\* refreshFilesOnly takes what was read of the repository that is shown, and nothing else.
LEMMA PolledFacts ==
  ASSUME RefreshTyped, NEW r \in Trees, NEW res \in Resources
  PROVE  /\ Polled(r, res, app) \in AppState /\ Polled(r, res, app).tree = app.tree /\ Polled(r, res, app).view = app.view
         /\ Polled(r, res, app).snapshot = app.snapshot
         /\ \A x \in Resources : \/ Polled(r, res, app).has[x] = app.has[x]
                                 \/ x = res /\ app.tree = r /\ Polled(r, res, app).has[x] = reads[r][res].version
         /\ \A x \in Resources : Polled(r, res, app).of[x] \in {app.of[x], app.tree}
<1> DEFINE v == reads[r][res].version
<1>1. v \in 0..MaxVersions /\ app \in AppState BY DEF RefreshTyped, Read
<1>2. CASE reads[r][res].polled /\ app.tree = r
  <2>1. Polled(r, res, app) = [app EXCEPT !.has = [@ EXCEPT ![res] = v], !.of = [@ EXCEPT ![res] = r]]
    BY <1>2 DEF Polled
  <2>2. app.has \in Versions /\ app.of \in [Resources -> Trees \cup {NoTree}] BY <1>1 DEF AppState
  <2>3. /\ [app.has EXCEPT ![res] = v] \in Versions
        /\ [app.of EXCEPT ![res] = r] \in [Resources -> Trees \cup {NoTree}]
    BY <1>1, <2>2 DEF Versions
  <2>4. /\ \A x \in Resources : [app.has EXCEPT ![res] = v][x] = IF x = res THEN v ELSE app.has[x]
        /\ \A x \in Resources : [app.of EXCEPT ![res] = r][x] = IF x = res THEN r ELSE app.of[x]
    BY <2>2 DEF Versions
  <2> HIDE DEF v
  <2>5. /\ Polled(r, res, app).has = [app.has EXCEPT ![res] = v] /\ Polled(r, res, app).of = [app.of EXCEPT ![res] = r]
        /\ Polled(r, res, app) \in AppState /\ Polled(r, res, app).tree = app.tree /\ Polled(r, res, app).view = app.view
        /\ Polled(r, res, app).snapshot = app.snapshot
    BY <1>1, <2>1, <2>3 DEF AppState
  <2> QED BY <1>2, <2>4, <2>5 DEF v
<1>3. CASE ~(reads[r][res].polled /\ app.tree = r) BY <1>1, <1>3 DEF Polled
<1> QED BY <1>2, <1>3

\* The snapshot of a round is what the round has read, of the repository that is shown.
LEMMA AppliedFacts ==
  ASSUME RefreshTyped, NEW r \in Trees, NEW got \in Versions, NEW a \in AppState, a.tree = app.tree
  PROVE  /\ Applied(r, got, a) \in AppState /\ Applied(r, got, a).tree = app.tree /\ Applied(r, got, a).view = a.view
         /\ app.tree # r => Applied(r, got, a) = a
         /\ app.tree = r =>
              /\ Applied(r, got, a).snapshot = r
              /\ \A x \in Resources :
                   /\ x \in Needs(cycles[r].request) => Applied(r, got, a).has[x] = got[x] /\ Applied(r, got, a).of[x] = r
                   /\ x \notin Needs(cycles[r].request) => Applied(r, got, a).has[x] = a.has[x] /\ Applied(r, got, a).of[x] = a.of[x]
<1>1. CASE app.tree # r BY <1>1 DEF Applied
<1>2. CASE app.tree = r
  <2> DEFINE need == Needs(cycles[r].request)
             has == [res \in Resources |-> IF res \in need THEN got[res] ELSE a.has[res]]
             of == [res \in Resources |-> IF res \in need THEN r ELSE a.of[res]]
  <2>1. has \in Versions /\ of \in [Resources -> Trees \cup {NoTree}] BY DEF AppState, Versions
  <2>2. /\ \A x \in Resources : has[x] = IF x \in need THEN got[x] ELSE a.has[x]
        /\ \A x \in Resources : of[x] = IF x \in need THEN r ELSE a.of[x]
    OBVIOUS
  <2>3. Applied(r, got, a) = [a EXCEPT !.snapshot = r, !.has = has, !.of = of]
    BY <1>2 DEF Applied, AppState
  <2> HIDE DEF has, of, need
  <2>4. /\ Applied(r, got, a) \in AppState /\ Applied(r, got, a).tree = a.tree /\ Applied(r, got, a).view = a.view
        /\ Applied(r, got, a).snapshot = r /\ Applied(r, got, a).has = has /\ Applied(r, got, a).of = of
    BY <2>1, <2>3 DEF AppState
  <2> QED BY <1>2, <2>2, <2>4 DEF need
<1> QED BY <1>1, <1>2

\* What is taken of an answer is of the repository that is shown.
LEMMA AnswersBelong ==
  ASSUME RefreshInv, NEW r \in Trees, NEW res \in Resources, NEW got \in Versions
  PROVE  LET p == Polled(r, res, app)
             a == Applied(r, got, p)
         IN  /\ p.snapshot \in {p.tree, NoTree} /\ p.of["files"] \in {p.tree, NoTree}
             /\ p.snapshot # NoTree => p.of["status"] = p.tree
             /\ a.snapshot \in {a.tree, NoTree} /\ a.of["files"] \in {a.tree, NoTree}
             /\ a.snapshot # NoTree => a.of["status"] = a.tree
<1> DEFINE p == Polled(r, res, app)
           a == Applied(r, got, p)
<1>1. RefreshTyped /\ BelongsOK /\ {"status", "files"} \subseteq Resources
  BY DEF RefreshInv, Resources
<1>2. /\ p \in AppState /\ p.tree = app.tree /\ p.snapshot = app.snapshot
      /\ \A x \in Resources : p.of[x] \in {app.of[x], app.tree}
  BY <1>1, PolledFacts
<1>3. /\ p.snapshot \in {p.tree, NoTree} /\ p.of["files"] \in {p.tree, NoTree}
      /\ p.snapshot # NoTree => p.of["status"] = p.tree
  BY <1>1, <1>2 DEF BelongsOK
<1>4. /\ a.tree = app.tree /\ (app.tree # r => a = p)
      /\ app.tree = r => a.snapshot = r /\ a.of["status"] = r /\ a.of["files"] \in {r, p.of["files"]}
  <2>1. "status" \in Needs(cycles[r].request) BY NeedsFacts
  <2> HIDE DEF p
  <2> QED BY <1>1, <1>2, <2>1, AppliedFacts
<1> HIDE DEF p, a
<1>5. /\ a.snapshot \in {a.tree, NoTree} /\ a.of["files"] \in {a.tree, NoTree}
      /\ a.snapshot # NoTree => a.of["status"] = a.tree
  BY <1>2, <1>3, <1>4
<1> QED BY <1>3, <1>5 DEF p, a

\* What is known when a read is answered.
LEMMA AnswerFacts ==
  ASSUME RefreshInv, NEW r \in Trees, NEW res \in Resources, Answers(r, res)
  PROVE  /\ cycles[r] \in Cycle /\ reads[r] \in [Resources -> Read] /\ CycleOK(r) /\ Looked(r, res)
         /\ [cycles[r].got EXCEPT ![res] = reads[r][res].version] \in Versions
         /\ [reads[r] EXCEPT ![res] = NoRead] \in [Resources -> Read]
         /\ link # "down" /\ \A x \in Resources : reads[r][x].stage # "lost"
         /\ Intact(r) /\ UNCHANGED <<world, reports, link, moves, readFaults>>
<1>1. /\ cycles[r] \in Cycle /\ reads[r] \in [Resources -> Read] /\ CycleOK(r) /\ LinkOK
  BY DEF RefreshInv, RefreshTyped
<1>2. Looked(r, res) BY DEF Answers, Looked
<1>3. [cycles[r].got EXCEPT ![res] = reads[r][res].version] \in Versions
  BY <1>1 DEF Cycle, Versions, Read
<1>4. [reads[r] EXCEPT ![res] = NoRead] \in [Resources -> Read] BY <1>1, NoCycleType
<1>5. link # "down" /\ \A x \in Resources : reads[r][x].stage # "lost"
  BY <1>1, <1>2 DEF LinkOK, NothingFound
<1>6. Intact(r) BY <1>1, <1>5 DEF Intact, Cycle
<1> QED BY <1>1, <1>2, <1>3, <1>4, <1>5, <1>6 DEF Answers, worldVars

\* The answer that ends the round of what is shown.
LEMMA LastAnswerShows ==
  ASSUME RefreshInv, NEW r \in Trees, NEW res \in Resources, Answers(r, res), cycles[r].awaits = {res}, app.tree = r
  PROVE  ShownOK(r)' /\ RoundOK(r)' /\ ViewOK(r)'
<1> DEFINE got == [cycles[r].got EXCEPT ![res] = reads[r][res].version]
           rd == [reads[r] EXCEPT ![res] = NoRead]
           p == Polled(r, res, app)
           a == Applied(r, got, p)
           q == cycles[r].queued
           need == Needs(cycles[r].request)
<1>1. RefreshTyped /\ app \in AppState /\ ShownOK(r) /\ RoundOK(r) /\ ViewOK(r)
  BY DEF RefreshInv, RefreshTyped
<1>2. /\ cycles[r] \in Cycle /\ reads[r] \in [Resources -> Read] /\ CycleOK(r) /\ Looked(r, res)
      /\ got \in Versions /\ rd \in [Resources -> Read] /\ Intact(r) /\ world' = world /\ reports' = reports /\ link' = link
  BY AnswerFacts
<1>3. RoundEnds(r, rd, a) /\ behind' = BehindAfter(r) BY DEF Answers
<1>4. /\ p \in AppState /\ p.tree = app.tree /\ p.view = app.view
      /\ \A x \in Resources \ {res} : p.has[x] = app.has[x]
  BY <1>1, PolledFacts
<1>5. \A x \in Resources : got[x] = IF x = res THEN reads[r][res].version ELSE cycles[r].got[x]
  BY <1>2 DEF Cycle, Versions
<1> HIDE DEF p, got
<1>6. /\ a \in AppState /\ a.tree = app.tree /\ a.view = app.view /\ a.snapshot = r
      /\ \A x \in Resources : a.has[x] = IF x \in need THEN got[x] ELSE p.has[x]
  BY <1>1, <1>2, <1>4, AppliedFacts
<1> HIDE DEF a
<1>7. \A x \in Resources : rd[x] = reads[r][x] \/ rd[x] = NoRead BY <1>2
<1> HIDE DEF rd
<1>8. app' = [a EXCEPT !.busy = app'.busy] BY <1>1, <1>2, <1>3, <1>6, <1>7, RoundEndsFacts
<1>9. /\ app'.view = app.view /\ app'.snapshot = r
      /\ \A x \in Resources : app'.has[x] = IF x \in need THEN got[x] ELSE p.has[x]
  BY <1>6, <1>8 DEF AppState
<1>10. /\ RoundOK(r)' /\ ViewOK(r)' /\ (\A x \in Resources : IsOld(r, x)' => IsOld(r, x))
       /\ q # NoRequest =>
            /\ cycles'[r].stage # "none"
            /\ \A x \in Needs(q) : (Again(r, x) \/ Fresh(r, x))' /\ (IsOld(r, x)' => Again(r, x)')
  BY <1>1, <1>2, <1>3, <1>6, <1>7, NextCovers
<1>11. res \in need /\ cycles[r].stage = "reading" BY <1>2 DEF CycleOK
<1>12. ShownResources' = ShownResources /\ ShownResources \subseteq Resources
  BY <1>9 DEF ShownResources, Resources
<1>13. CASE cycles[r].old
  <2>1. r \in behind' BY <1>3, <1>13 DEF BehindAfter
  <2> QED BY <1>10, <2>1 DEF ShownOK
<1>14. CASE ~cycles[r].old
  <2> SUFFICES ASSUME NEW x \in ShownResources, r \notin behind'
               PROVE  /\ app'.has[x] = world'[r][x] \/ Due(r, x)' \/ Again(r, x)' \/ Fresh(r, x)'
                      /\ IsOld(r, x)' => Due(r, x)' \/ Again(r, x)'
    <3>1. r \notin behind' =>
            \A x \in ShownResources :
              /\ app'.has[x] = world'[r][x] \/ Due(r, x)' \/ Again(r, x)' \/ Fresh(r, x)'
              /\ IsOld(r, x)' => Due(r, x)' \/ Again(r, x)'
      OBVIOUS
    <3>2. ShownOK(r)' BY <1>9, <1>12, <3>1 DEF ShownOK
    <3> QED BY <1>10, <3>2
  <2>1. x \in Resources BY <1>12
  <2>2. CASE q # NoRequest /\ x \in Needs(q) BY <1>10, <2>2
  <2>3. CASE ~(q # NoRequest /\ x \in Needs(q))
    <3>1. Told(r, x) => Due(r, x)' BY <1>2, <2>3 DEF Told, Due
    <3>2. Due(r, x) => Due(r, x)' BY <1>2, <3>1 DEF Due
    <3>3. CASE x \in need
      <4>1. (Fresh(r, x) \/ Told(r, x)) /\ (IsOld(r, x) => Told(r, x))
        BY <1>1, <1>2, <1>11, <1>14, <3>3 DEF RoundOK
      <4>2. Fresh(r, x) => got[x] = world[r][x] BY <1>2, <1>5, <2>1 DEF Fresh, IsOld, Looked
      <4> QED BY <1>2, <1>9, <1>10, <2>1, <3>1, <3>3, <4>1, <4>2
    <3>4. CASE x \notin need
      <4>1. cycles[r].request.scope # "unknown"
        <5>1. SUFFICES ASSUME cycles[r].request.scope = "unknown" PROVE FALSE OBVIOUS
        <5>2. cycles[r].request.view # app.view BY <3>4, <5>1, NeedsFacts
        <5>3. q # NoRequest /\ q.scope = "unknown" /\ q.view = app.view
          BY <1>1, <1>11, <5>2 DEF ViewOK
        <5> QED BY <2>3, <5>3, NeedsFacts
      <4>2. r \notin behind BY <1>3, <1>14, <4>1 DEF BehindAfter
      <4>3. /\ app.has[x] = world[r][x] \/ Due(r, x)
            /\ IsOld(r, x) => Due(r, x)
        BY <1>1, <3>4, <4>2 DEF ShownOK, Again, Fresh
      <4>4. app'.has[x] = app.has[x] BY <1>4, <1>9, <1>11, <2>1, <3>4
      <4> QED BY <1>2, <1>10, <2>1, <3>2, <4>3, <4>4
    <3> QED BY <3>3, <3>4
  <2> QED BY <2>2, <2>3
<1> QED BY <1>10, <1>13, <1>14

\* An answer for which the round of what is shown has waited, and others are missing.
LEMMA AnswerShows ==
  ASSUME RefreshInv, NEW r \in Trees, NEW res \in Resources, Answers(r, res), cycles[r].awaits # {res},
         res \in cycles[r].awaits, app.tree = r
  PROVE  ShownOK(r)' /\ RoundOK(r)' /\ ViewOK(r)'
<1> DEFINE got == [cycles[r].got EXCEPT ![res] = reads[r][res].version]
           rd == [reads[r] EXCEPT ![res] = NoRead]
           p == Polled(r, res, app)
<1>1. RefreshTyped /\ app \in AppState /\ ShownOK(r) /\ RoundOK(r) /\ ViewOK(r)
  BY DEF RefreshInv, RefreshTyped
<1>2. /\ cycles[r] \in Cycle /\ reads[r] \in [Resources -> Read] /\ CycleOK(r) /\ Looked(r, res)
      /\ got \in Versions /\ rd \in [Resources -> Read] /\ Intact(r) /\ world' = world /\ reports' = reports /\ link' = link
  BY AnswerFacts
<1>3. /\ cycles' = [cycles EXCEPT ![r].awaits = @ \ {res}, ![r].got = got]
      /\ reads' = [reads EXCEPT ![r] = rd] /\ app' = p /\ behind' = behind
  BY DEF Answers
<1>4. /\ p.view = app.view /\ p.snapshot = app.snapshot
      /\ \A x \in Resources : p.has[x] = app.has[x] \/ (x = res /\ p.has[x] = reads[r][res].version)
  BY <1>1, PolledFacts
<1>5. \A x \in Resources : got[x] = IF x = res THEN reads[r][res].version ELSE cycles[r].got[x]
  BY <1>2 DEF Cycle, Versions
<1>6. \A x \in Resources : rd[x] = IF x = res THEN NoRead ELSE reads[r][x] BY <1>2
<1> HIDE DEF p, got, rd
<1>7. /\ cycles'[r].stage = cycles[r].stage /\ cycles'[r].request = cycles[r].request /\ cycles'[r].queued = cycles[r].queued
      /\ cycles'[r].old = cycles[r].old /\ cycles'[r].awaits = cycles[r].awaits \ {res} /\ cycles'[r].got = got
      /\ reads'[r] = rd
  BY <1>1, <1>2, <1>3 DEF RefreshTyped, Cycle
<1>8. ShownResources' = ShownResources /\ ShownResources \subseteq Resources
  BY <1>3, <1>4 DEF ShownResources, Resources
<1>9. ASSUME NEW x \in Resources
      PROVE  /\ (Told(r, x) => Told(r, x)') /\ (Again(r, x) => Again(r, x)') /\ (Due(r, x) => Due(r, x)')
             /\ (IsOld(r, x)' => IsOld(r, x))
  BY <1>2, <1>6, <1>7, <1>9 DEF Told, Again, Due, IsOld, Looked, NoRead
<1>10. ASSUME NEW x \in Resources, Fresh(r, x) PROVE Fresh(r, x)'
  <2>1. CASE x = res BY <1>2, <1>5, <1>7, <1>10, <2>1 DEF Fresh, IsOld, Looked
  <2>2. CASE x # res BY <1>2, <1>5, <1>6, <1>7, <1>10, <2>2 DEF Fresh, IsOld, Looked
  <2> QED BY <2>1, <2>2
<1>11. Intact(r)' => Intact(r) BY <1>2
<1>12. RoundOK(r)' BY <1>1, <1>7, <1>8, <1>9, <1>10, <1>11 DEF RoundOK
<1>13. ViewOK(r)' BY <1>1, <1>3, <1>4, <1>7 DEF ViewOK
<1>14. ShownOK(r)'
  <2> SUFFICES ASSUME r \notin behind
               PROVE  /\ app'.snapshot = r \/ cycles'[r].stage # "none" \/ link' # "up"
                      /\ \A x \in ShownResources :
                           /\ app'.has[x] = world'[r][x] \/ Due(r, x)' \/ Again(r, x)' \/ Fresh(r, x)'
                           /\ IsOld(r, x)' => Due(r, x)' \/ Again(r, x)'
    BY <1>3, <1>8 DEF ShownOK
  <2>1. /\ app.snapshot = r \/ cycles[r].stage # "none" \/ link # "up"
        /\ \A x \in ShownResources :
             /\ app.has[x] = world[r][x] \/ Due(r, x) \/ Again(r, x) \/ Fresh(r, x)
             /\ IsOld(r, x) => Due(r, x) \/ Again(r, x)
    BY <1>1 DEF ShownOK
  <2>2. ASSUME NEW x \in ShownResources
        PROVE  /\ app'.has[x] = world'[r][x] \/ Due(r, x)' \/ Again(r, x)' \/ Fresh(r, x)'
               /\ IsOld(r, x)' => Due(r, x)' \/ Again(r, x)'
    <3>1. x \in Resources BY <1>8, <2>2
    <3>2. \/ app'.has[x] = app.has[x] \/ app'.has[x] = world[r][x]
          \/ Due(r, x) \/ Again(r, x)
      BY <1>2, <1>3, <1>4, <2>1, <2>2, <3>1 DEF IsOld
    <3> QED BY <1>2, <1>9, <1>10, <2>1, <2>2, <3>1, <3>2
  <2> QED BY <1>2, <1>3, <1>4, <1>7, <2>1, <2>2
<1> QED BY <1>12, <1>13, <1>14

\* The step does not touch what is shown of a repository: it is another one's.
LEMMA OthersShown ==
  ASSUME RefreshTyped, NEW r \in Trees, NEW t \in Trees, t # r, app.tree = t, Elsewhere(r),
         ShownOK(t), RoundOK(t), ViewOK(t), app'.view = app.view, app'.snapshot = app.snapshot, app'.has = app.has,
         reports' = reports, link' = link, behind \subseteq behind'
  PROVE  ShownOK(t)' /\ RoundOK(t)' /\ ViewOK(t)'
<1>1. world' = world /\ cycles'[t] = cycles[t] /\ reads'[t] = reads[t] BY DEF Elsewhere
<1>2. (\A res \in Resources : IsOld(t, res)' => IsOld(t, res)) /\ (Intact(t)' => Intact(t))
  BY <1>1 DEF IsOld, Looked, Intact
<1> QED BY <1>1, <1>2, StaysShown

\* A read is answered.
LEMMA AnswersStep ==
  ASSUME RefreshInv, NEW r \in Trees, NEW res \in Resources, Answers(r, res)
  PROVE  RefreshInv'
<1> DEFINE got == [cycles[r].got EXCEPT ![res] = reads[r][res].version]
           rd == [reads[r] EXCEPT ![res] = NoRead]
           p == Polled(r, res, app)
           a == Applied(r, got, p)
<1>1. /\ RefreshTyped /\ LinkOK /\ app \in AppState /\ cycles \in [Trees -> Cycle] /\ reads \in [Trees -> [Resources -> Read]]
      /\ \A t \in Trees : app.tree = t => ShownOK(t) /\ RoundOK(t) /\ ViewOK(t)
  BY DEF RefreshInv, RefreshTyped
<1>2. /\ cycles[r] \in Cycle /\ reads[r] \in [Resources -> Read] /\ CycleOK(r) /\ Looked(r, res)
      /\ got \in Versions /\ rd \in [Resources -> Read] /\ link # "down" /\ (\A x \in Resources : reads[r][x].stage # "lost")
      /\ Intact(r) /\ UNCHANGED <<world, reports, link, moves, readFaults>>
  BY AnswerFacts
<1>3. /\ p \in AppState /\ p.tree = app.tree /\ p.view = app.view /\ p.snapshot = app.snapshot
      /\ app.tree # r => p.has = app.has
  <2>1. /\ p \in AppState /\ p.tree = app.tree /\ p.view = app.view /\ p.snapshot = app.snapshot
        /\ app.tree # r => \A x \in Resources : p.has[x] = app.has[x]
    BY <1>1, PolledFacts
  <2> HIDE DEF p
  <2>2. p.has \in Versions /\ app.has \in Versions BY <1>1, <2>1 DEF AppState
  <2> QED BY <2>1, <2>2 DEF Versions
<1>4. /\ a \in AppState /\ a.tree = app.tree /\ a.view = app.view /\ (app.tree # r => a = p)
  <2> HIDE DEF p, got
  <2> QED BY <1>1, <1>2, <1>3, AppliedFacts
<1>5. /\ p.snapshot \in {p.tree, NoTree} /\ p.of["files"] \in {p.tree, NoTree}
      /\ p.snapshot # NoTree => p.of["status"] = p.tree
      /\ a.snapshot \in {a.tree, NoTree} /\ a.of["files"] \in {a.tree, NoTree}
      /\ a.snapshot # NoTree => a.of["status"] = a.tree
  BY <1>2, AnswersBelong
<1>6. \A x \in Resources : rd[x] = IF x = res THEN NoRead ELSE reads[r][x] BY <1>2
<1>7. CASE cycles[r].awaits = {res}
  <2>1. RoundEnds(r, rd, a) /\ behind' = BehindAfter(r) BY <1>7 DEF Answers
  <2> HIDE DEF a, p, got, rd
  <2>2. /\ Elsewhere(r) /\ NothingNew(r) /\ CycleOK(r)' /\ (NothingFound(r) => NothingFound(r)')
        /\ app' \in AppState /\ app' = [a EXCEPT !.busy = app'.busy]
    BY <1>1, <1>2, <1>4, <1>6, <2>1, RoundEndsFacts
  <2>3. app'.tree = a.tree /\ app'.view = a.view /\ app'.snapshot = a.snapshot /\ app'.has = a.has /\ app'.of = a.of
    BY <1>4, <2>2 DEF AppState
  <2>4. behind' \subseteq behind \cup {r} /\ (app.tree # r => behind' = behind)
    BY <2>1 DEF BehindAfter
  <2>5. RefreshTyped' BY <1>1, <1>2, <2>2, <2>4, StaysTyped DEF RefreshTyped
  <2>6. LinkOK' BY <1>1, <1>2, <2>2, LinkStays
  <2>7. BelongsOK' BY <1>5, <2>3 DEF BelongsOK
  <2>8. ASSUME NEW t \in Trees, app'.tree = t PROVE ShownOK(t)' /\ RoundOK(t)' /\ ViewOK(t)'
    <3>0. app.tree = t /\ ShownOK(t) /\ RoundOK(t) /\ ViewOK(t) BY <1>1, <1>4, <2>3, <2>8
    <3>1. CASE t = r BY <1>7, <3>0, <3>1, LastAnswerShows
    <3>2. CASE t # r
      <4>2. app'.view = app.view /\ app'.snapshot = app.snapshot /\ app'.has = app.has
        BY <1>3, <1>4, <2>3, <3>0, <3>2
      <4> QED BY <1>1, <1>2, <2>2, <2>4, <3>0, <3>2, <4>2, OthersShown
    <3> QED BY <3>1, <3>2
  <2> QED BY <2>5, <2>6, <2>7, <2>8 DEF RefreshInv
<1>8. CASE cycles[r].awaits # {res}
  <2>1. /\ cycles' = IF res \in cycles[r].awaits THEN [cycles EXCEPT ![r].awaits = @ \ {res}, ![r].got = got] ELSE cycles
        /\ reads' = [reads EXCEPT ![r] = rd] /\ app' = p /\ behind' = behind
    BY <1>8 DEF Answers
  <2> HIDE DEF a, p, got, rd
  <2>2. /\ reads'[r] = rd /\ reads' \in [Trees -> [Resources -> Read]]
        /\ \A t \in Trees \ {r} : reads'[t] = reads[t]
    BY <1>1, <1>2, <2>1
  <2>3. /\ cycles'[r] \in Cycle /\ cycles'[r].stage = cycles[r].stage /\ cycles'[r].request = cycles[r].request
        /\ cycles'[r].queued = cycles[r].queued /\ cycles'[r].awaits = cycles[r].awaits \ {res}
    <3>1. CASE res \in cycles[r].awaits BY <1>1, <1>2, <2>1, <3>1 DEF Cycle
    <3>2. CASE res \notin cycles[r].awaits BY <1>2, <2>1, <3>2
    <3> QED BY <3>1, <3>2
  <2>4. Elsewhere(r)
    <3>1. cycles' \in [Trees -> Cycle] /\ \A t \in Trees \ {r} : cycles'[t] = cycles[t]
      BY <1>1, <2>1, <2>3
    <3> QED BY <1>2, <2>2, <3>1 DEF Elsewhere
  <2>5. CycleOK(r)'
    <3>1. cycles'[r].awaits # {} <=> cycles[r].awaits # {} BY <1>8, <2>3
    <3>2. cycles[r].awaits \subseteq Resources BY <1>2 DEF Cycle
    <3> QED BY <1>2, <1>6, <2>2, <2>3, <3>1, <3>2 DEF CycleOK
  <2>6. NothingNew(r) BY <1>6, <2>2 DEF NothingNew, NoRead
  <2>7. RefreshTyped' BY <1>1, <1>2, <1>3, <2>1, <2>4, <2>5, StaysTyped DEF RefreshTyped
  <2>8. LinkOK' BY <1>1, <1>2, <2>4, <2>6, LinkStays DEF NothingFound
  <2>9. BelongsOK' BY <1>5, <2>1 DEF BelongsOK
  <2>10. ASSUME NEW t \in Trees, app'.tree = t PROVE ShownOK(t)' /\ RoundOK(t)' /\ ViewOK(t)'
    <3>1. app.tree = t /\ ShownOK(t) /\ RoundOK(t) /\ ViewOK(t) BY <1>1, <1>3, <2>1, <2>10
    <3>2. CASE t # r BY <1>1, <1>2, <1>3, <2>1, <2>4, <3>1, <3>2, OthersShown
    <3>3. CASE t = r /\ res \in cycles[r].awaits BY <1>8, <3>1, <3>3, AnswerShows
    <3>4. CASE t = r /\ res \notin cycles[r].awaits
      <4>1. cycles'[r] = cycles[r] BY <2>1, <3>4
      <4>2. /\ \A x \in Resources : IsOld(r, x)' => IsOld(r, x)
            /\ Intact(r)' => Intact(r)
        BY <1>2, <1>6, <2>2 DEF IsOld, Looked, NoRead
      <4>3. \A x \in ShownResources : \/ p.has[x] = app.has[x] \/ p.has[x] = world[r][x]
                                      \/ Due(r, x) \/ Again(r, x) \/ r \in behind
        <5>0. ShownResources \subseteq Resources BY DEF ShownResources, Resources
        <5>1. \A x \in Resources : p.has[x] = app.has[x] \/ (x = res /\ p.has[x] = reads[r][res].version)
          BY <1>1, PolledFacts DEF p
        <5>2. ASSUME NEW x \in ShownResources, r \notin behind, IsOld(r, x) PROVE Due(r, x) \/ Again(r, x)
          BY <3>1, <3>4, <5>2 DEF ShownOK
        <5> QED BY <1>2, <5>0, <5>1, <5>2 DEF IsOld
      <4> QED BY <1>2, <1>3, <2>1, <3>1, <3>4, <4>1, <4>2, <4>3, StaysShown
    <3> QED BY <3>2, <3>3, <3>4
  <2> QED BY <2>7, <2>8, <2>9, <2>10 DEF RefreshInv
<1> QED BY <1>7, <1>8

\* A step that ends the round of a repository which is not shown.
LEMMA EndsElsewhere ==
  ASSUME RefreshInv, NEW r \in Trees, app.tree # r, NEW rd \in [Resources -> Read], RoundEnds(r, rd, app),
         \A res \in Resources : rd[res] = reads[r][res] \/ rd[res] = NoRead,
         UNCHANGED <<worldVars, behind, moves>>, readFaults' \in 0..MaxReadFaults
  PROVE  RefreshInv'
<1>1. /\ RefreshTyped /\ LinkOK /\ BelongsOK /\ app \in AppState
      /\ \A t \in Trees : app.tree = t => ShownOK(t) /\ RoundOK(t) /\ ViewOK(t)
  BY DEF RefreshInv, RefreshTyped
<1>2. world' = world /\ reports' = reports /\ link' = link /\ behind' = behind /\ moves' = moves
  BY DEF worldVars
<1>3. /\ Elsewhere(r) /\ NothingNew(r) /\ CycleOK(r)' /\ (NothingFound(r) => NothingFound(r)')
      /\ app' \in AppState /\ app' = [app EXCEPT !.busy = app'.busy]
  BY <1>1, <1>2, RoundEndsFacts
<1>4. app'.tree = app.tree /\ app'.view = app.view /\ app'.snapshot = app.snapshot /\ app'.has = app.has /\ app'.of = app.of
  BY <1>1, <1>3 DEF AppState
<1>5. RefreshTyped' BY <1>1, <1>2, <1>3, StaysTyped DEF RefreshTyped
<1>6. LinkOK' BY <1>1, <1>2, <1>3, LinkStays
<1>7. BelongsOK' BY <1>1, <1>4 DEF BelongsOK
<1>8. ASSUME NEW t \in Trees, app'.tree = t PROVE ShownOK(t)' /\ RoundOK(t)' /\ ViewOK(t)'
  <2>1. app.tree = t /\ t # r /\ ShownOK(t) /\ RoundOK(t) /\ ViewOK(t) BY <1>1, <1>4, <1>8
  <2> QED BY <1>1, <1>2, <1>3, <1>4, <2>1, OthersShown
<1> QED BY <1>5, <1>6, <1>7, <1>8 DEF RefreshInv

\* A read fails: nobody waits for it, the round of another repository ends, the round pauses,
\* or the round ends, and what failed was told, or went with the connection.
LEMMA FailsStep ==
  ASSUME RefreshInv, NEW r \in Trees, NEW res \in Resources, Fails(r, res)
  PROVE  RefreshInv'
<1> DEFINE c == cycles[r]
           alone == reads[r][res].stage # "lost"
           rd == [reads[r] EXCEPT ![res] = NoRead]
<1>1. /\ RefreshTyped /\ LinkOK /\ BelongsOK /\ app \in AppState /\ cycles \in [Trees -> Cycle] /\ reads \in [Trees -> [Resources -> Read]]
      /\ cycles[r] \in Cycle /\ reads[r] \in [Resources -> Read] /\ CycleOK(r)
      /\ \A t \in Trees : app.tree = t => ShownOK(t) /\ RoundOK(t) /\ ViewOK(t)
  BY DEF RefreshInv, RefreshTyped
<1>2. /\ reads[r][res].stage # "none" /\ (alone => readFaults < MaxReadFaults /\ link # "down")
      /\ readFaults' = (IF alone THEN readFaults + 1 ELSE readFaults)
      /\ world' = world /\ reports' = reports /\ link' = link /\ moves' = moves /\ UNCHANGED worldVars
  BY DEF Fails, worldVars
<1>3. readFaults' \in 0..MaxReadFaults BY <1>1, <1>2, RefreshAssumption DEF RefreshTyped
<1>4. rd \in [Resources -> Read] /\ \A x \in Resources : rd[x] = IF x = res THEN NoRead ELSE reads[r][x]
  BY <1>1, NoCycleType
<1>5. ~alone => link = "down" BY <1>1, <1>2 DEF LinkOK
<1>6. CASE res \notin c.awaits
  <2>1. reads' = [reads EXCEPT ![r] = rd] /\ cycles' = cycles /\ app' = app /\ behind' = behind
    BY <1>6 DEF Fails
  <2> HIDE DEF rd
  <2>2. reads' \in [Trees -> [Resources -> Read]] /\ reads'[r] = rd /\ \A t \in Trees \ {r} : reads'[t] = reads[t]
    BY <1>1, <1>4, <2>1
  <2>3. Elsewhere(r) BY <1>1, <1>2, <2>1, <2>2 DEF Elsewhere
  <2>4. NothingNew(r) BY <1>4, <2>2 DEF NothingNew, NoRead
  <2>5. CycleOK(r)' /\ Intact(r)' = Intact(r)
    <3>1. cycles'[r] = c /\ \A x \in c.awaits : reads'[r][x] = reads[r][x]
      BY <1>1, <1>4, <1>6, <2>1, <2>2 DEF Cycle
    <3> QED BY <1>1, <3>1 DEF CycleOK, Intact
  <2>6. NothingFound(r) => NothingFound(r)' BY <2>1, <2>4, <2>5 DEF NothingFound, NothingNew, Looked
  <2>7. RefreshTyped' BY <1>1, <1>2, <1>3, <2>1, <2>3, <2>5, StaysTyped DEF RefreshTyped
  <2>8. LinkOK' BY <1>1, <1>2, <2>3, <2>4, <2>6, LinkStays
  <2>9. BelongsOK' BY <1>1, <2>1 DEF BelongsOK
  <2>10. ASSUME NEW t \in Trees, app'.tree = t PROVE ShownOK(t)' /\ RoundOK(t)' /\ ViewOK(t)'
    <3>1. app.tree = t /\ ShownOK(t) /\ RoundOK(t) /\ ViewOK(t) BY <1>1, <2>1, <2>10
    <3>2. CASE t # r BY <1>1, <1>2, <2>1, <2>3, <3>1, <3>2, OthersShown
    <3>3. CASE t = r
      <4>1. \A x \in Resources : IsOld(r, x)' => IsOld(r, x)
        BY <1>2, <1>4, <2>2 DEF IsOld, Looked, NoRead
      <4> QED BY <1>2, <2>1, <2>5, <3>1, <3>3, <4>1, StaysShown
    <3> QED BY <3>2, <3>3
  <2> QED BY <2>7, <2>8, <2>9, <2>10 DEF RefreshInv
<1>7. CASE res \in c.awaits /\ app.tree # r
  <2>1. RoundEnds(r, rd, app) /\ behind' = behind BY <1>7 DEF Fails
  <2> HIDE DEF rd
  <2> QED BY <1>2, <1>3, <1>4, <1>7, <2>1, EndsElsewhere
<1>8. CASE res \in c.awaits /\ app.tree = r /\ c.request.background /\ ~c.again
  <2>1. /\ cycles' = [cycles EXCEPT ![r].stage = "pausing", ![r].awaits = {}, ![r].again = TRUE]
        /\ reads' = [reads EXCEPT ![r] = rd] /\ app' = app /\ behind' = behind
    BY <1>8 DEF Fails
  <2> HIDE DEF rd
  <2>2. reads' \in [Trees -> [Resources -> Read]] /\ reads'[r] = rd /\ \A t \in Trees \ {r} : reads'[t] = reads[t]
    BY <1>1, <1>4, <2>1
  <2>3. /\ cycles'[r] \in Cycle /\ cycles'[r].stage = "pausing" /\ cycles'[r].awaits = {}
        /\ cycles'[r].request = c.request /\ cycles'[r].queued = c.queued
        /\ cycles' \in [Trees -> Cycle] /\ \A t \in Trees \ {r} : cycles'[t] = cycles[t]
    <3>1. /\ cycles'[r] \in Cycle /\ cycles'[r].stage = "pausing" /\ cycles'[r].awaits = {}
          /\ cycles'[r].request = c.request /\ cycles'[r].queued = c.queued
      BY <1>1, <2>1 DEF Cycle
    <3> QED BY <1>1, <2>1, <3>1
  <2>4. Elsewhere(r) BY <1>2, <2>2, <2>3 DEF Elsewhere
  <2>5. c.stage = "reading" BY <1>1, <1>8 DEF CycleOK
  <2>6. CycleOK(r)' BY <1>1, <2>3, <2>5 DEF CycleOK
  <2>7. NothingNew(r) BY <1>4, <2>2 DEF NothingNew, NoRead
  <2>8. NothingFound(r) => NothingFound(r)' BY <2>3, <2>7 DEF NothingFound, NothingNew, Looked
  <2>9. RefreshTyped' BY <1>1, <1>2, <1>3, <2>1, <2>4, <2>6, StaysTyped DEF RefreshTyped
  <2>10. LinkOK' BY <1>1, <1>2, <2>4, <2>7, <2>8, LinkStays
  <2>11. BelongsOK' BY <1>1, <2>1 DEF BelongsOK
  <2>12. ShownOK(r)' /\ RoundOK(r)' /\ ViewOK(r)'
    <3>1. ShownOK(r) /\ ViewOK(r) BY <1>1, <1>8
    <3>2. ShownResources' = ShownResources /\ ShownResources \subseteq Resources
      BY <2>1 DEF ShownResources, Resources
    <3>3. ASSUME NEW x \in Resources
          PROVE  /\ (Due(r, x) => Due(r, x)') /\ (IsOld(r, x)' => IsOld(r, x))
                 /\ (Again(r, x) => Again(r, x)') /\ (Fresh(r, x) => Again(r, x)')
      <4>1. Due(r, x) => Due(r, x)' BY <1>2, <2>3 DEF Due, Told
      <4>2. IsOld(r, x)' => IsOld(r, x) BY <1>2, <1>4, <2>2, <3>3 DEF IsOld, Looked, NoRead
      <4>3. (Again(r, x) => Again(r, x)') /\ (Fresh(r, x) => Again(r, x)') BY <2>3 DEF Again, Fresh
      <4> QED BY <4>1, <4>2, <4>3
    <3>4. ShownOK(r)' BY <1>2, <2>1, <2>3, <3>1, <3>2, <3>3 DEF ShownOK
    <3>5. ViewOK(r)' BY <2>1, <2>3, <2>5, <3>1 DEF ViewOK
    <3>6. RoundOK(r)' BY <2>3 DEF RoundOK
    <3> QED BY <3>4, <3>5, <3>6
  <2> QED BY <1>8, <2>1, <2>9, <2>10, <2>11, <2>12 DEF RefreshInv
<1>9. CASE res \in c.awaits /\ app.tree = r /\ ~(c.request.background /\ ~c.again)
  <2>1. RoundEnds(r, rd, app) /\ behind' = (IF alone THEN behind \cup {r} ELSE behind)
    BY <1>9 DEF Fails
  <2> HIDE DEF rd
  <2>2. /\ Elsewhere(r) /\ NothingNew(r) /\ CycleOK(r)' /\ (NothingFound(r) => NothingFound(r)')
        /\ app' \in AppState /\ app' = [app EXCEPT !.busy = app'.busy]
    BY <1>1, <1>2, <1>4, <2>1, RoundEndsFacts
  <2>3. app'.tree = app.tree /\ app'.view = app.view /\ app'.snapshot = app.snapshot /\ app'.has = app.has /\ app'.of = app.of
    BY <1>1, <2>2 DEF AppState
  <2>4. RefreshTyped' BY <1>1, <1>2, <1>3, <2>1, <2>2, StaysTyped DEF RefreshTyped
  <2>5. LinkOK' BY <1>1, <1>2, <2>2, LinkStays
  <2>6. BelongsOK' BY <1>1, <2>3 DEF BelongsOK
  <2>7. RoundOK(r)' /\ ViewOK(r)' /\ \A x \in Resources : IsOld(r, x)' => IsOld(r, x)
    BY <1>1, <1>2, <1>4, <1>9, <2>1, NextCovers
  <2>8. ShownOK(r)'
    <3>1. CASE alone BY <2>1, <3>1 DEF ShownOK
    <3>2. CASE ~alone BY <1>2, <1>5, <3>2 DEF ShownOK, Due
    <3> QED BY <3>1, <3>2
  <2> QED BY <1>9, <2>3, <2>4, <2>5, <2>6, <2>7, <2>8 DEF RefreshInv
<1> QED BY <1>6, <1>7, <1>8, <1>9

\* A refresh of the repository that is shown by then.
LEMMA AsksStep ==
  ASSUME RefreshInv, NEW r \in Trees, NEW q \in Refresh, NEW a \in AppState, RefreshWith(r, q, a),
         a.tree = r, a.snapshot \in {r, NoTree}, a.of["files"] \in {r, NoTree}, a.snapshot # NoTree => a.of["status"] = r,
         world' = world, reports' \subseteq reports, link' \in {"up", "down", "back"}, (link = "down") <=> (link' = "down"),
         behind' = behind, moves' \in 0..MaxMoves, readFaults' \in 0..MaxReadFaults,
         ShownOK(r)' /\ RoundOK(r)' /\ ViewOK(r)'
  PROVE  RefreshInv'
<1>1. RefreshTyped /\ LinkOK BY DEF RefreshInv
<1>2. /\ Elsewhere(r) /\ NothingNew(r) /\ CycleOK(r)' /\ (NothingFound(r) => NothingFound(r)')
      /\ app' \in AppState /\ app' = [a EXCEPT !.busy = app'.busy]
  BY <1>1, RefreshWithFacts
<1>3. app'.tree = a.tree /\ app'.view = a.view /\ app'.snapshot = a.snapshot /\ app'.has = a.has /\ app'.of = a.of
  BY <1>2 DEF AppState
<1>4. RefreshTyped' BY <1>1, <1>2, StaysTyped
<1>5. LinkOK' BY <1>1, <1>2, LinkStays
<1>6. BelongsOK' BY <1>3 DEF BelongsOK
<1> QED BY <1>3, <1>4, <1>5, <1>6 DEF RefreshInv

LEMMA RequestTypes ==
  ASSUME app \in AppState
  PROVE  /\ \A v \in Views : /\ Full(v) \in Refresh /\ [Full(v) EXCEPT !.manual = TRUE] \in Refresh
                             /\ Full(v).scope = "unknown" /\ Full(v).view = v
                             /\ [Full(v) EXCEPT !.manual = TRUE].scope = "unknown" /\ [Full(v) EXCEPT !.manual = TRUE].view = v
         /\ \A scope \in RepositoryChangeScope :
              InBackground(scope) \in Refresh /\ InBackground(scope).scope = scope /\ InBackground(scope).view = app.view
<1>1. "unknown" \in RepositoryChangeScope /\ app.view \in Views
  BY DEF RepositoryChangeScope, AppState
<1> QED BY <1>1 DEF Full, InBackground, Refresh

\* A step that leaves what is shown, and what is read, as it is.
LEMMA FetchEndsStep ==
  ASSUME RefreshInv, NEW r \in Trees, cycles[r].stage \in {"fetching", "pausing"},
         cycles' = [cycles EXCEPT ![r] = Reading(r, @, reads[r])],
         reads' = [reads EXCEPT ![r] = Asked(@, Needs(cycles[r].request))],
         UNCHANGED <<worldVars, app, behind, moves, readFaults>>
  PROVE  RefreshInv'
<1>1. /\ RefreshTyped /\ LinkOK /\ BelongsOK
      /\ \A t \in Trees : app.tree = t => ShownOK(t) /\ RoundOK(t) /\ ViewOK(t)
  BY DEF RefreshInv
<1>2. /\ Elsewhere(r) /\ NothingNew(r) /\ CycleOK(r)' /\ (NothingFound(r) => NothingFound(r)')
      /\ app.tree = r /\ ShownOK(r) /\ ViewOK(r) => ShownOK(r)' /\ RoundOK(r)' /\ ViewOK(r)'
  BY <1>1, ReadsOn
<1>3. world' = world /\ reports' = reports /\ link' = link /\ app' = app /\ behind' = behind /\ moves' = moves /\ readFaults' = readFaults
  BY DEF worldVars
<1>4. RefreshTyped' BY <1>1, <1>2, <1>3, StaysTyped DEF RefreshTyped
<1>5. LinkOK' BY <1>1, <1>2, <1>3, LinkStays
<1>6. BelongsOK' BY <1>1, <1>3 DEF BelongsOK
<1>7. ASSUME NEW t \in Trees, app'.tree = t PROVE ShownOK(t)' /\ RoundOK(t)' /\ ViewOK(t)'
  <2>1. app.tree = t /\ ShownOK(t) /\ RoundOK(t) /\ ViewOK(t) BY <1>1, <1>3, <1>7
  <2>2. CASE t # r BY <1>1, <1>2, <1>3, <2>1, <2>2, OthersShown
  <2>3. CASE t = r BY <1>2, <2>1, <2>3
  <2> QED BY <2>2, <2>3
<1> QED BY <1>4, <1>5, <1>6, <1>7 DEF RefreshInv

LEMMA RetriesStep ==
  ASSUME RefreshInv, NEW r \in Trees, Retries(r)
  PROVE  RefreshInv'
<1>1. cycles[r].stage = "pausing" /\ UNCHANGED <<worldVars, behind, moves, readFaults>>
  BY DEF Retries
<1>2. CASE app.tree # r
  <2>1. RoundEnds(r, reads[r], app) /\ reads[r] \in [Resources -> Read] /\ readFaults' \in 0..MaxReadFaults
    BY <1>1, <1>2 DEF Retries, RefreshInv, RefreshTyped
  <2> QED BY <1>1, <1>2, <2>1, EndsElsewhere
<1>3. CASE app.tree = r
  <2>1. /\ cycles' = [cycles EXCEPT ![r] = Reading(r, @, reads[r])]
        /\ reads' = [reads EXCEPT ![r] = Asked(@, Needs(cycles[r].request))] /\ app' = app
    BY <1>3 DEF Retries
  <2> QED BY <1>1, <2>1, FetchEndsStep
<1> QED BY <1>2, <1>3

\* The user: another repository, another view, a refresh by hand.
LEMMA ShowStep ==
  ASSUME RefreshInv, NEW r \in Trees \cup {NoTree}, Show(r)
  PROVE  RefreshInv'
<1> DEFINE a == [app EXCEPT !.tree = r, !.snapshot = NoTree, !.of["files"] = NoTree]
<1>1. /\ RefreshTyped /\ LinkOK /\ app \in AppState /\ world' = world /\ reports' = reports /\ link' = link
      /\ behind' = behind /\ readFaults' = readFaults
  BY DEF RefreshInv, RefreshTyped, Show, worldVars
<1>2. moves' \in 0..MaxMoves BY <1>1, RefreshAssumption DEF Show, Moves, RefreshTyped
<1>3. a \in AppState /\ a.tree = r /\ a.view = app.view /\ a.snapshot = NoTree /\ a.of["files"] = NoTree
  <2>1. app.of \in [Resources -> Trees \cup {NoTree}] /\ "files" \in Resources
    BY <1>1 DEF AppState, Resources
  <2>2. /\ [app.of EXCEPT !["files"] = NoTree] \in [Resources -> Trees \cup {NoTree}]
        /\ [app.of EXCEPT !["files"] = NoTree]["files"] = NoTree
    BY <2>1
  <2>3. a = [app EXCEPT !.tree = r, !.snapshot = NoTree, !.of = [app.of EXCEPT !["files"] = NoTree]]
    BY <1>1 DEF AppState
  <2> HIDE DEF a
  <2> QED BY <1>1, <2>2, <2>3 DEF AppState
<1>4. CASE r = NoTree
  <2>1. app' = a /\ UNCHANGED <<cycles, reads>> BY <1>4 DEF Show
  <2> HIDE DEF a
  <2>2. RefreshTyped' BY <1>1, <1>2, <1>3, <2>1 DEF RefreshTyped, CycleOK
  <2>3. LinkOK' BY <1>1, <2>1 DEF LinkOK, NothingFound, Looked, Intact
  <2>4. BelongsOK' BY <1>3, <2>1 DEF BelongsOK
  <2> QED BY <1>3, <1>4, <2>1, <2>2, <2>3, <2>4, RefreshAssumption DEF RefreshInv
<1>5. CASE r \in Trees
  <2>1. RefreshWith(r, Full(app.view), a) BY <1>5, RefreshAssumption DEF Show
  <2> HIDE DEF a
  <2>2. Full(app.view) \in Refresh /\ Full(app.view).scope = "unknown" /\ Full(app.view).view = app.view
    BY <1>1, RequestTypes DEF AppState
  <2>3. ShownOK(r)' /\ RoundOK(r)' /\ ViewOK(r)' BY <1>1, <1>3, <1>5, <2>1, <2>2, FullCovers
  <2> QED BY <1>1, <1>2, <1>3, <1>5, <2>1, <2>2, <2>3, AsksStep DEF RefreshTyped
<1> QED BY <1>4, <1>5

LEMMA ShowViewStep ==
  ASSUME RefreshInv, NEW v \in Views, ShowView(v)
  PROVE  RefreshInv'
<1> DEFINE a == [app EXCEPT !.view = v]
<1>1. /\ RefreshTyped /\ LinkOK /\ BelongsOK /\ app \in AppState /\ world' = world /\ reports' = reports /\ link' = link
      /\ behind' = behind /\ readFaults' = readFaults /\ app.tree \in Trees \cup {NoTree}
  BY DEF RefreshInv, RefreshTyped, ShowView, worldVars, AppState
<1>2. moves' \in 0..MaxMoves BY <1>1, RefreshAssumption DEF ShowView, Moves, RefreshTyped
<1>3. a \in AppState /\ a.tree = app.tree /\ a.view = v /\ a.snapshot = app.snapshot /\ a.of = app.of
  BY <1>1 DEF AppState
<1>4. CASE app.tree = NoTree
  <2>1. app' = a /\ UNCHANGED <<cycles, reads>> BY <1>4 DEF ShowView
  <2> HIDE DEF a
  <2>2. RefreshTyped' BY <1>1, <1>2, <1>3, <2>1 DEF RefreshTyped, CycleOK
  <2>3. LinkOK' BY <1>1, <2>1 DEF LinkOK, NothingFound, Looked, Intact
  <2>4. BelongsOK' BY <1>1, <1>3, <2>1 DEF BelongsOK
  <2> QED BY <1>3, <1>4, <2>1, <2>2, <2>3, <2>4, RefreshAssumption DEF RefreshInv
<1>5. CASE app.tree # NoTree
  <2> DEFINE r == app.tree
  <2>1. RefreshWith(r, Full(v), a) /\ r \in Trees BY <1>1, <1>5 DEF ShowView
  <2>2. Full(v) \in Refresh /\ Full(v).scope = "unknown" /\ Full(v).view = v BY <1>1, RequestTypes
  <2>3. /\ a.snapshot \in {r, NoTree} /\ a.of["files"] \in {r, NoTree} /\ (a.snapshot # NoTree => a.of["status"] = r)
        /\ a.tree = r
    BY <1>1, <1>3 DEF BelongsOK
  <2> HIDE DEF a
  <2>4. PICK t \in Trees : t = app.tree BY <2>1
  <2>5. ShownOK(t)' /\ RoundOK(t)' /\ ViewOK(t)' BY <1>1, <1>3, <2>1, <2>2, <2>4, FullCovers
  <2> QED BY <1>1, <1>2, <1>3, <2>1, <2>2, <2>3, <2>4, <2>5, AsksStep DEF RefreshTyped
<1> QED BY <1>4, <1>5

\* What asks for a refresh of the repository that is shown, as it is shown.
LEMMA AskedForShown ==
  ASSUME RefreshInv, NEW t \in Trees, app.tree = t, NEW q \in Refresh, RefreshWith(t, q, app), q.view = app.view,
         world' = world, behind' = behind, moves' \in 0..MaxMoves, readFaults' \in 0..MaxReadFaults,
         reports' \subseteq reports, link' \in {"up", "down", "back"}, (link = "down") <=> (link' = "down"),
         \/ q.scope = "unknown"
         \/ /\ link' = link
            /\ \A scope \in ChangeKinds : <<t, scope>> \in reports => <<t, scope>> \in reports' \/ q.scope = scope
  PROVE  RefreshInv'
<1>1. RefreshTyped /\ BelongsOK /\ app \in AppState /\ ShownOK(t) /\ RoundOK(t) /\ ViewOK(t)
  BY DEF RefreshInv, RefreshTyped
<1>2. ShownOK(t)' /\ RoundOK(t)' /\ ViewOK(t)'
  <2>1. CASE q.scope = "unknown" BY <1>1, <2>1, FullCovers
  <2>2. CASE /\ link' = link
             /\ \A scope \in ChangeKinds : <<t, scope>> \in reports => <<t, scope>> \in reports' \/ q.scope = scope
    <3>1. ASSUME NEW scope \in ChangeKinds, NEW res \in ShownResources, <<t, scope>> \in reports, res \in ChangedBy(scope)
          PROVE  <<t, scope>> \in reports' \/ res \in Needs(q)
      <4>1. CASE q.scope = scope BY <3>1, <4>1, NeedsFacts, RefreshAssumption
      <4> QED BY <2>2, <3>1, <4>1
    <3> QED BY <1>1, <2>2, <3>1, PartCovers
  <2> QED BY <2>1, <2>2
<1> QED BY <1>1, <1>2, AsksStep DEF BelongsOK

LEMMA RefreshByHandStep == ASSUME RefreshInv, RefreshByHand PROVE RefreshInv'
<1>1. /\ RefreshTyped /\ app \in AppState /\ app.tree \in Trees /\ app.view \in Views
      /\ world' = world /\ reports' = reports /\ link' = link /\ behind' = behind /\ readFaults' = readFaults
  BY DEF RefreshInv, RefreshTyped, RefreshByHand, worldVars, AppState
<1>2. moves' \in 0..MaxMoves BY <1>1, RefreshAssumption DEF RefreshByHand, Moves, RefreshTyped
<1> DEFINE q == [Full(app.view) EXCEPT !.manual = TRUE]
<1>3. q \in Refresh /\ q.scope = "unknown" /\ q.view = app.view /\ RefreshWith(app.tree, q, app)
  BY <1>1, RequestTypes DEF RefreshByHand
<1> HIDE DEF q
<1>4. PICK t \in Trees : t = app.tree BY <1>1
<1> QED BY <1>1, <1>2, <1>3, <1>4, AskedForShown DEF RefreshTyped

LEMMA FetchedQuietlyStep == ASSUME RefreshInv, FetchedQuietly PROVE RefreshInv'
<1>1. /\ RefreshTyped /\ app \in AppState /\ app.tree \in Trees
      /\ world' = world /\ reports' = reports /\ link' = link /\ behind' = behind /\ readFaults' = readFaults
  BY DEF RefreshInv, RefreshTyped, FetchedQuietly, worldVars, AppState
<1>2. moves' \in 0..MaxMoves BY <1>1, RefreshAssumption DEF FetchedQuietly, Moves, RefreshTyped
<1> DEFINE q == InBackground("refs")
<1>3. q \in Refresh /\ q.view = app.view /\ RefreshWith(app.tree, q, app)
  BY <1>1, RequestTypes DEF FetchedQuietly, RepositoryChangeScope
<1> HIDE DEF q
<1>4. PICK t \in Trees : t = app.tree BY <1>1
<1> QED BY <1>1, <1>2, <1>3, <1>4, AskedForShown DEF RefreshTyped

LEMMA EventArrivesStep ==
  ASSUME RefreshInv, NEW r \in Trees, NEW scope \in ChangeKinds, EventArrives(r, scope)
  PROVE  RefreshInv'
<1>1. /\ RefreshTyped /\ LinkOK /\ BelongsOK /\ app \in AppState /\ scope \in RepositoryChangeScope
      /\ world' = world /\ reports' = reports \ {<<r, scope>>} /\ link' = link /\ behind' = behind
      /\ moves' = moves /\ readFaults' = readFaults
      /\ \A t \in Trees : app.tree = t => ShownOK(t) /\ RoundOK(t) /\ ViewOK(t)
  BY RefreshAssumption DEF RefreshInv, RefreshTyped, EventArrives
<1>2. CASE app.tree = r
  <2> DEFINE q == InBackground(scope)
  <2>1. q \in Refresh /\ q.scope = scope /\ q.view = app.view /\ RefreshWith(r, q, app)
    BY <1>1, <1>2, RequestTypes DEF EventArrives
  <2> HIDE DEF q
  <2>2. \A s \in ChangeKinds : <<r, s>> \in reports => <<r, s>> \in reports' \/ q.scope = s
    BY <1>1, <2>1
  <2> QED BY <1>1, <1>2, <2>1, <2>2, AskedForShown DEF RefreshTyped
<1>3. CASE app.tree # r
  <2>1. UNCHANGED <<cycles, reads, app>> BY <1>3 DEF EventArrives
  <2>2. RefreshTyped' BY <1>1, <2>1 DEF RefreshTyped, CycleOK
  <2>3. LinkOK' BY <1>1, <2>1 DEF LinkOK, NothingFound, Looked, Intact
  <2>4. BelongsOK' BY <1>1, <2>1 DEF BelongsOK
  <2>5. ASSUME NEW t \in Trees, app'.tree = t PROVE ShownOK(t)' /\ RoundOK(t)' /\ ViewOK(t)'
    <3>1. app.tree = t /\ t # r /\ ShownOK(t) /\ RoundOK(t) /\ ViewOK(t) BY <1>1, <1>3, <2>1, <2>5
    <3>2. \A s \in ChangeKinds : <<t, s>> \in reports => <<t, s>> \in reports' BY <1>1, <3>1
    <3>3. (\A res \in Resources : IsOld(t, res)' => IsOld(t, res)) /\ (Intact(t)' => Intact(t))
      BY <1>1, <2>1 DEF IsOld, Looked, Intact
    <3> QED BY <1>1, <2>1, <3>1, <3>2, <3>3, StaysShown
  <2> QED BY <2>2, <2>3, <2>4, <2>5 DEF RefreshInv
<1> QED BY <1>2, <1>3

LEMMA PollFilesStep == ASSUME RefreshInv, PollFiles PROVE RefreshInv'
<1>1. /\ RefreshTyped /\ LinkOK /\ BelongsOK /\ app.tree \in Trees
      /\ world' = world /\ reports' = reports /\ link' = link /\ behind' = behind /\ cycles' = cycles /\ app' = app
      /\ moves' = moves /\ readFaults' = readFaults
      /\ \A t \in Trees : app.tree = t => ShownOK(t) /\ RoundOK(t) /\ ViewOK(t)
  BY DEF RefreshInv, RefreshTyped, PollFiles, worldVars, AppState
<1>2. PICK r \in Trees : r = app.tree BY <1>1
<1> DEFINE asked == Asked(reads[r], {"files"})
           polled == [asked EXCEPT !["files"].polled = TRUE]
<1>3. /\ asked \in [Resources -> Read] /\ "files" \in Resources
      /\ \A x \in Resources : asked[x] = reads[r][x] \/ (reads[r][x].stage = "none" /\ asked[x].stage = "asked")
      /\ reads \in [Trees -> [Resources -> Read]] /\ reads[r] \in [Resources -> Read]
  <2>1. reads[r] \in [Resources -> Read] /\ {"files"} \in SUBSET Resources
    BY <1>1 DEF RefreshTyped, Resources
  <2> QED BY <1>1, <2>1, AskedFacts DEF RefreshTyped
<1>4. reads' = [reads EXCEPT ![r] = polled] BY <1>1, <1>2 DEF PollFiles
<1> HIDE DEF asked
<1>5. /\ polled \in [Resources -> Read]
      /\ \A x \in Resources : polled[x].stage = asked[x].stage /\ polled[x].version = asked[x].version
  <2> DEFINE e == [asked["files"] EXCEPT !.polled = TRUE]
  <2>1. e \in Read /\ e.stage = asked["files"].stage /\ e.version = asked["files"].version
    BY <1>3 DEF Read
  <2>2. polled = [asked EXCEPT !["files"] = e] BY <1>3
  <2> HIDE DEF e, polled
  <2> QED BY <1>3, <2>1, <2>2
<1> HIDE DEF polled
<1>6. reads'[r] = polled /\ reads' \in [Trees -> [Resources -> Read]] /\ \A t \in Trees \ {r} : reads'[t] = reads[t]
  BY <1>3, <1>4, <1>5
<1>7. \A x \in Resources : \/ reads'[r][x].stage = reads[r][x].stage /\ reads'[r][x].version = reads[r][x].version
                           \/ reads[r][x].stage = "none" /\ reads'[r][x].stage = "asked"
  BY <1>3, <1>5, <1>6
<1>8. Elsewhere(r) /\ NothingNew(r) BY <1>1, <1>6, <1>7 DEF Elsewhere, NothingNew, RefreshTyped
<1>9. cycles[r].awaits \subseteq Resources /\ cycles'[r] = cycles[r] /\ CycleOK(r)
  BY <1>1 DEF RefreshTyped, Cycle
<1>10. CycleOK(r)' /\ (Intact(r)' <=> Intact(r)) BY <1>7, <1>9 DEF CycleOK, Intact
<1>11. NothingFound(r) => NothingFound(r)' BY <1>7, <1>9, <1>10 DEF NothingFound, Looked
<1>12. RefreshTyped' BY <1>1, <1>8, <1>10, StaysTyped DEF RefreshTyped
<1>13. LinkOK' BY <1>1, <1>8, <1>11, LinkStays
<1>14. BelongsOK' BY <1>1 DEF BelongsOK
<1>15. ShownOK(r)' /\ RoundOK(r)' /\ ViewOK(r)'
  <2>1. \A x \in Resources : IsOld(r, x)' => IsOld(r, x) BY <1>1, <1>7 DEF IsOld, Looked
  <2> QED BY <1>1, <1>2, <1>9, <1>10, <2>1, StaysShown
<1> QED BY <1>1, <1>2, <1>12, <1>13, <1>14, <1>15 DEF RefreshInv

\* Something changes in a repository: an event says so, or the connection is missing.
LEMMA ChangesStep ==
  ASSUME RefreshInv, NEW r \in Trees, NEW scope \in ChangeKinds, Changes(r, scope)
  PROVE  RefreshInv'
<1>1. /\ RefreshTyped /\ LinkOK /\ BelongsOK /\ cycles' = cycles /\ reads' = reads /\ app' = app /\ link' = link /\ behind' = behind
      /\ readFaults' = readFaults /\ world \in [Trees -> Versions] /\ world[r] \in Versions
      /\ world' = [world EXCEPT ![r] = [res \in Resources |-> IF res \in ChangedBy(scope) THEN @[res] + 1 ELSE @[res]]]
      /\ reports' = (IF link = "down" THEN reports ELSE reports \cup {<<r, scope>>})
      /\ \A res \in ChangedBy(scope) : world[r][res] < MaxVersions
      /\ \A t \in Trees : app.tree = t => ShownOK(t) /\ RoundOK(t) /\ ViewOK(t)
  BY DEF RefreshInv, RefreshTyped, Changes
<1>2. moves' \in 0..MaxMoves BY <1>1, RefreshAssumption DEF Changes, Moves, RefreshTyped
<1> DEFINE now == [res \in Resources |-> IF res \in ChangedBy(scope) THEN world[r][res] + 1 ELSE world[r][res]]
<1>3. now \in Versions
  <2> SUFFICES ASSUME NEW res \in Resources
               PROVE  (IF res \in ChangedBy(scope) THEN world[r][res] + 1 ELSE world[r][res]) \in 0..MaxVersions
    BY DEF Versions
  <2> QED BY <1>1, RefreshAssumption DEF Versions
<1>4. \A res \in Resources \ ChangedBy(scope) : now[res] = world[r][res] OBVIOUS
<1>5. world' = [world EXCEPT ![r] = now] BY <1>1
<1> HIDE DEF now
<1>6. world' \in [Trees -> Versions] /\ world'[r] = now /\ \A t \in Trees \ {r} : world'[t] = world[t]
  BY <1>1, <1>3, <1>5
<1>7. RefreshTyped' BY <1>1, <1>2, <1>6 DEF RefreshTyped, CycleOK
<1>8. LinkOK' /\ BelongsOK' BY <1>1 DEF LinkOK, NothingFound, Looked, Intact, BelongsOK
<1>9. \A t \in Trees, s \in ChangeKinds : <<t, s>> \in reports => <<t, s>> \in reports' BY <1>1
<1>10. ASSUME NEW t \in Trees, app'.tree = t PROVE ShownOK(t)' /\ RoundOK(t)' /\ ViewOK(t)'
  <2>1. app.tree = t /\ ShownOK(t) /\ RoundOK(t) /\ ViewOK(t) BY <1>1, <1>10
  <2>2. CASE t # r
    <3>1. (\A res \in Resources : IsOld(t, res)' => IsOld(t, res)) /\ (Intact(t)' => Intact(t))
      BY <1>1, <1>6, <2>2 DEF IsOld, Looked, Intact
    <3> QED BY <1>1, <1>6, <1>9, <2>1, <2>2, <3>1, StaysShown
  <2>3. CASE t = r
    <3>1. ShownResources' = ShownResources /\ ShownResources \subseteq Resources
      BY <1>1 DEF ShownResources, Resources
    <3>2. ASSUME NEW x \in Resources
          PROVE  /\ (Told(r, x) => Told(r, x)') /\ (Due(r, x) => Due(r, x)') /\ (Again(r, x) => Again(r, x)')
                 /\ x \in ChangedBy(scope) => Due(r, x)' /\ (link # "down" => Told(r, x)')
                 /\ x \notin ChangedBy(scope) => (Fresh(r, x) => Fresh(r, x)') /\ (IsOld(r, x)' => IsOld(r, x))
      <4>1. Told(r, x) => Told(r, x)' BY <1>1, <1>9 DEF Told
      <4>2. x \in ChangedBy(scope) /\ link # "down" => Told(r, x)' BY <1>1 DEF Told
      <4>3. (Due(r, x) => Due(r, x)') /\ (x \in ChangedBy(scope) => Due(r, x)')
        BY <1>1, <4>1, <4>2 DEF Due
      <4>4. Again(r, x) => Again(r, x)' BY <1>1 DEF Again
      <4>5. ASSUME x \notin ChangedBy(scope) PROVE (Fresh(r, x) => Fresh(r, x)') /\ (IsOld(r, x)' => IsOld(r, x))
        <5>1. world'[r][x] = world[r][x] BY <1>4, <1>6, <3>2, <4>5
        <5> QED BY <1>1, <5>1 DEF Fresh, IsOld, Looked
      <4> QED BY <4>1, <4>2, <4>3, <4>4, <4>5
    <3>3. ShownOK(r)' BY <1>1, <2>1, <2>3, <3>1, <3>2, <1>4, <1>6 DEF ShownOK
    <3>4. ViewOK(r)' BY <1>1, <2>1, <2>3 DEF ViewOK
    <3>5. RoundOK(r)'
      <4>1. CASE link # "down" BY <1>1, <2>1, <2>3, <3>1, <3>2, <4>1 DEF RoundOK, Intact
      <4>2. CASE link = "down"
        <5>1. NothingFound(r) BY <1>1, <4>2 DEF LinkOK
        <5>2. (Intact(r)' => Intact(r)) /\ \A x \in Resources : ~IsOld(r, x)'
          BY <1>1, <5>1 DEF Intact, NothingFound, IsOld, Looked
        <5> QED BY <1>1, <3>1, <5>1, <5>2 DEF RoundOK, Fresh, NothingFound
      <4> QED BY <4>1, <4>2
    <3> QED BY <2>3, <3>3, <3>4, <3>5
  <2> QED BY <2>2, <2>3
<1> QED BY <1>7, <1>8, <1>10 DEF RefreshInv

\* The connection is lost: nothing is found from now on, and no round ends with what it has.
LEMMA LosesConnectionStep == ASSUME RefreshInv, LosesConnection PROVE RefreshInv'
<1>0. MaxReadFaults \in Nat /\ 0 \in 0..MaxVersions BY RefreshAssumption
<1> DEFINE now(r) == [res \in Resources |-> IF reads[r][res].stage = "none" THEN NoRead
                                            ELSE [reads[r][res] EXCEPT !.stage = "lost", !.version = 0]]
<1>1. /\ RefreshTyped /\ BelongsOK /\ world' = world /\ cycles' = cycles /\ app' = app /\ behind' = behind /\ moves' = moves
      /\ link' = "down" /\ reports' = {} /\ reads' = [r \in Trees |-> now(r)] /\ reads \in [Trees -> [Resources -> Read]]
      /\ \A t \in Trees : app.tree = t => ShownOK(t) /\ RoundOK(t) /\ ViewOK(t)
  BY DEF RefreshInv, RefreshTyped, LosesConnection
<1>2. readFaults' \in 0..MaxReadFaults
  <2>1. readFaults \in 0..MaxReadFaults /\ readFaults < MaxReadFaults /\ readFaults' = readFaults + 1
    BY <1>1 DEF LosesConnection, RefreshTyped
  <2> QED BY <1>0, <2>1
<1>3. ASSUME NEW r \in Trees, NEW res \in Resources
      PROVE  /\ reads'[r][res] \in Read /\ ~Looked(r, res)'
             /\ reads[r][res].stage # "none" => reads'[r][res].stage = "lost"
  <2> DEFINE e == [reads[r][res] EXCEPT !.stage = "lost", !.version = 0]
  <2>1. e \in Read /\ e.stage = "lost"
    <3>1. reads[r][res] \in Read BY <1>1
    <3> QED BY <1>0, <3>1 DEF Read
  <2>2. reads'[r][res] = IF reads[r][res].stage = "none" THEN NoRead ELSE e BY <1>1
  <2> HIDE DEF e
  <2> QED BY <2>1, <2>2, NoCycleType DEF Looked, NoRead
<1>4. reads' \in [Trees -> [Resources -> Read]]
  <2>1. ASSUME NEW r \in Trees PROVE now(r) \in [Resources -> Read] BY <1>1, <1>3
  <2> HIDE DEF now
  <2> QED BY <1>1, <2>1
<1> HIDE DEF now
<1>5. ASSUME NEW r \in Trees
      PROVE  CycleOK(r)' /\ NothingFound(r)' /\ (cycles'[r].stage = "reading" => ~Intact(r)')
  <2>1. CycleOK(r) /\ cycles'[r] = cycles[r] /\ cycles[r].awaits \subseteq Resources
    BY <1>1 DEF RefreshTyped, Cycle
  <2>2. \A res \in cycles[r].awaits : reads'[r][res].stage = "lost" BY <1>3, <2>1 DEF CycleOK
  <2>3. CycleOK(r)' BY <2>1, <2>2 DEF CycleOK
  <2>4. cycles'[r].stage = "reading" => ~Intact(r)' BY <2>1, <2>2 DEF CycleOK, Intact
  <2> QED BY <1>3, <2>3, <2>4 DEF NothingFound
<1>6. RefreshTyped' BY <1>1, <1>2, <1>4, <1>5 DEF RefreshTyped
<1>7. LinkOK' /\ BelongsOK' BY <1>1, <1>5 DEF LinkOK, BelongsOK
<1>8. ASSUME NEW t \in Trees, app'.tree = t PROVE ShownOK(t)' /\ RoundOK(t)' /\ ViewOK(t)'
  <2>1. ViewOK(t)' BY <1>1, <1>8 DEF ViewOK
  <2>2. RoundOK(t)' BY <1>5 DEF RoundOK
  <2>3. ShownOK(t)' BY <1>1 DEF ShownOK, Due
  <2> QED BY <2>1, <2>2, <2>3
<1> QED BY <1>6, <1>7, <1>8 DEF RefreshInv

LEMMA ConnectsAgainStep == ASSUME RefreshInv, LostReads = {}, ConnectsAgain PROVE RefreshInv'
<1>1. /\ RefreshTyped /\ BelongsOK /\ UNCHANGED <<world, reads, cycles, app, reports, behind, moves, readFaults>> /\ link' = "back"
      /\ link = "down" /\ \A t \in Trees : app.tree = t => ShownOK(t) /\ RoundOK(t) /\ ViewOK(t)
  BY DEF RefreshInv, ConnectsAgain
<1>2. RefreshTyped' /\ BelongsOK' BY <1>1 DEF RefreshTyped, CycleOK, BelongsOK
<1>3. \A r \in Trees, res \in Resources : reads[r][res].stage # "lost"
  <2> SUFFICES ASSUME NEW r \in Trees, NEW res \in Resources, reads[r][res].stage = "lost" PROVE FALSE
    OBVIOUS
  <2>1. <<r, res>> \in LostReads BY DEF LostReads
  <2> QED BY <2>1
<1>4. LinkOK' BY <1>1, <1>3 DEF LinkOK
<1>5. ASSUME NEW t \in Trees, app'.tree = t PROVE ShownOK(t)' /\ RoundOK(t)' /\ ViewOK(t)'
  <2>1. app.tree = t /\ ShownOK(t) /\ RoundOK(t) /\ ViewOK(t) BY <1>1, <1>5
  <2>2. (\A res \in Resources : IsOld(t, res)' => IsOld(t, res)) /\ (Intact(t)' => Intact(t))
    BY <1>1 DEF IsOld, Looked, Intact
  <2> QED BY <1>1, <2>1, <2>2, StaysShown
<1> QED BY <1>2, <1>4, <1>5 DEF RefreshInv

LEMMA BootstrapsStep == ASSUME RefreshInv, Bootstraps PROVE RefreshInv'
<1>1. /\ RefreshTyped /\ LinkOK /\ BelongsOK /\ app \in AppState /\ app.tree \in Trees \cup {NoTree}
      /\ world' = world /\ reports' = reports /\ link = "back" /\ link' = "up" /\ behind' = behind
      /\ moves' = moves /\ readFaults' = readFaults
  BY DEF RefreshInv, RefreshTyped, Bootstraps, AppState
<1>2. CASE app.tree = NoTree
  <2>1. UNCHANGED <<cycles, reads, app>> BY <1>2 DEF Bootstraps
  <2>2. RefreshTyped' BY <1>1, <2>1 DEF RefreshTyped, CycleOK
  <2>3. LinkOK' /\ BelongsOK' BY <1>1, <2>1 DEF LinkOK, BelongsOK
  <2> QED BY <1>2, <2>1, <2>2, <2>3, RefreshAssumption DEF RefreshInv
<1>3. CASE app.tree # NoTree
  <2> DEFINE q == InBackground("unknown")
  <2>1. q \in Refresh /\ q.scope = "unknown" /\ q.view = app.view /\ RefreshWith(app.tree, q, app)
    BY <1>1, <1>3, RequestTypes DEF Bootstraps, RepositoryChangeScope
  <2> HIDE DEF q
  <2>2. PICK t \in Trees : t = app.tree BY <1>1, <1>3
  <2> QED BY <1>1, <2>1, <2>2, AskedForShown DEF RefreshTyped
<1> QED BY <1>2, <1>3

LEMMA BootstrapFailsStep == ASSUME RefreshInv, BootstrapFails PROVE RefreshInv'
<1>1. /\ RefreshTyped /\ LinkOK /\ BelongsOK /\ UNCHANGED <<world, reads, cycles, app, reports, moves>> /\ link = "back" /\ link' = "up"
      /\ behind' = behind \cup ({app.tree} \ {NoTree}) /\ app.tree \in Trees \cup {NoTree}
      /\ \A t \in Trees : app.tree = t => ShownOK(t) /\ RoundOK(t) /\ ViewOK(t)
  BY DEF RefreshInv, RefreshTyped, BootstrapFails, AppState
<1>2. readFaults' \in 0..MaxReadFaults BY <1>1, RefreshAssumption DEF BootstrapFails, RefreshTyped
<1>3. RefreshTyped' BY <1>1, <1>2 DEF RefreshTyped, CycleOK
<1>4. LinkOK' /\ BelongsOK' BY <1>1 DEF LinkOK, BelongsOK
<1>5. ASSUME NEW t \in Trees, app'.tree = t PROVE ShownOK(t)' /\ RoundOK(t)' /\ ViewOK(t)'
  <2>1. app.tree = t /\ ShownOK(t) /\ RoundOK(t) /\ ViewOK(t) /\ t \in behind'
    BY <1>1, <1>5, RefreshAssumption
  <2>2. (\A res \in Resources : IsOld(t, res)' => IsOld(t, res)) /\ (Intact(t)' => Intact(t))
    BY <1>1 DEF IsOld, Looked, Intact
  <2> QED BY <1>1, <2>1, <2>2, StaysShown
<1> QED BY <1>3, <1>4, <1>5 DEF RefreshInv

\* Every step keeps it.
LEMMA RefreshStep == RefreshInv /\ [RefreshNext]_refreshVars => RefreshInv'
<1> SUFFICES ASSUME RefreshInv, [RefreshNext]_refreshVars PROVE RefreshInv'
  OBVIOUS
<1>1. CASE UNCHANGED refreshVars
  <2>1. UNCHANGED <<world, reads, cycles, app, reports, link, behind, moves, readFaults>>
    BY <1>1 DEF refreshVars
  <2>2. RefreshTyped' BY <2>1 DEF RefreshInv, RefreshTyped, CycleOK
  <2>3. LinkOK' /\ BelongsOK'
    BY <2>1 DEF RefreshInv, LinkOK, NothingFound, Looked, Intact, BelongsOK
  <2>4. ASSUME NEW t \in Trees, app'.tree = t PROVE ShownOK(t)' /\ RoundOK(t)' /\ ViewOK(t)'
    <3>1. app.tree = t /\ ShownOK(t) /\ RoundOK(t) /\ ViewOK(t) BY <2>1, <2>4 DEF RefreshInv
    <3>2. (\A res \in Resources : IsOld(t, res)' => IsOld(t, res)) /\ (Intact(t)' => Intact(t))
      BY <2>1 DEF IsOld, Looked, Intact
    <3> QED BY <2>1, <3>1, <3>2, StaysShown
  <2> QED BY <2>2, <2>3, <2>4 DEF RefreshInv
<1>2. ASSUME NEW rr \in LostReads, Fails(rr[1], rr[2]) PROVE RefreshInv'
  <2>1. rr[1] \in Trees /\ rr[2] \in Resources BY DEF LostReads
  <2> QED BY <1>2, <2>1, FailsStep
<1>3. ASSUME NEW r \in Trees, NEW res \in Resources, Looks(r, res) \/ Answers(r, res) \/ Fails(r, res) PROVE RefreshInv'
  BY <1>3, LooksStep, AnswersStep, FailsStep
<1>4. ASSUME NEW r \in Trees, FetchEnds(r) \/ Retries(r) PROVE RefreshInv'
  <2>1. CASE FetchEnds(r) BY <2>1, FetchEndsStep DEF FetchEnds
  <2>2. CASE Retries(r) BY <2>2, RetriesStep
  <2> QED BY <1>4, <2>1, <2>2
<1>5. ASSUME NEW r \in Trees, NEW scope \in ChangeKinds, EventArrives(r, scope) \/ Changes(r, scope) PROVE RefreshInv'
  BY <1>5, EventArrivesStep, ChangesStep
<1>6. CASE LostReads = {} /\ ConnectsAgain BY <1>6, ConnectsAgainStep
<1>7. CASE RefreshByHand \/ FetchedQuietly \/ PollFiles \/ LosesConnection \/ Bootstraps \/ BootstrapFails
  BY <1>7, RefreshByHandStep, FetchedQuietlyStep, PollFilesStep, LosesConnectionStep, BootstrapsStep, BootstrapFailsStep
<1> QED BY <1>1, <1>2, <1>3, <1>4, <1>5, <1>6, <1>7, ShowStep, ShowViewStep DEF RefreshNext

\* The properties follow.
LEMMA RefreshFacts == RefreshInv => RefreshTypeOK /\ NothingIsMissed /\ ShownBelongs
<1> SUFFICES ASSUME RefreshInv PROVE RefreshTypeOK /\ NothingIsMissed /\ ShownBelongs
  OBVIOUS
<1>1. RefreshTyped /\ BelongsOK BY DEF RefreshInv
<1>2. RefreshTypeOK
  <2>1. ASSUME NEW r \in Trees
        PROVE  LET c == cycles[r] IN
               /\ c.stage \in {"none", "fetching", "reading", "pausing"} /\ c.awaits \subseteq Resources /\ c.got \in Versions
               /\ {c.request, c.queued} \subseteq Refresh \cup {NoRequest} /\ {c.again, c.old} \subseteq BOOLEAN
               /\ (c.stage = "none" <=> c.request = NoRequest) /\ (c.awaits # {} <=> c.stage = "reading")
               /\ \A res \in c.awaits : reads[r][res].stage # "none"
    BY <1>1 DEF RefreshTyped, CycleOK, Cycle, Requests
  <2> QED BY <1>1, <2>1 DEF RefreshTypeOK, RefreshTyped, Read, AppState
<1>3. NothingIsMissed
  <2> SUFFICES ASSUME app.tree # NoTree, Quiet(app.tree), app.tree \notin behind
               PROVE  app.snapshot = app.tree /\ \A res \in ShownResources : app.has[res] = world[app.tree][res]
    BY DEF NothingIsMissed
  <2>1. PICK t \in Trees : app.tree = t BY <1>1 DEF RefreshTyped, AppState
  <2>2. ShownOK(t) /\ CycleOK(t) BY <1>1, <2>1 DEF RefreshInv, RefreshTyped
  <2>3. /\ link = "up" /\ cycles[t].stage = "none" /\ (\A scope \in ChangeKinds : <<t, scope>> \notin reports)
        /\ t \notin behind
    BY <2>1 DEF Quiet
  <2>4. cycles[t].queued = NoRequest BY <2>2, <2>3 DEF CycleOK
  <2>5. \A res \in ShownResources : ~Due(t, res) /\ ~Again(t, res) /\ ~Fresh(t, res)
    BY <2>3, <2>4 DEF Due, Told, Again, Fresh
  <2> QED BY <2>1, <2>2, <2>3, <2>5 DEF ShownOK
<1>4. ShownBelongs BY <1>1 DEF ShownBelongs, BelongsOK, ShownResources
<1> QED BY <1>2, <1>3, <1>4

------------------------------
(* Side by side. *)

\* cli-startup.ts, cli-service.ts 186-212: a command that restarts or installs the service and
\* reports success has its own start: the process that serves was born of the definition that
\* the command wrote, whatever other starts, failures and kills came in between, for any
\* processes and any number of mishaps.
THEOREM StartupsReadyAsAsked == ReadsSpec => []StartupsHold
<1>1. ReadsInit => StartupInv BY StartupStarts DEF ReadsInit
<1>2. StartupInv /\ [ReadsNext]_<<focus, vars, refreshVars, startupVars>> => StartupInv'
  <2>1. [ReadsNext]_<<focus, vars, refreshVars, startupVars>> => [StartupNext]_startupVars
    BY DEF ReadsNext
  <2> QED BY <2>1, StartupStep
<1>3. StartupInv => StartupsHold BY StartupFacts DEF StartupsHold
<1> QED BY <1>1, <1>2, <1>3, PTL DEF ReadsSpec

\* App.tsx 701-814, refresh-policy.ts: when nothing is on its way to a tab any more, it shows all
\* that has changed in its repository, whatever was merged, retried, given up or lost with the
\* connection, and until then nothing of another one: for any repositories, views, kinds of
\* change, and any number of changes and failures.
THEOREM TabsMissNothing == ReadsSpec => []RefreshesHold
<1>1. ReadsInit => RefreshInv BY RefreshStarts DEF ReadsInit
<1>2. RefreshInv /\ [ReadsNext]_<<focus, vars, refreshVars, startupVars>> => RefreshInv'
  <2>1. [ReadsNext]_<<focus, vars, refreshVars, startupVars>> => [RefreshNext]_refreshVars
    BY DEF ReadsNext
  <2> QED BY <2>1, RefreshStep
<1>3. RefreshInv => RefreshesHold BY RefreshFacts DEF RefreshesHold
<1> QED BY <1>1, <1>2, <1>3, PTL DEF ReadsSpec
==============================
