------- MODULE History_proofs -------
(****************************************)
(* The history of file operations, for any repositories, limits and number *)
(* of operations: undo and redo stay in order, tell the truth about the *)
(* files and count the bytes they keep; only eviction under a step that is *)
(* being applied makes another step disappear.  Then the types of all that *)
(* MCWorkingCopy composes. *)
(****************************************)
EXTENDS MCWorkingCopy, WorkingCopy_proofs, FiniteSetTheorems

------------------------------
(* A stack without the steps that are evicted: the n-th place that is left *)
(* is the one of rank n among them. *)

\* The places that are left, counted in their order.
LEMMA Ranks ==
  ASSUME NEW m \in Nat, NEW left \in SUBSET (1..m)
  PROVE  /\ Cardinality(left) \in 0..m
         /\ \A i \in left : Cardinality({j \in left : j <= i}) \in 1..Cardinality(left)
         /\ \A i, k \in left : i < k => Cardinality({j \in left : j <= i}) < Cardinality({j \in left : j <= k})
         /\ \A n \in 1..Cardinality(left) : \E i \in left : Cardinality({j \in left : j <= i}) = n
<1> DEFINE Below(i) == {j \in left : j <= i}
           rank == [i \in left |-> Cardinality(Below(i))]
<1>1. IsFiniteSet(1..m) /\ Cardinality(1..m) = m BY FS_Interval
<1>2. IsFiniteSet(left) /\ Cardinality(left) \in Nat /\ Cardinality(left) <= m
  BY <1>1, FS_Subset, FS_CardinalityType
<1>3. ASSUME NEW i \in left
      PROVE  /\ IsFiniteSet(Below(i)) /\ Cardinality(Below(i)) \in Nat
             /\ Cardinality(Below(i)) <= Cardinality(left) /\ Cardinality(Below(i)) # 0
  <2>1. Below(i) \subseteq left /\ i \in Below(i) OBVIOUS
  <2>2. IsFiniteSet(Below(i)) /\ Cardinality(Below(i)) <= Cardinality(left) BY <1>2, <2>1, FS_Subset
  <2>3. Cardinality(Below(i)) # 0 BY <2>1, <2>2, FS_EmptySet
  <2> QED BY <2>2, <2>3, FS_CardinalityType
<1>4. ASSUME NEW i \in left, NEW k \in left, i < k
      PROVE  Cardinality(Below(i)) < Cardinality(Below(k))
  <2>1. Below(i) \subseteq Below(k) /\ k \in Below(k) /\ k \notin Below(i)
    <3>1. i \in Nat /\ k \in Nat /\ left \subseteq Nat OBVIOUS
    <3>2. ASSUME NEW j \in left, j <= i PROVE j <= k /\ j # k
      <4> j \in Nat
        BY <3>1
      <4> QED BY <1>4, <3>1, <3>2
    <3>3. k <= k /\ k # i /\ ~(k <= i) BY <1>4, <3>1
    <3> QED BY <3>2, <3>3
  <2>2. Cardinality(Below(i)) <= Cardinality(Below(k)) /\ Cardinality(Below(i)) # Cardinality(Below(k))
    BY <1>3, <2>1, FS_Subset
  <2> QED BY <1>3, <2>2
<1>5. rank \in Injection(left, 1..Cardinality(left))
  <2>1. \A i \in left : rank[i] \in 1..Cardinality(left) BY <1>2, <1>3
  <2>2. \A i, k \in left : rank[i] = rank[k] => i = k
    <3> SUFFICES ASSUME NEW i \in left, NEW k \in left, i # k PROVE Cardinality(Below(i)) # Cardinality(Below(k))
      OBVIOUS
    <3>1. i < k \/ k < i OBVIOUS
    <3> QED BY <1>3, <1>4, <3>1
  <2> QED BY <2>1, <2>2 DEF Injection, IsInjective
<1>6. rank \in Surjection(left, 1..Cardinality(left)) BY <1>2, <1>5, FS_Interval, FS_Injection
<1>7. \A n \in 1..Cardinality(left) : \E i \in left : rank[i] = n BY <1>6 DEF Surjection
<1> QED BY <1>2, <1>3, <1>4, <1>7

\* A stack without the steps that are gone.
LEMMA RestOf ==
  ASSUME NEW S, NEW s \in Seq(S), NEW gone
  PROVE  /\ Rest(s, gone) \in Seq(S) /\ Len(Rest(s, gone)) <= Len(s)
         /\ ToSet(Rest(s, gone)) = ToSet(s) \ gone
         /\ ToSet(s) \cap gone # {} => Len(Rest(s, gone)) < Len(s)
         /\ \A n, k \in DOMAIN Rest(s, gone) : n < k =>
              \E i, j \in DOMAIN s : i < j /\ Rest(s, gone)[n] = s[i] /\ Rest(s, gone)[k] = s[j]
<1> DEFINE left == {i \in DOMAIN s : s[i] \notin gone}
           Rank(i) == Cardinality({j \in left : j <= i})
           Nth(n) == CHOOSE i \in left : Rank(i) = n
<1>1. DOMAIN s = 1..Len(s) /\ Len(s) \in Nat /\ left \subseteq 1..Len(s) OBVIOUS
<1>2. /\ Cardinality(left) \in 0..Len(s)
      /\ \A i \in left : Rank(i) \in 1..Cardinality(left)
      /\ \A i, k \in left : i < k => Rank(i) < Rank(k)
      /\ \A n \in 1..Cardinality(left) : \E i \in left : Rank(i) = n
  BY <1>1, Ranks
<1>3. Rest(s, gone) = [n \in 1..Cardinality(left) |-> s[Nth(n)]] BY DEF Rest
<1>4. \A n \in 1..Cardinality(left) : Nth(n) \in left /\ Rank(Nth(n)) = n BY <1>2
<1>5. \A i \in left : Nth(Rank(i)) = i
  <2> SUFFICES ASSUME NEW i \in left PROVE Nth(Rank(i)) = i
    OBVIOUS
  <2>1. Rank(i) \in 1..Cardinality(left) BY <1>2
  <2>2. Nth(Rank(i)) \in left /\ Rank(Nth(Rank(i))) = Rank(i) BY <1>4, <2>1
  <2>4. left \subseteq Nat BY <1>1
  <2> HIDE DEF Nth, Rank, left
  <2>3. ~(Nth(Rank(i)) < i) /\ ~(i < Nth(Rank(i))) BY <1>2, <2>1, <2>2
  <2>5. Nth(Rank(i)) \in Nat /\ i \in Nat BY <2>2, <2>4
  <2> QED BY <2>3, <2>5
<1>6. ToSet(s) \cap gone # {} => Cardinality(left) < Len(s)
  <2> SUFFICES ASSUME NEW i \in 1..Len(s), s[i] \in gone PROVE Cardinality(left) < Len(s)
    BY <1>1 DEF ToSet
  <2>1. left # 1..Len(s) OBVIOUS
  <2>2. IsFiniteSet(1..Len(s)) /\ Cardinality(1..Len(s)) = Len(s) BY <1>1, FS_Interval
  <2>3. Cardinality(left) # Len(s) BY <1>1, <2>1, <2>2, FS_Subset
  <2> QED BY <1>1, <1>2, <2>3
<1> HIDE DEF Nth, Rank
<1>7. Rest(s, gone) \in Seq(S) /\ Len(Rest(s, gone)) = Cardinality(left)
  <2>1. \A n \in 1..Cardinality(left) : s[Nth(n)] \in S BY <1>1, <1>4
  <2> QED BY <1>2, <1>3, <2>1
<1>8. ToSet(Rest(s, gone)) = ToSet(s) \ gone
  <2>1. ToSet(Rest(s, gone)) = {s[Nth(n)] : n \in 1..Cardinality(left)} BY <1>3 DEF ToSet
  <2>2. {s[Nth(n)] : n \in 1..Cardinality(left)} = {s[i] : i \in left} BY <1>2, <1>4, <1>5
  <2>3. {s[i] : i \in left} = ToSet(s) \ gone BY DEF ToSet
  <2> QED BY <2>1, <2>2, <2>3
<1>9. ASSUME NEW n \in DOMAIN Rest(s, gone), NEW k \in DOMAIN Rest(s, gone), n < k
      PROVE  \E i, j \in DOMAIN s : i < j /\ Rest(s, gone)[n] = s[i] /\ Rest(s, gone)[k] = s[j]
  <2>1. n \in 1..Cardinality(left) /\ k \in 1..Cardinality(left) BY <1>3
  <2>2. /\ Nth(n) \in left /\ Rank(Nth(n)) = n /\ Nth(k) \in left /\ Rank(Nth(k)) = k BY <1>4, <2>1
  <2>3. Nth(n) < Nth(k)
    <3>1. Nth(n) \in Nat /\ Nth(k) \in Nat BY <1>1, <2>2
    <3>2. ~(Nth(k) < Nth(n)) /\ Nth(k) # Nth(n) BY <1>2, <1>9, <2>1, <2>2
    <3> QED BY <3>1, <3>2
  <2> QED BY <1>3, <2>1, <2>2, <2>3
<1> QED BY <1>2, <1>6, <1>7, <1>8, <1>9

LEMMA LeastNatural ==
  ASSUME NEW T \in SUBSET Nat, T # {}
  PROVE  \E n \in T : \A k \in T : n <= k
<1> DEFINE R == OpToRel(<, Nat)
<1>1. IsWellFoundedOn(R, Nat) BY NatLessThanWellFounded
<1>2. PICK n \in T : \A k \in T : ~(<<k, n>> \in R) BY <1>1, WFMin
<1>3. \A k \in T : k < n => <<k, n>> \in R BY DEF OpToRel
<1> HIDE DEF R
<1>4. ASSUME NEW k \in T PROVE n <= k
  <2>1. ~(k < n) BY <1>2, <1>3
  <2> QED BY <2>1
<1> QED BY <1>4

------------------------------
(* Bytes are counted, so that those of two sets add up; eviction makes room. *)

LEMMA StepsAreFinite == IsFiniteSet(Step)
<1> DEFINE T == ((1..MaxOperations) \X {"plain", "image", "marker"}) \X (0..MaxSnapshotBytes)
           f == [s \in Step |-> <<<<s.id, s.kind>>, s.bytes>>]
<1>1. IsFiniteSet(1..MaxOperations) /\ IsFiniteSet(0..MaxSnapshotBytes)
  BY HistoryAssumption, FS_Interval
<1>2. IsFiniteSet({"plain", "image", "marker"})
  <2>1. IsFiniteSet({"plain"} \cup {"image"}) BY FS_Singleton, FS_AddElement
  <2>2. IsFiniteSet(({"plain"} \cup {"image"}) \cup {"marker"}) BY <2>1, FS_AddElement
  <2>3. ({"plain"} \cup {"image"}) \cup {"marker"} = {"plain", "image", "marker"} OBVIOUS
  <2> QED BY <2>2, <2>3
<1>3. IsFiniteSet(T) BY <1>1, <1>2, FS_Product
<1>4. f \in Injection(Step, T)
  <2>1. f \in [Step -> T] BY DEF Step
  <2>2. ASSUME NEW a \in Step, NEW b \in Step, f[a] = f[b] PROVE a = b
    <3>1. a.id = b.id /\ a.kind = b.kind /\ a.bytes = b.bytes BY <2>2
    <3> QED BY <3>1 DEF Step
  <2> QED BY <2>1, <2>2 DEF Injection, IsInjective
<1> QED BY <1>3, <1>4, FS_Injection

\* Bytes are counted once for each step.
LEMMA BytesAdd ==
  ASSUME NEW A \in SUBSET Step
  PROVE  /\ Bytes(A) \in Nat
         /\ \A B \in SUBSET A : Bytes(A \ B) = Bytes(A) - Bytes(B) /\ Bytes(B) \in Nat /\ Bytes(B) <= Bytes(A)
         /\ \A s \in Step \ A : Bytes(A \cup {s}) = Bytes(A) + s.bytes
         /\ Bytes({s \in A : s.bytes > 0}) = Bytes(A)
<1> DEFINE BytesOf(X) == {b \in X \X (1..MaxSnapshotBytes) : b[2] <= b[1].bytes}
<1>1. ASSUME NEW X \in SUBSET Step PROVE IsFiniteSet(BytesOf(X)) /\ Bytes(X) = Cardinality(BytesOf(X)) /\ Bytes(X) \in Nat
  <2>1. IsFiniteSet(X) /\ IsFiniteSet(1..MaxSnapshotBytes)
    BY StepsAreFinite, HistoryAssumption, FS_Subset, FS_Interval
  <2>2. IsFiniteSet(X \X (1..MaxSnapshotBytes)) BY <2>1, FS_Product
  <2>3. IsFiniteSet(BytesOf(X)) BY <2>2, FS_Subset
  <2> QED BY <2>3, FS_CardinalityType DEF Bytes
<1>2. ASSUME NEW B \in SUBSET A PROVE Bytes(A \ B) = Bytes(A) - Bytes(B) /\ Bytes(B) \in Nat /\ Bytes(B) <= Bytes(A)
  <2>1. BytesOf(A \ B) = BytesOf(A) \ BytesOf(B) /\ BytesOf(A) \cap BytesOf(B) = BytesOf(B) /\ BytesOf(B) \subseteq BytesOf(A)
    OBVIOUS
  <2>2. B \in SUBSET Step /\ A \ B \in SUBSET Step OBVIOUS
  <2> HIDE DEF BytesOf
  <2>3. Cardinality(BytesOf(A) \ BytesOf(B)) = Cardinality(BytesOf(A)) - Cardinality(BytesOf(B))
    <3>1. IsFiniteSet(BytesOf(A)) BY <1>1
    <3> QED BY <2>1, <3>1, FS_Difference
  <2>4. Cardinality(BytesOf(B)) <= Cardinality(BytesOf(A)) BY <1>1, <2>1, FS_Subset
  <2> QED BY <1>1, <2>1, <2>2, <2>3, <2>4
<1>3. ASSUME NEW s \in Step \ A PROVE Bytes(A \cup {s}) = Bytes(A) + s.bytes
  <2> DEFINE C == A \cup {s}
  <2>1. BytesOf({s}) = {s} \X (1..s.bytes) BY HistoryAssumption DEF Step
  <2>2. Cardinality({s} \X (1..s.bytes)) = s.bytes
    <3>1. s.bytes \in Nat BY HistoryAssumption DEF Step
    <3>2. IsFiniteSet(1..s.bytes) /\ Cardinality(1..s.bytes) = s.bytes BY <3>1, FS_Interval
    <3>3. IsFiniteSet({s}) /\ Cardinality({s}) = 1 BY FS_Singleton
    <3>4. Cardinality({s} \X (1..s.bytes)) = 1 * s.bytes BY <3>2, <3>3, FS_Product
    <3> QED BY <3>1, <3>4
  <2>3. BytesOf(C) = BytesOf(A) \cup BytesOf({s}) /\ BytesOf(A) \cap BytesOf({s}) = {} OBVIOUS
  <2>4. C \in SUBSET Step /\ {s} \in SUBSET Step /\ A \in SUBSET Step OBVIOUS
  <2> HIDE DEF BytesOf
  <2>5. Cardinality(BytesOf(A) \cup BytesOf({s})) = Cardinality(BytesOf(A)) + Cardinality(BytesOf({s})) - Cardinality({})
    <3>1. IsFiniteSet(BytesOf(A)) /\ IsFiniteSet(BytesOf({s})) BY <1>1, <2>4
    <3> QED BY <2>3, <3>1, FS_Union
  <2>6. Cardinality({}) = 0 BY FS_EmptySet
  <2>7. Bytes(C) = Cardinality(BytesOf(C)) /\ Bytes(A) = Cardinality(BytesOf(A)) /\ Bytes(A) \in Nat
    BY <1>1, <2>4
  <2>8. s.bytes \in Nat BY HistoryAssumption DEF Step
  <2>9. Cardinality(BytesOf(C)) = Cardinality(BytesOf(A)) + s.bytes
    <3>1. Cardinality(BytesOf({s})) = s.bytes BY <2>1, <2>2
    <3>2. Cardinality(BytesOf(C)) = Cardinality(BytesOf(A)) + Cardinality(BytesOf({s})) - 0
      BY <2>3, <2>5, <2>6
    <3> HIDE DEF C
    <3> QED BY <2>7, <2>8, <3>1, <3>2
  <2> HIDE DEF C
  <2>10. Bytes(C) = Bytes(A) + s.bytes BY <2>7, <2>9
  <2> QED BY <2>10 DEF C
<1>4. Bytes({s \in A : s.bytes > 0}) = Bytes(A)
  <2>1. BytesOf({s \in A : s.bytes > 0}) = BytesOf(A) BY HistoryAssumption DEF Step
  <2> QED BY <2>1 DEF Bytes
<1> QED BY <1>1, <1>2, <1>3, <1>4

\* Room is made: what is left fits together with what comes in.
LEMMA EvictionMakesRoom ==
  ASSUME NEW A \in SUBSET Step, NEW incoming \in 0..MaxSnapshotBytes
  PROVE  /\ Evicted(A, Bytes(A), incoming) \in SUBSET A
         /\ Bytes(A) - Bytes(Evicted(A, Bytes(A), incoming)) + incoming <= MaxSnapshotBytes
<1> DEFINE sized == {s \in A : s.bytes > 0}
           Before(s) == {t \in sized : t.id < s.id}
           gone == {s \in sized : Bytes(A) - Bytes(Before(s)) + incoming > MaxSnapshotBytes}
<1>1. Evicted(A, Bytes(A), incoming) = gone /\ gone \in SUBSET sized /\ sized \in SUBSET A
  BY DEF Evicted
<1>2. Bytes(A) \in Nat /\ Bytes(gone) \in Nat /\ Bytes(sized) = Bytes(A) /\ incoming \in Nat /\ MaxSnapshotBytes \in Nat
      /\ incoming <= MaxSnapshotBytes
  <2>1. gone \in SUBSET A BY <1>1
  <2>2. incoming \in Nat /\ MaxSnapshotBytes \in Nat /\ incoming <= MaxSnapshotBytes
    BY HistoryAssumption
  <2> HIDE DEF gone
  <2> QED BY <2>1, <2>2, BytesAdd
<1>3. CASE gone = sized
  <2>1. Bytes(gone) = Bytes(A) BY <1>2, <1>3
  <2> HIDE DEF gone, sized
  <2> QED BY <1>1, <1>2, <2>1
<1>4. CASE gone # sized
  <2> DEFINE ids == {s.id : s \in sized \ gone}
  <2>1. ids \in SUBSET Nat /\ ids # {}
    <3>1. \E s \in sized : s \notin gone BY <1>1, <1>4
    <3>2. \A s \in sized : s.id \in Nat BY HistoryAssumption DEF Step
    <3> HIDE DEF gone, sized
    <3> QED BY <3>1, <3>2
  <2>2. PICK n \in ids : \A k \in ids : n <= k BY <2>1, LeastNatural
  <2>3. PICK s \in sized \ gone : s.id = n BY <2>2
  <2>4. Before(s) \subseteq gone
    <3> SUFFICES ASSUME NEW t \in sized, t.id < s.id, t \notin gone PROVE FALSE
      OBVIOUS
    <3>1. t.id \in ids /\ t.id \in Nat /\ n \in Nat BY <2>1, <2>2
    <3>2. n <= t.id BY <2>2, <3>1
    <3>3. t.id < n BY <2>3
    <3> HIDE DEF ids
    <3> QED BY <3>1, <3>2, <3>3
  <2>5. Bytes(Before(s)) <= Bytes(gone) /\ Bytes(Before(s)) \in Nat
    <3>1. gone \in SUBSET Step /\ Before(s) \in SUBSET gone BY <1>1, <2>4
    <3> HIDE DEF gone, Before
    <3> QED BY <3>1, BytesAdd
  <2>6. ~(Bytes(A) - Bytes(Before(s)) + incoming > MaxSnapshotBytes) BY <2>3
  <2> HIDE DEF gone, Before
  <2> QED BY <1>1, <1>2, <2>5, <2>6
<1> QED BY <1>1, <1>3, <1>4

------------------------------
(* What holds of the stacks of one repository, whatever the others do. *)

Ascending(s) == \A i, j \in DOMAIN s : i < j => s[i].id < s[j].id
Descending(s) == \A i, j \in DOMAIN s : i < j => s[j].id < s[i].id

Own(u, d) == ToSet(u) \cup ToSet(d)
Applying(t) == t.pc \in {"undoing", "redoing"}

\* What task t applies was on top of its stack, and is while it was not evicted.
AppliesTop(u, d, t, evicted) ==
  LET source == IF t.pc = "undoing" THEN u ELSE d
      other == IF t.pc = "undoing" THEN d ELSE u
  IN
  /\ t.step \in Step /\ t.step.kind # "marker"
  /\ \A s \in ToSet(u) : s = t.step \/ s.id < t.step.id
  /\ \A s \in ToSet(d) : s = t.step \/ t.step.id < s.id
  /\ t.step \notin ToSet(other)
  /\ evicted \/ t.step \in ToSet(source)
  /\ t.step \in ToSet(source) \/ Len(u) + Len(d) < MaxSteps

\* The stacks u and d of a repository with task t.
Stacks(u, d, t, fs, last, evicted) ==
  /\ u \in Seq(Step) /\ d \in Seq(Step) /\ Len(u) + Len(d) <= MaxSteps
  /\ Ascending(u) /\ Descending(d) /\ \A a \in ToSet(u), b \in ToSet(d) : a.id < b.id
  /\ \A s \in Own(u, d) : s.id <= last /\ (s.kind = "marker" => s.bytes = 0)
  /\ \A s \in ToSet(u) : fs[s.id] # "undone"
  /\ \A s \in ToSet(d) : fs[s.id] # "done"
  /\ t \in Task
  /\ Applying(t) => t.step.id <= last /\ AppliesTop(u, d, t, evicted)

\* The steps of one repository are not those of another.
Holds(u, d, t) == Own(u, d) \cup (IF Applying(t) THEN {t.step} ELSE {})
Separate ==
  \A r, q \in Repositories : r # q =>
    \A a \in Holds(undo[r], redo[r], task[r]), b \in Holds(undo[q], redo[q], task[q]) : a.id # b.id

HistoryInv ==
  /\ undo \in [Repositories -> Seq(Step)] /\ redo \in [Repositories -> Seq(Step)]
  /\ task \in [Repositories -> Task] /\ files \in [1..MaxOperations -> {"done", "undone", "mixed"}]
  /\ snapshotBytes \in Int /\ sequence \in 0..MaxOperations /\ overtaken \in BOOLEAN
  /\ \A r \in Repositories : Stacks(undo[r], redo[r], task[r], files, sequence, overtaken)
  /\ Separate
  /\ BytesCounted

LEMMA Members ==
  ASSUME NEW S, NEW s \in Seq(S)
  PROVE  /\ ToSet(s) \subseteq S /\ DOMAIN s = 1..Len(s) /\ Len(s) \in Nat
         /\ \A i \in DOMAIN s : s[i] \in ToSet(s)
         /\ \A x \in ToSet(s) : \E i \in DOMAIN s : s[i] = x
BY DEF ToSet

LEMMA IdsAreNumbers == \A s \in Step : s.id \in 1..MaxOperations /\ s.id \in Nat
BY HistoryAssumption DEF Step

\* The top of a stack, and the stack without it.
LEMMA TopOf ==
  ASSUME NEW s \in Seq(Step), s # <<>>
  PROVE  /\ Front(s) \in Seq(Step) /\ Len(Front(s)) = Len(s) - 1 /\ Last(s) \in ToSet(s)
         /\ ToSet(s) = ToSet(Front(s)) \cup {Last(s)}
         /\ DOMAIN Front(s) \subseteq DOMAIN s /\ \A i \in DOMAIN Front(s) : Front(s)[i] = s[i] /\ i < Len(s)
         /\ Len(s) \in DOMAIN s /\ Last(s) = s[Len(s)]
<1>1. Len(s) \in Nat \ {0} /\ DOMAIN s = 1..Len(s) BY EmptySeq
<1>2. Front(s) = SubSeq(s, 1, Len(s) - 1) /\ Last(s) = s[Len(s)] BY DEF Front, Last
<1>3. Front(s) \in Seq(Step) /\ Len(Front(s)) = Len(s) - 1 /\ \A i \in 1..(Len(s) - 1) : Front(s)[i] = s[i]
  BY <1>1, <1>2
<1>4. DOMAIN Front(s) = 1..(Len(s) - 1) BY <1>3
<1>5. 1..Len(s) = 1..(Len(s) - 1) \cup {Len(s)} BY <1>1
<1>6. ToSet(s) = ToSet(Front(s)) \cup {Last(s)} BY <1>1, <1>2, <1>3, <1>4, <1>5 DEF ToSet
<1> QED BY <1>1, <1>2, <1>3, <1>4, <1>5, <1>6

LEMMA TopIsNewest ==
  ASSUME NEW s \in Seq(Step), NEW x \in ToSet(s), Ascending(s), \A y \in ToSet(s) : y = x \/ y.id < x.id
  PROVE  s # <<>> /\ Last(s) = x
<1>1. PICK i \in DOMAIN s : s[i] = x BY Members
<1>2. s # <<>> BY <1>1
<1>3. Len(s) \in DOMAIN s /\ Last(s) = s[Len(s)] /\ Last(s) \in ToSet(s) BY <1>2, TopOf
<1>4. i = Len(s) \/ i < Len(s) BY Members, <1>3
<1>5. CASE i < Len(s)
  <2>1. x.id < Last(s).id BY <1>1, <1>3, <1>5 DEF Ascending
  <2>2. Last(s) = x \/ Last(s).id < x.id BY <1>3
  <2>3. x.id \in Nat /\ Last(s).id \in Nat BY <1>3, Members, IdsAreNumbers
  <2> QED BY <2>1, <2>2, <2>3
<1> QED BY <1>1, <1>2, <1>3, <1>4, <1>5

LEMMA TopIsOldest ==
  ASSUME NEW s \in Seq(Step), NEW x \in ToSet(s), Descending(s), \A y \in ToSet(s) : y = x \/ x.id < y.id
  PROVE  s # <<>> /\ Last(s) = x
<1>1. PICK i \in DOMAIN s : s[i] = x BY Members
<1>2. s # <<>> BY <1>1
<1>3. Len(s) \in DOMAIN s /\ Last(s) = s[Len(s)] /\ Last(s) \in ToSet(s) BY <1>2, TopOf
<1>4. i = Len(s) \/ i < Len(s) BY Members, <1>3
<1>5. CASE i < Len(s)
  <2>1. Last(s).id < x.id BY <1>1, <1>3, <1>5 DEF Descending
  <2>2. Last(s) = x \/ x.id < Last(s).id BY <1>3
  <2>3. x.id \in Nat /\ Last(s).id \in Nat BY <1>3, Members, IdsAreNumbers
  <2> QED BY <2>1, <2>2, <2>3
<1> QED BY <1>1, <1>2, <1>3, <1>4, <1>5

\* A step that comes on top.
LEMMA PushOf ==
  ASSUME NEW s \in Seq(Step), NEW x \in Step
  PROVE  /\ Append(s, x) \in Seq(Step) /\ Len(Append(s, x)) = Len(s) + 1 /\ ToSet(Append(s, x)) = ToSet(s) \cup {x}
         /\ Ascending(s) /\ (\A y \in ToSet(s) : y.id < x.id) => Ascending(Append(s, x))
         /\ Descending(s) /\ (\A y \in ToSet(s) : x.id < y.id) => Descending(Append(s, x))
<1> DEFINE p == Append(s, x)
<1>1. p \in Seq(Step) /\ Len(p) = Len(s) + 1 /\ DOMAIN p = 1..(Len(s) + 1) /\ Len(s) \in Nat /\ DOMAIN s = 1..Len(s)
  OBVIOUS
<1>2. /\ \A i \in 1..Len(s) : p[i] = s[i]
      /\ p[Len(s) + 1] = x
  OBVIOUS
<1>3. ToSet(p) = ToSet(s) \cup {x}
  <2>1. 1..(Len(s) + 1) = 1..Len(s) \cup {Len(s) + 1} BY <1>1
  <2> QED BY <1>1, <1>2, <2>1 DEF ToSet
<1> HIDE DEF p
<1>4. \A i, j \in DOMAIN p : i < j =>
        i \in DOMAIN s /\ p[i] = s[i] /\ ((j \in DOMAIN s /\ p[j] = s[j]) \/ p[j] = x)
  <2> SUFFICES ASSUME NEW i \in DOMAIN p, NEW j \in DOMAIN p, i < j
               PROVE  i \in DOMAIN s /\ p[i] = s[i] /\ ((j \in DOMAIN s /\ p[j] = s[j]) \/ p[j] = x)
    OBVIOUS
  <2>1. i \in 1..Len(s) /\ (j \in 1..Len(s) \/ j = Len(s) + 1) BY <1>1
  <2> QED BY <1>1, <1>2, <2>1
<1>5. \A i \in DOMAIN s : s[i] \in ToSet(s) BY DEF ToSet
<1>6. Ascending(s) /\ (\A y \in ToSet(s) : y.id < x.id) => Ascending(p) BY <1>4, <1>5 DEF Ascending
<1>7. Descending(s) /\ (\A y \in ToSet(s) : x.id < y.id) => Descending(p)
  BY <1>4, <1>5 DEF Descending
<1> QED BY <1>1, <1>3, <1>6, <1>7 DEF p

\* The steps that fall off at the bottom.
LEMMA TrimOf ==
  ASSUME NEW s \in Seq(Step), Ascending(s)
  PROVE  /\ Trimmed(s) \in Seq(Step) /\ Len(Trimmed(s)) <= MaxSteps
         /\ ToSet(Trimmed(s)) \subseteq ToSet(s) /\ Ascending(Trimmed(s))
<1>1. Len(s) \in Nat /\ DOMAIN s = 1..Len(s) /\ MaxSteps \in Nat \ {0} BY HistoryAssumption
<1>2. CASE Len(s) > MaxSteps
  <2> DEFINE k == Len(s) - MaxSteps
             t == SubSeq(s, k + 1, Len(s))
  <2>1. Trimmed(s) = t BY <1>2 DEF Trimmed
  <2>2. k \in Nat /\ k + 1 \in 1..Len(s) /\ Len(s) - (k + 1) + 1 = MaxSteps BY <1>1, <1>2
  <2>3. t \in Seq(Step) /\ Len(t) = MaxSteps /\ \A i \in 1..MaxSteps : t[i] = s[i + k]
    <3>1. t \in Seq(Step) BY <1>1, <2>2
    <3>2. Len(t) = MaxSteps BY <1>1, <1>2, <2>2
    <3>3. \A i \in 1..MaxSteps : t[i] = s[i + k] BY <1>1, <1>2, <2>2
    <3> QED BY <3>1, <3>2, <3>3
  <2> HIDE DEF t
  <2>4. DOMAIN t = 1..MaxSteps /\ \A i \in 1..MaxSteps : i + k \in DOMAIN s BY <1>1, <1>2, <2>3
  <2>5. ToSet(t) \subseteq ToSet(s) BY <2>3, <2>4 DEF ToSet
  <2>6. Ascending(t)
    <3> SUFFICES ASSUME NEW i \in 1..MaxSteps, NEW j \in 1..MaxSteps, i < j PROVE t[i].id < t[j].id
      BY <2>4 DEF Ascending
    <3>1. i + k < j + k BY <1>1, <1>2
    <3> HIDE DEF k
    <3> QED BY <2>3, <2>4, <3>1 DEF Ascending
  <2> QED BY <1>1, <2>1, <2>3, <2>5, <2>6
<1>3. CASE ~(Len(s) > MaxSteps) BY <1>1, <1>3 DEF Trimmed
<1> QED BY <1>2, <1>3

\* What changes elsewhere leaves the stacks of a repository sound.
LEMMA StacksKeep ==
  ASSUME NEW u, NEW d, NEW t, NEW fs, NEW last \in Nat, NEW evicted, Stacks(u, d, t, fs, last, evicted),
         NEW fs2, NEW last2 \in Nat, NEW evicted2, last <= last2, evicted => evicted2,
         \A s \in Own(u, d) : fs2[s.id] = fs[s.id] \/ fs2[s.id] = "mixed"
  PROVE  Stacks(u, d, t, fs2, last2, evicted2)
<1>1. \A s \in Own(u, d) : s \in Step /\ s.id \in Nat
  <2>1. ToSet(u) \subseteq Step /\ ToSet(d) \subseteq Step BY Members DEF Stacks
  <2> QED BY <2>1, IdsAreNumbers DEF Own
<1>2. \A s \in Own(u, d) : s.id <= last2 /\ (s.kind = "marker" => s.bytes = 0) BY <1>1 DEF Stacks
<1>3. /\ \A s \in ToSet(u) : fs2[s.id] # "undone"
      /\ \A s \in ToSet(d) : fs2[s.id] # "done"
  BY DEF Stacks, Own
<1>4. Applying(t) => t.step.id <= last2 /\ AppliesTop(u, d, t, evicted2)
  <2> SUFFICES ASSUME Applying(t) PROVE t.step.id <= last2 /\ AppliesTop(u, d, t, evicted2)
    OBVIOUS
  <2>1. t.step.id <= last /\ AppliesTop(u, d, t, evicted) BY DEF Stacks
  <2>2. t.step.id \in Nat BY <2>1, IdsAreNumbers DEF AppliesTop
  <2>3. AppliesTop(u, d, t, evicted2) BY <2>1 DEF AppliesTop
  <2> QED BY <2>1, <2>2, <2>3
<1> QED BY <1>2, <1>3, <1>4 DEF Stacks

\* Steps that are evicted leave the others in order.
LEMMA StacksShrink ==
  ASSUME NEW u, NEW d, NEW t, NEW fs, NEW last \in Nat, NEW evicted, Stacks(u, d, t, fs, last, evicted),
         NEW gone, NEW evicted2, evicted => evicted2, Applying(t) /\ t.step \in gone => evicted2
  PROVE  /\ Stacks(Rest(u, gone), Rest(d, gone), t, fs, last, evicted2)
         /\ Own(Rest(u, gone), Rest(d, gone)) = Own(u, d) \ gone
<1> DEFINE v == Rest(u, gone)
           e == Rest(d, gone)
<1>1. u \in Seq(Step) /\ d \in Seq(Step) BY DEF Stacks
<1>2. /\ v \in Seq(Step) /\ Len(v) <= Len(u) /\ ToSet(v) = ToSet(u) \ gone
      /\ ToSet(u) \cap gone # {} => Len(v) < Len(u)
      /\ \A n, k \in DOMAIN v : n < k => \E i, j \in DOMAIN u : i < j /\ v[n] = u[i] /\ v[k] = u[j]
  BY <1>1, RestOf
<1>3. /\ e \in Seq(Step) /\ Len(e) <= Len(d) /\ ToSet(e) = ToSet(d) \ gone
      /\ ToSet(d) \cap gone # {} => Len(e) < Len(d)
      /\ \A n, k \in DOMAIN e : n < k => \E i, j \in DOMAIN d : i < j /\ e[n] = d[i] /\ e[k] = d[j]
  BY <1>1, RestOf
<1> HIDE DEF v, e
<1>4. Ascending(v)
  <2>1. Ascending(u) BY DEF Stacks
  <2> SUFFICES ASSUME NEW n \in DOMAIN v, NEW k \in DOMAIN v, n < k PROVE v[n].id < v[k].id
    BY DEF Ascending
  <2>2. PICK i \in DOMAIN u, j \in DOMAIN u : i < j /\ v[n] = u[i] /\ v[k] = u[j] BY <1>2
  <2> QED BY <2>1, <2>2 DEF Ascending
<1>5. Descending(e)
  <2>1. Descending(d) BY DEF Stacks
  <2> SUFFICES ASSUME NEW n \in DOMAIN e, NEW k \in DOMAIN e, n < k PROVE e[k].id < e[n].id
    BY DEF Descending
  <2>2. PICK i \in DOMAIN d, j \in DOMAIN d : i < j /\ e[n] = d[i] /\ e[k] = d[j] BY <1>3
  <2> QED BY <2>1, <2>2 DEF Descending
<1>6. Len(u) \in Nat /\ Len(d) \in Nat /\ Len(v) \in Nat /\ Len(e) \in Nat /\ MaxSteps \in Nat
  BY <1>1, <1>2, <1>3, HistoryAssumption
<1>7. Len(v) + Len(e) <= MaxSteps BY <1>2, <1>3, <1>6 DEF Stacks
<1>8. Own(v, e) = Own(u, d) \ gone BY <1>2, <1>3 DEF Own
<1>9. ASSUME Applying(t) PROVE AppliesTop(v, e, t, evicted2)
  <2>1. AppliesTop(u, d, t, evicted) BY <1>9 DEF Stacks
  <2>2. t.step \in ToSet(u) \cup ToSet(d) => t.step \in ToSet(v) \cup ToSet(e) \/ Len(v) + Len(e) < MaxSteps
    <3>1. CASE t.step \in gone
      <4>1. t.step \in ToSet(u) \cup ToSet(d) => Len(v) < Len(u) \/ Len(e) < Len(d)
        BY <1>2, <1>3, <3>1
      <4> QED BY <1>2, <1>3, <1>6, <4>1 DEF Stacks
    <3>2. CASE t.step \notin gone BY <1>2, <1>3, <3>2
    <3> QED BY <3>1, <3>2
  <2>3. Len(u) + Len(d) < MaxSteps => Len(v) + Len(e) < MaxSteps BY <1>2, <1>3, <1>6
  <2>4. /\ t.step \in Step /\ t.step.kind # "marker"
        /\ \A s \in ToSet(v) : s = t.step \/ s.id < t.step.id
        /\ \A s \in ToSet(e) : s = t.step \/ t.step.id < s.id
    BY <1>2, <1>3, <2>1 DEF AppliesTop
  <2>5. CASE t.pc = "undoing"
    <3>1. t.step \notin ToSet(d) /\ (evicted \/ t.step \in ToSet(u)) /\ (t.step \in ToSet(u) \/ Len(u) + Len(d) < MaxSteps)
      BY <2>1, <2>5 DEF AppliesTop
    <3>2. t.step \notin ToSet(e) /\ (evicted2 \/ t.step \in ToSet(v)) BY <1>2, <1>3, <1>9, <3>1
    <3>3. t.step \in ToSet(v) \/ Len(v) + Len(e) < MaxSteps BY <2>2, <2>3, <3>1, <3>2
    <3> QED BY <2>4, <2>5, <3>2, <3>3 DEF AppliesTop
  <2>6. CASE t.pc # "undoing"
    <3>1. t.step \notin ToSet(u) /\ (evicted \/ t.step \in ToSet(d)) /\ (t.step \in ToSet(d) \/ Len(u) + Len(d) < MaxSteps)
      BY <2>1, <2>6 DEF AppliesTop
    <3>2. t.step \notin ToSet(v) /\ (evicted2 \/ t.step \in ToSet(e)) BY <1>2, <1>3, <1>9, <3>1
    <3>3. t.step \in ToSet(e) \/ Len(v) + Len(e) < MaxSteps BY <2>2, <2>3, <3>1, <3>2
    <3> QED BY <2>4, <2>6, <3>2, <3>3 DEF AppliesTop
  <2> QED BY <2>5, <2>6
<1>10. Stacks(v, e, t, fs, last, evicted2)
  <2>1. \A a \in ToSet(v), b \in ToSet(e) : a.id < b.id BY <1>2, <1>3 DEF Stacks
  <2>2. \A s \in Own(v, e) : s.id <= last /\ (s.kind = "marker" => s.bytes = 0) BY <1>8 DEF Stacks
  <2>3. /\ \A s \in ToSet(v) : fs[s.id] # "undone"
        /\ \A s \in ToSet(e) : fs[s.id] # "done"
        /\ t \in Task /\ (Applying(t) => t.step.id <= last)
    BY <1>2, <1>3 DEF Stacks
  <2> QED BY <1>2, <1>3, <1>4, <1>5, <1>7, <1>9, <2>1, <2>2, <2>3 DEF Stacks
<1> QED BY <1>8, <1>10 DEF v, e

\* The stacks of a repository, one after the other, are in the order of the steps.
LEMMA StacksInOrder ==
  ASSUME NEW u \in Seq(Step), NEW d \in Seq(Step), Ascending(u), Descending(d),
         \A a \in ToSet(u), b \in ToSet(d) : a.id < b.id
  PROVE  \A i, j \in DOMAIN (u \o Reverse(d)) : i < j => (u \o Reverse(d))[i].id < (u \o Reverse(d))[j].id
<1> DEFINE v == Reverse(d)
           all == u \o v
<1>1. Len(u) \in Nat /\ Len(d) \in Nat /\ DOMAIN u = 1..Len(u) /\ DOMAIN d = 1..Len(d) OBVIOUS
<1>2. v = [i \in 1..Len(d) |-> d[(Len(d) - i) + 1]] BY DEF Reverse
<1>3. \A i \in 1..Len(d) : (Len(d) - i) + 1 \in 1..Len(d) BY <1>1
<1>4. v \in Seq(Step) /\ Len(v) = Len(d) /\ \A i \in 1..Len(d) : v[i] = d[(Len(d) - i) + 1]
  <2>1. \A i \in 1..Len(d) : d[(Len(d) - i) + 1] \in Step BY <1>1, <1>3
  <2> QED BY <1>1, <1>2, <2>1
<1> HIDE DEF v
<1>5. DOMAIN all = 1..(Len(u) + Len(d))
  <2>1. all \in Seq(Step) /\ Len(all) = Len(u) + Len(v) BY <1>4, ConcatProperties
  <2> HIDE DEF all
  <2>2. DOMAIN all = 1..Len(all) BY <2>1
  <2> QED BY <1>4, <2>1, <2>2
<1>6. \A i \in 1..(Len(u) + Len(d)) : all[i] = IF i <= Len(u) THEN u[i] ELSE v[i - Len(u)]
  BY <1>1, <1>4
<1> HIDE DEF all
<1>7. ASSUME NEW i \in 1..(Len(u) + Len(d)), NEW j \in 1..(Len(u) + Len(d)), i < j PROVE all[i].id < all[j].id
  <2>1. CASE j <= Len(u)
    <3>1. i \in DOMAIN u /\ j \in DOMAIN u /\ all[i] = u[i] /\ all[j] = u[j]
      BY <1>1, <1>6, <1>7, <2>1
    <3> QED BY <1>7, <3>1 DEF Ascending
  <2>2. CASE i > Len(u)
    <3> DEFINE m == (Len(d) - (i - Len(u))) + 1
               n == (Len(d) - (j - Len(u))) + 1
    <3>1. i - Len(u) \in 1..Len(d) /\ j - Len(u) \in 1..Len(d) BY <1>1, <1>7, <2>2
    <3>2. all[i] = d[m] /\ all[j] = d[n]
      <4>1. all[i] = v[i - Len(u)] /\ all[j] = v[j - Len(u)] BY <1>1, <1>6, <1>7, <2>2
      <4> QED BY <1>4, <3>1, <4>1
    <3>3. m \in 1..Len(d) /\ n \in 1..Len(d) /\ n < m BY <1>1, <1>7, <3>1
    <3> HIDE DEF m, n
    <3> QED BY <1>1, <3>2, <3>3 DEF Descending
  <2>3. CASE i <= Len(u) /\ j > Len(u)
    <3>1. j - Len(u) \in 1..Len(d) BY <1>1, <2>3
    <3>2. all[i] = u[i] /\ all[j] = d[(Len(d) - (j - Len(u))) + 1] BY <1>1, <1>4, <1>6, <2>3, <3>1
    <3>3. i \in DOMAIN u /\ (Len(d) - (j - Len(u))) + 1 \in DOMAIN d BY <1>1, <1>3, <2>3, <3>1
    <3>4. all[i] \in ToSet(u) /\ all[j] \in ToSet(d) BY <3>2, <3>3, Members
    <3> QED BY <3>4
  <2> QED BY <1>1, <2>1, <2>2, <2>3
<1> QED BY <1>5, <1>7 DEF all, v

LEMMA PoppedOf ==
  ASSUME NEW s \in Seq(Step), NEW x, x \in ToSet(s) => s # <<>> /\ Last(s) = x, Ascending(s) \/ Descending(s)
  PROVE  /\ Popped(s) \in Seq(Step) /\ Len(Popped(s)) <= Len(s) /\ (s # <<>> => Len(Popped(s)) < Len(s))
         /\ ToSet(Popped(s)) \subseteq ToSet(s) \ {x}
         /\ x \in ToSet(s) => ToSet(Popped(s)) = ToSet(s) \ {x}
         /\ Ascending(s) => Ascending(Popped(s))
         /\ Descending(s) => Descending(Popped(s))
<1>1. CASE s = <<>> BY <1>1 DEF Popped, ToSet
<1>2. CASE s # <<>>
  <2>1. Popped(s) = Front(s) BY <1>2 DEF Popped
  <2>2. /\ Front(s) \in Seq(Step) /\ Len(Front(s)) = Len(s) - 1 /\ Last(s) \in ToSet(s)
        /\ ToSet(s) = ToSet(Front(s)) \cup {Last(s)}
        /\ DOMAIN Front(s) \subseteq DOMAIN s /\ \A i \in DOMAIN Front(s) : Front(s)[i] = s[i] /\ i < Len(s)
        /\ Len(s) \in DOMAIN s /\ Last(s) = s[Len(s)]
    BY <1>2, TopOf
  <2>3. /\ Ascending(s) => Ascending(Front(s))
        /\ Descending(s) => Descending(Front(s))
    BY <2>2 DEF Ascending, Descending
  <2>4. Last(s) \notin ToSet(Front(s))
    <3> SUFFICES ASSUME NEW i \in DOMAIN Front(s), Front(s)[i] = Last(s) PROVE FALSE
      BY <2>2, Members
    <3>1. i \in DOMAIN s /\ i < Len(s) /\ s[i] = s[Len(s)] BY <2>2
    <3>2. s[i].id < s[Len(s)].id \/ s[Len(s)].id < s[i].id BY <2>2, <3>1 DEF Ascending, Descending
    <3>3. Last(s).id \in Nat BY <2>2, Members, IdsAreNumbers
    <3> QED BY <2>2, <3>1, <3>2, <3>3
  <2>5. Len(Front(s)) < Len(s) /\ Len(Front(s)) <= Len(s) BY <2>2
  <2> QED BY <1>2, <2>1, <2>2, <2>3, <2>4, <2>5
<1> QED BY <1>1, <1>2

\* The steps of a repository and the one it applies were recorded.
LEMMA StacksHold ==
  ASSUME NEW u, NEW d, NEW t, NEW fs, NEW last \in Nat, NEW evicted, Stacks(u, d, t, fs, last, evicted)
  PROVE  /\ \A s \in Holds(u, d, t) : s \in Step /\ s.id \in Nat /\ s.id <= last
         /\ Own(u, d) \subseteq Holds(u, d, t) /\ ToSet(u) \cap ToSet(d) = {}
<1>1. ToSet(u) \subseteq Step /\ ToSet(d) \subseteq Step BY Members DEF Stacks
<1>2. \A s \in Own(u, d) : s \in Step /\ s.id <= last BY <1>1 DEF Own, Stacks
<1>3. Applying(t) => t.step \in Step /\ t.step.id <= last BY DEF Stacks, AppliesTop
<1>4. ToSet(u) \cap ToSet(d) = {}
  <2> SUFFICES ASSUME NEW a \in ToSet(u), a \in ToSet(d) PROVE FALSE
    OBVIOUS
  <2>1. a.id < a.id /\ a.id \in Nat BY <1>1, IdsAreNumbers DEF Stacks
  <2> QED BY <2>1
<1> QED BY <1>2, <1>3, <1>4, IdsAreNumbers DEF Holds

\* A new step on top of what can be undone, when nothing can be redone.
LEMMA StacksPush ==
  ASSUME NEW u, NEW d, NEW t, NEW fs, NEW last \in Nat, NEW evicted, Stacks(u, d, t, fs, last, evicted),
         NEW step \in Step, step.id = last + 1, step.kind = "marker" => step.bytes = 0,
         NEW t2 \in Task, ~Applying(t2), NEW fs2, fs2[step.id] = "done", NEW evicted2,
         \A s \in Own(u, d) : fs2[s.id] = fs[s.id]
  PROVE  /\ Stacks(Trimmed(Append(u, step)), <<>>, t2, fs2, last + 1, evicted2)
         /\ ToSet(Trimmed(Append(u, step))) \subseteq ToSet(u) \cup {step}
<1> DEFINE p == Append(u, step)
           v == Trimmed(p)
<1>1. u \in Seq(Step) /\ Ascending(u) BY DEF Stacks
<1>2. \A s \in ToSet(u) : s \in Step /\ s.id \in Nat /\ s.id <= last /\ s \in Own(u, d)
  BY StacksHold DEF Holds, Own
<1>3. \A s \in ToSet(u) : s.id < step.id BY <1>2
<1>4. p \in Seq(Step) /\ Ascending(p) /\ ToSet(p) = ToSet(u) \cup {step} BY <1>1, <1>3, PushOf
<1>5. v \in Seq(Step) /\ Len(v) <= MaxSteps /\ ToSet(v) \subseteq ToSet(u) \cup {step} /\ Ascending(v)
  BY <1>4, TrimOf
<1> HIDE DEF v
<1>6. /\ <<>> \in Seq(Step) /\ Len(<<>>) = 0 /\ Descending(<<>>)
      /\ Len(v) \in Nat /\ ToSet(<<>>) = {}
  BY <1>5 DEF Descending, ToSet
<1>7. Len(v) + Len(<<>>) <= MaxSteps BY <1>5, <1>6, HistoryAssumption
<1>8. \A s \in ToSet(u) \cup {step} : s.id <= last + 1 /\ (s.kind = "marker" => s.bytes = 0)
  BY <1>2 DEF Stacks
<1>9. \A s \in ToSet(u) \cup {step} : fs2[s.id] # "undone" BY <1>2 DEF Stacks
<1> QED BY <1>5, <1>6, <1>7, <1>8, <1>9 DEF Stacks, Own, v

\* What stack d becomes when step x, undone, may be redone: an image's may be lost.
MayReturn(e, d, x) == e = d \/ e = Append(d, x)

\* What was applied changes sides.
LEMMA StacksUndo ==
  ASSUME NEW u, NEW d, NEW t, NEW fs, NEW last \in Nat, NEW evicted, Stacks(u, d, t, fs, last, evicted),
         t.pc = "undoing", NEW t2 \in Task, ~Applying(t2), NEW fs2, fs2[t.step.id] = "undone",
         \A s \in Own(u, d) : s.id # t.step.id => fs2[s.id] = fs[s.id],
         NEW e, MayReturn(e, d, t.step)
  PROVE  /\ Stacks(Popped(u), e, t2, fs2, last, evicted)
         /\ ToSet(Popped(u)) \subseteq ToSet(u) /\ (~evicted => ToSet(Popped(u)) = ToSet(u) \ {t.step})
         /\ t.step \in Step /\ (~evicted => t.step \in ToSet(u))
         /\ ToSet(e) = ToSet(d) \cup (IF e = d THEN {} ELSE {t.step})
<1> DEFINE v == Popped(u)
           x == t.step
<1>1. /\ x \in Step /\ x.id \in Nat /\ x.id <= last /\ x.kind # "marker" /\ x \notin ToSet(d)
      /\ \A s \in ToSet(u) : s = x \/ s.id < x.id
      /\ \A s \in ToSet(d) : s = x \/ x.id < s.id
      /\ evicted \/ x \in ToSet(u)
      /\ x \in ToSet(u) \/ Len(u) + Len(d) < MaxSteps
  BY IdsAreNumbers DEF Stacks, AppliesTop, Applying
<1>2. u \in Seq(Step) /\ Ascending(u) /\ d \in Seq(Step) /\ Descending(d) BY DEF Stacks
<1>3. x \in ToSet(u) => u # <<>> /\ Last(u) = x BY <1>1, <1>2, TopIsNewest
<1>4. /\ v \in Seq(Step) /\ Len(v) <= Len(u) /\ (u # <<>> => Len(v) < Len(u))
      /\ ToSet(v) \subseteq ToSet(u) \ {x} /\ (x \in ToSet(u) => ToSet(v) = ToSet(u) \ {x}) /\ Ascending(v)
  BY <1>2, <1>3, PoppedOf
<1> HIDE DEF v
<1>5. \A s \in ToSet(d) : x.id < s.id BY <1>1
<1>6. /\ Append(d, x) \in Seq(Step) /\ Len(Append(d, x)) = Len(d) + 1 /\ ToSet(Append(d, x)) = ToSet(d) \cup {x}
      /\ Descending(Append(d, x))
  BY <1>1, <1>2, <1>5, PushOf
<1>7. e \in Seq(Step) /\ Descending(e) /\ Len(e) <= Len(d) + 1 /\ ToSet(e) \subseteq ToSet(d) \cup {x}
  <2>1. CASE e = d BY <1>2, <2>1
  <2>2. CASE e = Append(d, x)
    <3>1. Len(d) + 1 <= Len(d) + 1 BY <1>2
    <3> QED BY <1>6, <2>2, <3>1
  <2> QED BY <2>1, <2>2 DEF MayReturn
<1>8. Len(v) + Len(e) <= MaxSteps
  <2>1. Len(v) \in Nat /\ Len(u) \in Nat /\ Len(d) \in Nat /\ Len(e) \in Nat /\ MaxSteps \in Nat
    BY <1>2, <1>4, <1>7, HistoryAssumption
  <2>2. Len(u) + Len(d) <= MaxSteps BY DEF Stacks
  <2>3. Len(v) < Len(u) \/ Len(u) + Len(d) < MaxSteps BY <1>1, <1>3, <1>4
  <2> QED BY <1>4, <1>7, <2>1, <2>2, <2>3
<1>9. \A a \in ToSet(v), b \in ToSet(e) : a.id < b.id
  <2> SUFFICES ASSUME NEW a \in ToSet(v), NEW b \in ToSet(e) PROVE a.id < b.id
    OBVIOUS
  <2>1. a \in ToSet(u) /\ a.id < x.id BY <1>1, <1>4
  <2>2. b \in ToSet(d) \/ b = x BY <1>7
  <2> QED BY <2>1, <2>2 DEF Stacks
<1>10. \A s \in Own(v, e) : s.id <= last /\ (s.kind = "marker" => s.bytes = 0)
  <2>1. Own(v, e) \subseteq Own(u, d) \cup {x} BY <1>4, <1>7 DEF Own
  <2> QED BY <1>1, <2>1 DEF Stacks
<1>11. \A s \in ToSet(v) : fs2[s.id] # "undone"
  <2> SUFFICES ASSUME NEW s \in ToSet(v) PROVE fs2[s.id] # "undone"
    OBVIOUS
  <2>1. s \in ToSet(u) /\ s.id < x.id /\ s.id \in Nat BY <1>1, <1>2, <1>4, Members, IdsAreNumbers
  <2>2. fs2[s.id] = fs[s.id] BY <1>1, <2>1 DEF Own
  <2> QED BY <2>1, <2>2 DEF Stacks
<1>12. \A s \in ToSet(e) : fs2[s.id] # "done"
  <2> SUFFICES ASSUME NEW s \in ToSet(e), s # x PROVE fs2[s.id] # "done"
    OBVIOUS
  <2>1. s \in ToSet(d) /\ x.id < s.id /\ s.id \in Nat BY <1>2, <1>5, <1>7, Members, IdsAreNumbers
  <2>2. fs2[s.id] = fs[s.id] BY <1>1, <2>1 DEF Own
  <2> QED BY <2>1, <2>2 DEF Stacks
<1>13. Stacks(v, e, t2, fs2, last, evicted)
  BY <1>4, <1>7, <1>8, <1>9, <1>10, <1>11, <1>12 DEF Stacks
<1>14. ToSet(e) = ToSet(d) \cup (IF e = d THEN {} ELSE {x}) BY <1>6 DEF MayReturn
<1> QED BY <1>1, <1>4, <1>13, <1>14 DEF v

LEMMA StacksRedo ==
  ASSUME NEW u, NEW d, NEW t, NEW fs, NEW last \in Nat, NEW evicted, Stacks(u, d, t, fs, last, evicted),
         t.pc = "redoing", NEW t2 \in Task, ~Applying(t2), NEW fs2, fs2[t.step.id] = "done",
         \A s \in Own(u, d) : s.id # t.step.id => fs2[s.id] = fs[s.id]
  PROVE  /\ Stacks(Append(u, t.step), Popped(d), t2, fs2, last, evicted)
         /\ ToSet(Popped(d)) \subseteq ToSet(d) /\ (~evicted => ToSet(Popped(d)) = ToSet(d) \ {t.step})
         /\ t.step \in Step /\ (~evicted => t.step \in ToSet(d))
         /\ ToSet(Append(u, t.step)) = ToSet(u) \cup {t.step}
<1> DEFINE e == Popped(d)
           x == t.step
           v == Append(u, x)
<1>1. /\ x \in Step /\ x.id \in Nat /\ x.id <= last /\ x.kind # "marker" /\ x \notin ToSet(u)
      /\ \A s \in ToSet(u) : s = x \/ s.id < x.id
      /\ \A s \in ToSet(d) : s = x \/ x.id < s.id
      /\ evicted \/ x \in ToSet(d)
      /\ x \in ToSet(d) \/ Len(u) + Len(d) < MaxSteps
  BY IdsAreNumbers DEF Stacks, AppliesTop, Applying
<1>2. u \in Seq(Step) /\ Ascending(u) /\ d \in Seq(Step) /\ Descending(d) BY DEF Stacks
<1>3. x \in ToSet(d) => d # <<>> /\ Last(d) = x BY <1>1, <1>2, TopIsOldest
<1>4. /\ e \in Seq(Step) /\ Len(e) <= Len(d) /\ (d # <<>> => Len(e) < Len(d))
      /\ ToSet(e) \subseteq ToSet(d) \ {x} /\ (x \in ToSet(d) => ToSet(e) = ToSet(d) \ {x}) /\ Descending(e)
  BY <1>2, <1>3, PoppedOf
<1> HIDE DEF e
<1>5. \A s \in ToSet(u) : s.id < x.id BY <1>1
<1>6. v \in Seq(Step) /\ Len(v) = Len(u) + 1 /\ ToSet(v) = ToSet(u) \cup {x} /\ Ascending(v)
  BY <1>1, <1>2, <1>5, PushOf
<1> HIDE DEF v
<1>8. Len(v) + Len(e) <= MaxSteps
  <2>1. Len(v) \in Nat /\ Len(u) \in Nat /\ Len(d) \in Nat /\ Len(e) \in Nat /\ MaxSteps \in Nat
    BY <1>2, <1>4, <1>6, HistoryAssumption
  <2>2. Len(u) + Len(d) <= MaxSteps BY DEF Stacks
  <2>3. Len(e) < Len(d) \/ Len(u) + Len(d) < MaxSteps BY <1>1, <1>3, <1>4
  <2> QED BY <1>4, <1>6, <2>1, <2>2, <2>3
<1>9. \A a \in ToSet(v), b \in ToSet(e) : a.id < b.id
  <2> SUFFICES ASSUME NEW a \in ToSet(v), NEW b \in ToSet(e) PROVE a.id < b.id
    OBVIOUS
  <2>1. b \in ToSet(d) /\ x.id < b.id BY <1>1, <1>4
  <2>2. a \in ToSet(u) \/ a = x BY <1>6
  <2> QED BY <2>1, <2>2 DEF Stacks
<1>10. \A s \in Own(v, e) : s.id <= last /\ (s.kind = "marker" => s.bytes = 0)
  <2>1. Own(v, e) \subseteq Own(u, d) \cup {x} BY <1>4, <1>6 DEF Own
  <2> QED BY <1>1, <2>1 DEF Stacks
<1>11. \A s \in ToSet(v) : fs2[s.id] # "undone"
  <2> SUFFICES ASSUME NEW s \in ToSet(v), s # x PROVE fs2[s.id] # "undone"
    OBVIOUS
  <2>1. s \in ToSet(u) /\ s.id < x.id /\ s.id \in Nat BY <1>1, <1>2, <1>6, Members, IdsAreNumbers
  <2>2. fs2[s.id] = fs[s.id] BY <1>1, <2>1 DEF Own
  <2> QED BY <2>1, <2>2 DEF Stacks
<1>12. \A s \in ToSet(e) : fs2[s.id] # "done"
  <2> SUFFICES ASSUME NEW s \in ToSet(e) PROVE fs2[s.id] # "done"
    OBVIOUS
  <2>1. s \in ToSet(d) /\ x.id < s.id /\ s.id \in Nat BY <1>1, <1>2, <1>4, Members, IdsAreNumbers
  <2>2. fs2[s.id] = fs[s.id] BY <1>1, <2>1 DEF Own
  <2> QED BY <2>1, <2>2 DEF Stacks
<1>13. Stacks(v, e, t2, fs2, last, evicted)
  BY <1>4, <1>6, <1>8, <1>9, <1>10, <1>11, <1>12 DEF Stacks
<1> QED BY <1>1, <1>4, <1>6, <1>13 DEF e, v

------------------------------
(* The steps of the history. *)

Holding(r) == Holds(undo[r], redo[r], task[r])

LEMMA HoldingOf ==
  ASSUME HistoryInv
  PROVE  /\ \A r \in Repositories : \A s \in Holding(r) : s \in Step /\ s.id \in Nat /\ s.id <= sequence
         /\ \A r \in Repositories : Own(undo[r], redo[r]) \subseteq Holding(r)
         /\ Kept(undo, redo) = UNION {Own(undo[r], redo[r]) : r \in Repositories}
         /\ Kept(undo, redo) \in SUBSET Step
<1>1. sequence \in Nat BY HistoryAssumption DEF HistoryInv
<1>2. ASSUME NEW r \in Repositories
      PROVE  /\ \A s \in Holding(r) : s \in Step /\ s.id \in Nat /\ s.id <= sequence
             /\ Own(undo[r], redo[r]) \subseteq Holding(r)
  <2>1. Stacks(undo[r], redo[r], task[r], files, sequence, overtaken) BY DEF HistoryInv
  <2> QED BY <1>1, <2>1, StacksHold DEF Holding
<1>3. Kept(undo, redo) = UNION {Own(undo[r], redo[r]) : r \in Repositories} BY DEF Kept, Own
<1>4. Kept(undo, redo) \in SUBSET Step BY <1>2, <1>3
<1> QED BY <1>2, <1>3, <1>4

LEMMA SeparateStays ==
  ASSUME Separate, \A r \in Repositories : Holding(r)' \subseteq Holding(r)
  PROVE  Separate'
<1> SUFFICES ASSUME NEW r \in Repositories, NEW q \in Repositories, r # q,
                    NEW a \in Holding(r)', NEW b \in Holding(q)'
             PROVE  a.id # b.id
  BY DEF Separate, Holding
<1> a \in Holding(r) /\ b \in Holding(q)
  OBVIOUS
<1> QED BY DEF Separate, Holding

\* The new step is not one of those that are held.
LEMMA SeparateGrows ==
  ASSUME HistoryInv, NEW r \in Repositories, NEW step, step.id = sequence + 1,
         \A q \in Repositories : Holding(q)' \subseteq Holding(q) \cup (IF q = r THEN {step} ELSE {})
  PROVE  Separate'
<1> SUFFICES ASSUME NEW p \in Repositories, NEW q \in Repositories, p # q,
                    NEW a \in Holding(p)', NEW b \in Holding(q)'
             PROVE  a.id # b.id
  BY DEF Separate, Holding
<1>1. \/ a \in Holding(p) /\ b \in Holding(q)
      \/ a = step /\ b \in Holding(q)
      \/ a \in Holding(p) /\ b = step
  OBVIOUS
<1>2. CASE a \in Holding(p) /\ b \in Holding(q) BY <1>2 DEF HistoryInv, Separate, Holding
<1>3. sequence \in Nat BY HistoryAssumption DEF HistoryInv
<1>4. \A s \in Holding(p) \cup Holding(q) : s.id \in Nat /\ s.id <= sequence BY HoldingOf
<1>5. \A s \in Holding(p) \cup Holding(q) : s.id # sequence + 1 BY <1>3, <1>4
<1> QED BY <1>1, <1>2, <1>5

\* Recording, whatever has to go for it.
LEMMA RecordStep ==
  ASSUME HistoryInv, NEW r \in Repositories, NEW kind \in {"plain", "image", "marker"},
         NEW bytes \in 0..MaxSnapshotBytes, sequence < MaxOperations, kind = "marker" => bytes = 0,
         Record(r, kind, bytes), ~Applying(task[r]), task' \in [Repositories -> Task],
         \A q \in Repositories : IF q = r THEN ~Applying(task'[q]) ELSE task'[q] = task[q]
  PROVE  HistoryInv'
<1> DEFINE step == [id |-> sequence + 1, kind |-> kind, bytes |-> bytes]
           R == ToSet(redo[r])
           total == snapshotBytes - Bytes(R)
           K == Kept(undo, NoRedo(r))
           gone == Evicted(K, total, bytes)
           pushed == Append(Without(undo, gone)[r], step)
           D == ToSet(pushed) \ ToSet(Trimmed(pushed))
<1>1. /\ undo' = [Without(undo, gone) EXCEPT ![r] = Trimmed(pushed)]
      /\ redo' = Without(NoRedo(r), gone)
      /\ snapshotBytes' = total - Bytes(gone) + bytes - Bytes(D)
      /\ sequence' = sequence + 1 /\ files' = [files EXCEPT ![step.id] = "done"]
      /\ overtaken' = (overtaken \/ Overtakes(gone))
  BY DEF Record
<1>2. /\ sequence \in Nat /\ sequence + 1 \in 1..MaxOperations /\ sequence' \in 0..MaxOperations
      /\ step \in Step /\ step.id = sequence + 1 /\ step.bytes = bytes /\ (step.kind = "marker" => step.bytes = 0)
  BY <1>1, HistoryAssumption DEF HistoryInv, Step
<1> HIDE DEF step, gone, total, K
<1>3. \A q \in Repositories : Without(undo, gone)[q] = Rest(undo[q], gone) /\ Without(redo, gone)[q] = Rest(redo[q], gone)
  BY DEF Without
<1>4. pushed = Append(Rest(undo[r], gone), step) BY <1>3
<1> HIDE DEF pushed
<1>5. \A q \in Repositories : undo'[q] = IF q = r THEN Trimmed(pushed) ELSE Rest(undo[q], gone)
  BY <1>1, <1>3 DEF Without
<1>6. /\ \A q \in Repositories : redo'[q] = IF q = r THEN <<>> ELSE Rest(redo[q], gone)
      /\ redo' \in [Repositories -> Seq(Step)]
  <2>1. \A q \in Repositories : redo'[q] = IF q = r THEN Rest(<<>>, gone) ELSE Rest(redo[q], gone)
    BY <1>1 DEF Without, NoRedo, HistoryInv
  <2>2. Rest(<<>>, gone) \in Seq(Step) /\ Len(Rest(<<>>, gone)) <= Len(<<>>) BY RestOf, EmptySeq
  <2>3. Rest(<<>>, gone) = <<>>
    <3>1. Len(<<>>) = 0 /\ Len(Rest(<<>>, gone)) \in Nat BY <2>2
    <3>2. Len(Rest(<<>>, gone)) = 0 BY <2>2, <3>1
    <3> QED BY <2>2, <3>2, EmptySeq
  <2>4. \A q \in Repositories : Rest(redo[q], gone) \in Seq(Step) BY RestOf DEF HistoryInv
  <2>5. redo' = [q \in Repositories |-> redo'[q]] BY <1>1 DEF Without
  <2> QED BY <2>1, <2>2, <2>3, <2>4, <2>5
<1>7. ASSUME NEW q \in Repositories
      PROVE  /\ Stacks(Rest(undo[q], gone), Rest(redo[q], gone), task[q], files, sequence, overtaken')
             /\ Own(Rest(undo[q], gone), Rest(redo[q], gone)) = Own(undo[q], redo[q]) \ gone
             /\ ToSet(Rest(undo[q], gone)) = ToSet(undo[q]) \ gone
  <2>1. Stacks(undo[q], redo[q], task[q], files, sequence, overtaken) /\ undo[q] \in Seq(Step)
    BY DEF HistoryInv
  <2>2. overtaken => overtaken' BY <1>1
  <2>3. Applying(task[q]) /\ task[q].step \in gone => overtaken' BY <1>1 DEF Overtakes, Applying
  <2>4. /\ Stacks(Rest(undo[q], gone), Rest(redo[q], gone), task[q], files, sequence, overtaken')
        /\ Own(Rest(undo[q], gone), Rest(redo[q], gone)) = Own(undo[q], redo[q]) \ gone
    <3>1. PICK u, d, t, fs, last, was, over :
            /\ u = undo[q] /\ d = redo[q] /\ t = task[q] /\ fs = files /\ last = sequence
            /\ was = overtaken /\ over = overtaken'
      OBVIOUS
    <3>2. Stacks(u, d, t, fs, last, was) /\ last \in Nat /\ (was => over) /\ (Applying(t) /\ t.step \in gone => over)
      BY <1>2, <2>1, <2>2, <2>3, <3>1
    <3>3. Stacks(Rest(u, gone), Rest(d, gone), t, fs, last, over) /\ Own(Rest(u, gone), Rest(d, gone)) = Own(u, d) \ gone
      BY <3>2, StacksShrink
    <3> QED BY <3>1, <3>3
  <2>5. ToSet(Rest(undo[q], gone)) = ToSet(undo[q]) \ gone BY <2>1, RestOf
  <2> QED BY <2>4, <2>5
<1>8. \A q \in Repositories : \A s \in Own(undo[q], redo[q]) :
        s \in Step /\ s.id \in Nat /\ s.id <= sequence /\ files'[s.id] = files[s.id]
  <2> SUFFICES ASSUME NEW q \in Repositories, NEW s \in Own(undo[q], redo[q])
               PROVE  s \in Step /\ s.id \in Nat /\ s.id <= sequence /\ files'[s.id] = files[s.id]
    OBVIOUS
  <2>1. s \in Step /\ s.id \in Nat /\ s.id <= sequence BY HoldingOf
  <2>2. s.id # step.id BY <1>2, <2>1
  <2> QED BY <1>1, <2>1, <2>2 DEF HistoryInv
<1>9. files'[step.id] = "done" BY <1>1, <1>2 DEF HistoryInv
<1>10. /\ Stacks(undo'[r], redo'[r], task'[r], files', sequence', overtaken')
       /\ ToSet(undo'[r]) \subseteq (ToSet(undo[r]) \ gone) \cup {step}
  <2>1. \A s \in Own(Rest(undo[r], gone), Rest(redo[r], gone)) : files'[s.id] = files[s.id]
    BY <1>7, <1>8
  <2>2. task'[r] \in Task /\ ~Applying(task'[r]) OBVIOUS
  <2>3. /\ undo'[r] = Trimmed(Append(Rest(undo[r], gone), step)) /\ redo'[r] = <<>> /\ sequence' = sequence + 1
    BY <1>1, <1>4, <1>5, <1>6
  <2>4. Stacks(Rest(undo[r], gone), Rest(redo[r], gone), task[r], files, sequence, overtaken')
    BY <1>7
  <2>5. /\ Stacks(undo'[r], redo'[r], task'[r], files', sequence', overtaken')
        /\ ToSet(undo'[r]) \subseteq ToSet(Rest(undo[r], gone)) \cup {step}
    <3>1. PICK u, d, t, fs, last, was, t2, fs2, over :
            /\ u = Rest(undo[r], gone) /\ d = Rest(redo[r], gone) /\ t = task[r] /\ fs = files /\ last = sequence
            /\ was = overtaken' /\ t2 = task'[r] /\ fs2 = files' /\ over = overtaken'
      OBVIOUS
    <3>2. Stacks(u, d, t, fs, last, was) /\ last \in Nat /\ t2 \in Task /\ ~Applying(t2) /\ fs2[step.id] = "done"
      BY <1>2, <1>9, <2>2, <2>4, <3>1
    <3>3. \A s \in Own(u, d) : fs2[s.id] = fs[s.id] BY <2>1, <3>1
    <3>4. step \in Step /\ step.id = last + 1 /\ (step.kind = "marker" => step.bytes = 0)
      BY <1>2, <3>1
    <3>5. /\ Stacks(Trimmed(Append(u, step)), <<>>, t2, fs2, last + 1, over)
          /\ ToSet(Trimmed(Append(u, step))) \subseteq ToSet(u) \cup {step}
      BY <3>2, <3>3, <3>4, StacksPush
    <3> QED BY <2>3, <3>1, <3>5
  <2> QED BY <1>7, <2>5
<1>11. ASSUME NEW q \in Repositories, q # r
       PROVE  Stacks(undo'[q], redo'[q], task'[q], files', sequence', overtaken')
  <2>1. undo'[q] = Rest(undo[q], gone) /\ redo'[q] = Rest(redo[q], gone) /\ task'[q] = task[q]
    BY <1>5, <1>6, <1>11
  <2>2. Stacks(undo'[q], redo'[q], task'[q], files, sequence, overtaken') BY <1>7, <2>1
  <2>3. \A s \in Own(undo'[q], redo'[q]) : files'[s.id] = files[s.id] BY <1>7, <1>8, <2>1
  <2>4. sequence <= sequence' /\ sequence' \in Nat BY <1>1, <1>2
  <2> QED BY <1>2, <2>2, <2>3, <2>4, StacksKeep
<1>12. undo' \in [Repositories -> Seq(Step)]
  <2>1. \A q \in Repositories : undo'[q] \in Seq(Step) BY <1>10, <1>11 DEF Stacks
  <2>2. undo' = [q \in Repositories |-> undo'[q]] BY <1>1 DEF Without
  <2> QED BY <2>1, <2>2
<1>13. Separate'
  <2>1. ASSUME NEW q \in Repositories PROVE Holding(q)' \subseteq Holding(q) \cup (IF q = r THEN {step} ELSE {})
    <3>1. CASE q = r
      <4>1. Own(undo'[q], redo'[q]) \subseteq Own(undo[q], redo[q]) \cup {step}
        <5>1. ToSet(redo'[r]) = {} BY <1>6 DEF ToSet
        <5> QED BY <1>10, <3>1, <5>1 DEF Own
      <4> QED BY <3>1, <4>1 DEF Holding, Holds
    <3>2. CASE q # r
      <4>1. Own(undo'[q], redo'[q]) \subseteq Own(undo[q], redo[q]) /\ task'[q] = task[q]
        BY <1>5, <1>6, <1>7, <3>2
      <4> QED BY <3>2, <4>1 DEF Holding, Holds
    <3> QED BY <3>1, <3>2
  <2> QED BY <1>2, <2>1, SeparateGrows
<1>14. K = Kept(undo, redo) \ R /\ K \in SUBSET Step /\ R \in SUBSET Kept(undo, redo)
  <2>1. \A q \in Repositories : ToSet(NoRedo(r)[q]) = IF q = r THEN {} ELSE ToSet(redo[q])
    BY DEF NoRedo, HistoryInv, ToSet
  <2>2. \A x : x \in K <=> \E q \in Repositories : x \in ToSet(undo[q]) \/ (q # r /\ x \in ToSet(redo[q]))
    BY <2>1 DEF K, Kept
  <2>3. \A x : x \in Kept(undo, redo) <=> \E q \in Repositories : x \in ToSet(undo[q]) \/ x \in ToSet(redo[q])
    BY DEF Kept
  <2>4. ASSUME NEW q \in Repositories, NEW x \in R, x \in ToSet(undo[q]) \/ (q # r /\ x \in ToSet(redo[q])) PROVE FALSE
    <3>1. x \in Own(undo[r], redo[r]) /\ x \in Own(undo[q], redo[q]) BY <2>4 DEF Own
    <3>2. CASE q = r
      <4>1. Stacks(undo[r], redo[r], task[r], files, sequence, overtaken) BY DEF HistoryInv
      <4> QED BY <1>2, <2>4, <3>2, <4>1, StacksHold
    <3>3. CASE q # r
      <4>1. x \in Holding(r) /\ x \in Holding(q) BY <3>1, HoldingOf
      <4> QED BY <3>3, <4>1 DEF HistoryInv, Separate, Holding
    <3> QED BY <3>2, <3>3
  <2> QED BY <2>2, <2>3, <2>4, HoldingOf
<1>15. /\ gone \in SUBSET K /\ ToSet(pushed) \in SUBSET Step /\ D \in SUBSET Step
       /\ ToSet(pushed) = (ToSet(undo[r]) \ gone) \cup {step}
  <2>1. gone \in SUBSET K BY DEF gone, Evicted
  <2>2. Rest(undo[r], gone) \in Seq(Step) BY <1>7 DEF Stacks
  <2>3. ToSet(pushed) = (ToSet(undo[r]) \ gone) \cup {step} /\ pushed \in Seq(Step)
    BY <1>2, <1>4, <1>7, <2>2, PushOf
  <2> QED BY <2>1, <2>3, Members
<1>16. snapshotBytes' \in Int
  <2>1. gone \in SUBSET Step /\ R \in SUBSET Step BY <1>14, <1>15, HoldingOf
  <2>2. Bytes(gone) \in Nat /\ Bytes(D) \in Nat /\ Bytes(R) \in Nat BY <1>15, <2>1, BytesAdd
  <2> QED BY <1>1, <2>2 DEF total, HistoryInv
<1>17. BytesCounted'
  <2> SUFFICES ASSUME ~overtaken'
               PROVE  snapshotBytes' = Bytes(Kept(undo', redo')) /\ snapshotBytes' <= MaxSnapshotBytes
    BY DEF BytesCounted
  <2>1. snapshotBytes = Bytes(Kept(undo, redo)) BY <1>1 DEF HistoryInv, BytesCounted
  <2>2. Kept(undo, redo) \in SUBSET Step BY HoldingOf
  <2>3. total = Bytes(K) BY <1>14, <2>1, <2>2, BytesAdd DEF total
  <2>4. Bytes(K) - Bytes(gone) + bytes <= MaxSnapshotBytes
    BY <1>14, <2>3, EvictionMakesRoom DEF gone
  <2> DEFINE L == K \ gone
             P == L \cup {step}
  <2>5. step \notin Kept(undo, redo) /\ L \in SUBSET Step /\ step \in Step \ L /\ P \in SUBSET Step
    <3>1. \A x \in Kept(undo, redo) : x.id \in Nat /\ x.id <= sequence BY HoldingOf
    <3>2. step \notin Kept(undo, redo) BY <1>2, <3>1
    <3> QED BY <1>2, <1>14, <3>2
  <2>6. Bytes(L) = Bytes(K) - Bytes(gone) /\ Bytes(P) = Bytes(L) + bytes
    BY <1>2, <1>14, <1>15, <2>5, BytesAdd
  <2>7. D \in SUBSET P /\ Kept(undo', redo') = P \ D
    <3>1. \A x : x \in L <=> \E q \in Repositories : x \notin gone /\ (x \in ToSet(undo[q]) \/ (q # r /\ x \in ToSet(redo[q])))
      <4>1. \A q \in Repositories : ToSet(NoRedo(r)[q]) = IF q = r THEN {} ELSE ToSet(redo[q])
        BY DEF NoRedo, HistoryInv, ToSet
      <4> QED BY <4>1 DEF K, Kept
    <3>2. ToSet(pushed) \subseteq P BY <1>15, <3>1
    <3>3. \A x : x \in Kept(undo', redo') <=>
            x \in ToSet(Trimmed(pushed)) \/ \E q \in Repositories : q # r /\ x \notin gone /\ x \in Own(undo[q], redo[q])
      <4>1. \A q \in Repositories : q # r => ToSet(undo'[q]) \cup ToSet(redo'[q]) = Own(undo[q], redo[q]) \ gone
        BY <1>5, <1>6, <1>7 DEF Own
      <4>2. ToSet(undo'[r]) = ToSet(Trimmed(pushed)) /\ ToSet(redo'[r]) = {} BY <1>5, <1>6 DEF ToSet
      <4> QED BY <4>1, <4>2 DEF Kept
    <3>4. ToSet(Trimmed(pushed)) \subseteq ToSet(pushed) BY <1>5, <1>10, <1>15
    <3>5. ASSUME NEW x, NEW q \in Repositories, q # r, x \in Own(undo[q], redo[q]) PROVE x \notin ToSet(pushed)
      <4>1. x # step BY <2>5, <3>5, HoldingOf
      <4>2. x \notin ToSet(undo[r])
        <5> SUFFICES ASSUME x \in ToSet(undo[r]) PROVE FALSE
          OBVIOUS
        <5>1. x \in Holding(r) /\ x \in Holding(q) BY <3>5, HoldingOf DEF Own
        <5> QED BY <3>5, <5>1 DEF HistoryInv, Separate, Holding
      <4> QED BY <1>15, <4>1, <4>2
    <3>6. ASSUME NEW x, x \in P, x \notin D PROVE x \in Kept(undo', redo')
      <4>1. CASE x \in ToSet(pushed) BY <3>3, <3>6, <4>1
      <4>2. CASE x \notin ToSet(pushed)
        <5>1. x \in L BY <1>15, <3>6, <4>2
        <5> QED BY <1>15, <3>1, <3>3, <4>2, <5>1 DEF Own
      <4> QED BY <4>1, <4>2
    <3>7. ASSUME NEW x, x \in Kept(undo', redo') PROVE x \in P /\ x \notin D
      <4>1. CASE x \in ToSet(Trimmed(pushed)) BY <3>2, <3>4, <4>1
      <4>2. CASE x \notin ToSet(Trimmed(pushed))
        <5>1. PICK q \in Repositories : q # r /\ x \notin gone /\ x \in Own(undo[q], redo[q])
          BY <3>3, <3>7, <4>2
        <5>2. x \in L BY <3>1, <5>1 DEF Own
        <5> QED BY <3>5, <5>1, <5>2
      <4> QED BY <4>1, <4>2
    <3>8. D \subseteq P BY <3>2
    <3> QED BY <3>6, <3>7, <3>8
  <2>8. Bytes(P \ D) = Bytes(P) - Bytes(D) /\ Bytes(D) \in Nat /\ Bytes(P) \in Nat
    BY <2>5, <2>7, BytesAdd
  <2>9. Bytes(L) \in Nat /\ Bytes(K) \in Nat /\ Bytes(gone) \in Nat /\ MaxSnapshotBytes \in Nat
    BY <1>14, <1>15, <2>5, BytesAdd, HistoryAssumption
  <2>10. bytes \in Nat /\ Bytes(Kept(undo', redo')) = Bytes(P \ D) BY <2>7, HistoryAssumption
  <2> HIDE DEF L, P, D
  <2>11. snapshotBytes' = Bytes(K) - Bytes(gone) + bytes - Bytes(D) BY <1>1, <2>3
  <2> QED BY <2>4, <2>6, <2>8, <2>9, <2>10, <2>11
<1>18. overtaken' \in BOOLEAN /\ files' \in [1..MaxOperations -> {"done", "undone", "mixed"}]
  BY <1>1 DEF HistoryInv, Overtakes
<1> QED BY <1>2, <1>6, <1>10, <1>11, <1>12, <1>13, <1>16, <1>17, <1>18 DEF HistoryInv

\* A step in one repository.
LEMMA OneRepository ==
  ASSUME HistoryInv, NEW r \in Repositories,
         undo' \in [Repositories -> Seq(Step)], redo' \in [Repositories -> Seq(Step)], task' \in [Repositories -> Task],
         files' \in [1..MaxOperations -> {"done", "undone", "mixed"}], snapshotBytes' \in Int,
         UNCHANGED <<sequence, overtaken>>,
         \A q \in Repositories : q # r =>
           /\ undo'[q] = undo[q] /\ redo'[q] = redo[q] /\ task'[q] = task[q]
           /\ \A s \in Own(undo[q], redo[q]) : files'[s.id] = files[s.id],
         Stacks(undo'[r], redo'[r], task'[r], files', sequence, overtaken),
         Holding(r)' \subseteq Holding(r), BytesCounted'
  PROVE  HistoryInv'
<1>1. sequence \in Nat /\ sequence <= sequence /\ sequence' \in 0..MaxOperations /\ overtaken' \in BOOLEAN
  BY HistoryAssumption DEF HistoryInv
<1>2. ASSUME NEW q \in Repositories, q # r
      PROVE  Stacks(undo'[q], redo'[q], task'[q], files', sequence, overtaken)
  <2>1. PICK u, d, t, fs, fs2, last, was :
          /\ u = undo[q] /\ d = redo[q] /\ t = task[q] /\ fs = files /\ fs2 = files' /\ last = sequence /\ was = overtaken
    OBVIOUS
  <2>2. Stacks(u, d, t, fs, last, was) /\ last \in Nat /\ last <= last BY <1>1, <2>1 DEF HistoryInv
  <2>3. \A s \in Own(u, d) : fs2[s.id] = fs[s.id] BY <1>2, <2>1
  <2>4. Stacks(u, d, t, fs2, last, was) BY <2>2, <2>3, StacksKeep
  <2> QED BY <1>2, <2>1, <2>4
<1>3. \A q \in Repositories : Holding(q)' \subseteq Holding(q) BY DEF Holding
<1>4. Separate' BY <1>3, SeparateStays DEF HistoryInv
<1> QED BY <1>1, <1>2, <1>4 DEF HistoryInv

\* Room is made for what is deleted, or the system Trash must do.
LEMMA BeginDeleteStep ==
  ASSUME HistoryInv, NEW r \in Repositories, NEW bytes \in 0..MaxSnapshotBytes, BeginDelete(r, bytes)
  PROVE  HistoryInv'
<1> DEFINE gone == Evicted(Kept(undo, redo), snapshotBytes, bytes)
           left == snapshotBytes - Bytes(gone)
<1>1. /\ task[r].pc = "idle" /\ UNCHANGED <<sequence, files>> /\ sequence \in Nat /\ sequence <= sequence
      /\ task' \in [Repositories -> Task] /\ ~Applying(task'[r]) /\ ~Applying(task[r])
      /\ \A q \in Repositories : q # r => task'[q] = task[q]
  <2>1. [IdleTask EXCEPT !.pc = "deleting"] \in Task BY HistoryAssumption DEF Task, IdleTask, NoStep
  <2>2. \A n \in {-1, bytes} : [IdleTask EXCEPT !.pc = "deleting", !.prepared = n] \in Task
    <3>1. \A n \in {-1, bytes} : n \in -1..MaxSnapshotBytes BY HistoryAssumption
    <3> QED BY <3>1 DEF Task, IdleTask, NoStep
  <2>3. \E t \in Task : t.pc = "deleting" /\ task' = [task EXCEPT ![r] = t]
    <3>1. CASE task' = [task EXCEPT ![r] = [IdleTask EXCEPT !.pc = "deleting"]]
      BY <2>1, <3>1 DEF IdleTask
    <3>2. CASE task' = [task EXCEPT ![r] = [IdleTask EXCEPT !.pc = "deleting",
                          !.prepared = IF left + bytes > MaxSnapshotBytes THEN -1 ELSE bytes]]
      <4>1. PICK n \in {-1, bytes} : n = IF left + bytes > MaxSnapshotBytes THEN -1 ELSE bytes
        OBVIOUS
      <4> QED BY <2>2, <3>2, <4>1 DEF IdleTask
    <3> QED BY <3>1, <3>2 DEF BeginDelete
  <2> HIDE DEF left, gone
  <2> QED BY <2>3, HistoryAssumption DEF BeginDelete, HistoryInv, Applying
<1>2. CASE UNCHANGED <<undo, redo, snapshotBytes, overtaken>>
  <2>1. Stacks(undo'[r], redo'[r], task'[r], files', sequence, overtaken)
    BY <1>1, <1>2 DEF HistoryInv, Stacks
  <2>2. Holding(r)' \subseteq Holding(r) BY <1>1, <1>2 DEF Holding, Holds
  <2>3. BytesCounted' BY <1>2 DEF HistoryInv, BytesCounted
  <2> QED BY <1>1, <1>2, <2>1, <2>2, <2>3, OneRepository DEF HistoryInv
<1>3. CASE /\ undo' = Without(undo, gone) /\ redo' = Without(redo, gone) /\ snapshotBytes' = left
           /\ overtaken' = (overtaken \/ Overtakes(gone))
  <2> HIDE DEF gone
  <2>1. ASSUME NEW q \in Repositories
        PROVE  /\ undo'[q] = Rest(undo[q], gone) /\ redo'[q] = Rest(redo[q], gone)
               /\ Stacks(undo'[q], redo'[q], task'[q], files', sequence', overtaken')
               /\ Own(undo'[q], redo'[q]) = Own(undo[q], redo[q]) \ gone
    <3>1. undo'[q] = Rest(undo[q], gone) /\ redo'[q] = Rest(redo[q], gone) BY <1>3 DEF Without
    <3>2. PICK u, d, t, fs, last, was, over :
            /\ u = undo[q] /\ d = redo[q] /\ t = task[q] /\ fs = files /\ last = sequence
            /\ was = overtaken /\ over = overtaken'
      OBVIOUS
    <3>3. Stacks(u, d, t, fs, last, was) /\ last \in Nat /\ (was => over)
      BY <1>1, <1>3, <3>2 DEF HistoryInv
    <3>4. Applying(t) /\ t.step \in gone => over BY <1>3, <3>2 DEF Overtakes, Applying
    <3>5. Stacks(Rest(u, gone), Rest(d, gone), t, fs, last, over) /\ Own(Rest(u, gone), Rest(d, gone)) = Own(u, d) \ gone
      BY <3>3, <3>4, StacksShrink
    <3>6. Stacks(undo'[q], redo'[q], task[q], files', sequence', overtaken')
      BY <1>1, <3>1, <3>2, <3>5
    <3>7. Stacks(undo'[q], redo'[q], task'[q], files', sequence', overtaken')
      <4>1. CASE q = r BY <1>1, <3>6, <4>1 DEF Stacks
      <4>2. CASE q # r BY <1>1, <3>6, <4>2
      <4> QED BY <4>1, <4>2
    <3> QED BY <3>1, <3>2, <3>5, <3>7
  <2>2. undo' \in [Repositories -> Seq(Step)] /\ redo' \in [Repositories -> Seq(Step)]
    <3>1. \A q \in Repositories : undo'[q] \in Seq(Step) /\ redo'[q] \in Seq(Step)
      BY <2>1 DEF Stacks
    <3>2. undo' = [q \in Repositories |-> undo'[q]] /\ redo' = [q \in Repositories |-> redo'[q]]
      BY <1>3 DEF Without
    <3> QED BY <3>1, <3>2
  <2>3. Separate'
    <3>1. ASSUME NEW q \in Repositories PROVE Holding(q)' \subseteq Holding(q)
      <4>1. Own(undo'[q], redo'[q]) \subseteq Own(undo[q], redo[q]) /\ (Applying(task'[q]) => task'[q] = task[q])
        BY <1>1, <2>1
      <4> QED BY <4>1 DEF Holding, Holds
    <3> QED BY <3>1, SeparateStays DEF HistoryInv
  <2>4. /\ gone \in SUBSET Kept(undo, redo) /\ Kept(undo, redo) \in SUBSET Step
        /\ Kept(undo', redo') = Kept(undo, redo) \ gone
    <3>1. gone \in SUBSET Kept(undo, redo) BY DEF gone, Evicted
    <3>2. Kept(undo', redo') = UNION {Own(undo'[q], redo'[q]) : q \in Repositories} BY DEF Kept, Own
    <3> QED BY <2>1, <3>1, <3>2, HoldingOf
  <2>5. Bytes(Kept(undo', redo')) = Bytes(Kept(undo, redo)) - Bytes(gone) /\ Bytes(gone) \in Nat
    BY <2>4, BytesAdd
  <2>6. snapshotBytes' \in Int /\ BytesCounted'
    <3>1. snapshotBytes \in Int /\ MaxSnapshotBytes \in Nat /\ snapshotBytes' = snapshotBytes - Bytes(gone)
      BY <1>3, HistoryAssumption DEF HistoryInv
    <3>2. ~overtaken' => ~overtaken BY <1>3
    <3>3. ~overtaken => snapshotBytes = Bytes(Kept(undo, redo)) /\ snapshotBytes <= MaxSnapshotBytes
      BY DEF HistoryInv, BytesCounted
    <3>4. ~overtaken' => snapshotBytes' = Bytes(Kept(undo', redo')) /\ snapshotBytes' <= MaxSnapshotBytes
      BY <2>5, <3>1, <3>2, <3>3
    <3> QED BY <2>5, <3>1, <3>4 DEF BytesCounted
  <2>7. /\ overtaken' \in BOOLEAN /\ sequence' \in 0..MaxOperations
        /\ files' \in [1..MaxOperations -> {"done", "undone", "mixed"}]
    BY <1>1, <1>3 DEF HistoryInv, Overtakes
  <2> QED BY <1>1, <2>1, <2>2, <2>3, <2>6, <2>7 DEF HistoryInv
<1> QED BY <1>2, <1>3 DEF BeginDelete

\* What only the system Trash can undo is forgotten, and held no bytes.
LEMMA PopMarkerStep ==
  ASSUME HistoryInv, NEW r \in Repositories, PopMarker(r)
  PROVE  HistoryInv'
<1> DEFINE u == undo[r]
           m == Last(u)
<1>1. /\ undo' = [undo EXCEPT ![r] = Front(u)] /\ UNCHANGED <<redo, snapshotBytes, sequence, task, files, overtaken>>
      /\ u # <<>> /\ m.kind = "marker" /\ task[r].pc = "idle"
  BY DEF PopMarker, HistoryInv
<1>2. Stacks(u, redo[r], task[r], files, sequence, overtaken) /\ u \in Seq(Step) /\ Ascending(u)
  BY DEF HistoryInv, Stacks
<1>3. Popped(u) = Front(u) /\ undo'[r] = Popped(u) /\ \A q \in Repositories : q # r => undo'[q] = undo[q]
  BY <1>1 DEF Popped, HistoryInv
<1>4. m \in ToSet(u) /\ m \in Step /\ m.bytes = 0 BY <1>1, <1>2, TopOf, Members DEF Stacks, Own
<1>5. Popped(u) \in Seq(Step) /\ Len(Popped(u)) < Len(u) /\ ToSet(Popped(u)) = ToSet(u) \ {m} /\ Ascending(Popped(u))
  BY <1>1, <1>2, <1>4, PoppedOf
<1>6. undo' \in [Repositories -> Seq(Step)] BY <1>1, <1>3, <1>5 DEF HistoryInv
<1>7. Stacks(undo'[r], redo'[r], task'[r], files', sequence, overtaken)
  <2>1. Len(Popped(u)) + Len(redo[r]) <= MaxSteps
    <3>1. Len(u) \in Nat /\ Len(Popped(u)) \in Nat /\ Len(redo[r]) \in Nat /\ MaxSteps \in Nat /\ Len(u) + Len(redo[r]) <= MaxSteps
      <4>1. redo[r] \in Seq(Step) /\ Len(u) + Len(redo[r]) <= MaxSteps BY <1>2 DEF Stacks
      <4>2. MaxSteps \in Nat BY HistoryAssumption
      <4>3. \A s \in Seq(Step) : Len(s) \in Nat OBVIOUS
      <4> HIDE DEF u
      <4> QED BY <1>2, <1>5, <4>1, <4>2, <4>3
    <3> HIDE DEF u
    <3> QED BY <1>5, <3>1
  <2> QED BY <1>1, <1>2, <1>3, <1>5, <2>1 DEF Stacks, Own, Applying
<1>8. Holding(r)' \subseteq Holding(r) BY <1>1, <1>3, <1>5 DEF Holding, Holds, Own
<1>9. BytesCounted'
  <2>1. Kept(undo', redo') = Kept(undo, redo) \ {m} /\ m \in Kept(undo, redo)
    <3>1. \A x : x \in Kept(undo', redo') <=> \E q \in Repositories : x \in ToSet(undo'[q]) \/ x \in ToSet(redo[q])
      BY <1>1 DEF Kept
    <3>2. \A x : x \in Kept(undo, redo) <=> \E q \in Repositories : x \in ToSet(undo[q]) \/ x \in ToSet(redo[q])
      BY DEF Kept
    <3>3. ASSUME NEW q \in Repositories, m \in ToSet(undo'[q]) \/ m \in ToSet(redo[q]) PROVE FALSE
      <4>1. CASE q = r
        <5>1. ToSet(u) \cap ToSet(redo[r]) = {} /\ sequence \in Nat
          <6>1. sequence \in Nat BY HistoryAssumption DEF HistoryInv
          <6>2. PICK a, d, t, fs, last, was :
                  /\ a = u /\ d = redo[r] /\ t = task[r] /\ fs = files /\ last = sequence /\ was = overtaken
            OBVIOUS
          <6>3. Stacks(a, d, t, fs, last, was) /\ last \in Nat BY <1>2, <6>1, <6>2
          <6> QED BY <6>1, <6>2, <6>3, StacksHold
        <5> QED BY <1>3, <1>4, <1>5, <3>3, <4>1, <5>1
      <4>2. CASE q # r
        <5>1. m \in Holding(r) /\ m \in Holding(q) BY <1>3, <1>4, <3>3, <4>2, HoldingOf DEF Own
        <5> QED BY <4>2, <5>1 DEF HistoryInv, Separate, Holding
      <4> QED BY <4>1, <4>2
    <3>4. \A q \in Repositories : \A x : x # m => (x \in ToSet(undo'[q]) <=> x \in ToSet(undo[q]))
      BY <1>3, <1>5
    <3>5. m \in Kept(undo, redo) BY <1>4, <3>2
    <3> QED BY <3>1, <3>2, <3>3, <3>4, <3>5
  <2>2. Bytes({m}) = 0
    <3>1. Bytes({}) = Bytes({}) - Bytes({}) /\ Bytes({}) \in Nat /\ Bytes({} \cup {m}) = Bytes({}) + m.bytes
      <4>1. {} \in SUBSET Step /\ {} \in SUBSET {} /\ {} \ {} = {} /\ m \in Step \ {} BY <1>4
      <4> QED BY <4>1, BytesAdd
    <3> QED BY <1>4, <3>1
  <2>3. Bytes(Kept(undo', redo')) = Bytes(Kept(undo, redo)) - Bytes({m}) /\ Bytes(Kept(undo, redo)) \in Nat
    BY <2>1, HoldingOf, BytesAdd
  <2>4. Bytes(Kept(undo', redo')) = Bytes(Kept(undo, redo)) BY <2>2, <2>3
  <2> QED BY <1>1, <2>4 DEF HistoryInv, BytesCounted
<1> QED BY <1>1, <1>3, <1>6, <1>7, <1>8, <1>9, OneRepository DEF HistoryInv

\* The step on top is applied, and stays there meanwhile.
LEMMA BeginApplyStep ==
  ASSUME HistoryInv, NEW r \in Repositories, NEW pc \in {"undoing", "redoing"}, BeginApply(r, pc)
  PROVE  HistoryInv'
<1> DEFINE source == IF pc = "undoing" THEN undo[r] ELSE redo[r]
           x == Last(source)
           t == [IdleTask EXCEPT !.pc = pc, !.step = x]
<1>1. /\ task[r].pc = "idle" /\ source # <<>> /\ x.kind # "marker" /\ task' = [task EXCEPT ![r] = t]
      /\ UNCHANGED <<undo, redo, snapshotBytes, sequence, files, overtaken>>
  BY DEF BeginApply
<1>2. /\ undo[r] \in Seq(Step) /\ redo[r] \in Seq(Step) /\ Ascending(undo[r]) /\ Descending(redo[r])
      /\ Stacks(undo[r], redo[r], task[r], files, sequence, overtaken) /\ source \in Seq(Step)
  BY DEF HistoryInv, Stacks
<1>3. /\ x \in ToSet(source) /\ x \in Step /\ Len(source) \in DOMAIN source /\ x = source[Len(source)]
      /\ \A y \in ToSet(source) : y = x \/ \E i \in DOMAIN source : i < Len(source) /\ source[i] = y
  <2> HIDE DEF source
  <2>1. /\ x \in ToSet(source) /\ ToSet(source) = ToSet(Front(source)) \cup {x} /\ Front(source) \in Seq(Step)
        /\ DOMAIN Front(source) \subseteq DOMAIN source
        /\ \A i \in DOMAIN Front(source) : Front(source)[i] = source[i] /\ i < Len(source)
        /\ Len(source) \in DOMAIN source /\ x = source[Len(source)]
    BY <1>1, <1>2, TopOf
  <2>2. ASSUME NEW y \in ToSet(source), y # x PROVE \E i \in DOMAIN source : i < Len(source) /\ source[i] = y
    <3>1. PICK i \in DOMAIN Front(source) : Front(source)[i] = y BY <2>1, <2>2, Members
    <3> QED BY <2>1, <3>1
  <2> QED BY <1>2, <2>1, <2>2, Members
<1> HIDE DEF x
<1>4. t \in Task /\ t.pc = pc /\ t.step = x /\ task'[r] = t /\ task' \in [Repositories -> Task]
  <2>1. t \in Task /\ t.pc = pc /\ t.step = x
    <3>1. -1 \in -1..MaxSnapshotBytes BY HistoryAssumption
    <3>2. \A p \in {"undoing", "redoing"}, s \in Step :
            LET a == [IdleTask EXCEPT !.pc = p, !.step = s] IN a \in Task /\ a.pc = p /\ a.step = s
      BY <3>1 DEF Task, IdleTask
    <3> QED BY <1>3, <3>2
  <2> HIDE DEF t
  <2> QED BY <1>1, <2>1 DEF HistoryInv
<1> HIDE DEF t
<1>5. /\ x.id <= sequence
      /\ pc = "undoing" => x \notin ToSet(redo[r]) /\ \A s \in ToSet(redo[r]) : x.id < s.id
      /\ pc # "undoing" => x \notin ToSet(undo[r]) /\ \A s \in ToSet(undo[r]) : s.id < x.id
  <2>1. x.id \in Nat /\ x.id <= sequence BY <1>2, <1>3, IdsAreNumbers DEF Stacks, Own
  <2>2. ~(x.id < x.id) BY <2>1
  <2> QED BY <1>2, <1>3, <2>1, <2>2 DEF Stacks
<1>6. /\ pc = "undoing" => \A s \in ToSet(undo[r]) : s = x \/ s.id < x.id
      /\ pc # "undoing" => \A s \in ToSet(redo[r]) : s = x \/ x.id < s.id
  BY <1>2, <1>3 DEF Ascending, Descending
<1>7. AppliesTop(undo[r], redo[r], t, overtaken) BY <1>1, <1>3, <1>4, <1>5, <1>6 DEF AppliesTop
<1>8. Stacks(undo'[r], redo'[r], task'[r], files', sequence, overtaken)
  BY <1>1, <1>2, <1>4, <1>5, <1>7 DEF Stacks
<1>9. Holding(r)' \subseteq Holding(r) BY <1>1, <1>3, <1>4 DEF Holding, Holds, Own
<1>10. BytesCounted' /\ \A q \in Repositories : q # r => task'[q] = task[q]
  BY <1>1 DEF HistoryInv, BytesCounted
<1> QED BY <1>1, <1>4, <1>8, <1>9, <1>10, OneRepository DEF HistoryInv

\* What changes sides is kept, and nothing else goes.
LEMMA AppliedStep ==
  ASSUME HistoryInv, NEW r \in Repositories, Applied(r)
  PROVE  HistoryInv'
<1> DEFINE x == task[r].step
           undoing == task[r].pc = "undoing"
           lost == undoing /\ x.kind = "image"
           mark == IF undoing THEN "undone" ELSE "done"
           u == undo'[r]
           d == redo'[r]
<1>1. /\ task[r].pc \in {"undoing", "redoing"} /\ UNCHANGED <<sequence, overtaken>>
      /\ files' = [files EXCEPT ![x.id] = mark] /\ task' = [task EXCEPT ![r] = IdleTask]
      /\ undo' = [undo EXCEPT ![r] = IF undoing THEN Popped(undo[r]) ELSE Append(undo[r], x)]
      /\ redo' = [redo EXCEPT ![r] = IF ~undoing THEN Popped(redo[r]) ELSE IF lost THEN redo[r] ELSE Append(redo[r], x)]
      /\ snapshotBytes' = snapshotBytes - (IF lost THEN x.bytes ELSE 0)
  BY DEF Applied, HistoryInv
<1>2. /\ Stacks(undo[r], redo[r], task[r], files, sequence, overtaken) /\ sequence \in Nat
      /\ x \in Step /\ x.id \in 1..MaxOperations
  <2>1. Stacks(undo[r], redo[r], task[r], files, sequence, overtaken) /\ sequence \in Nat
    BY HistoryAssumption DEF HistoryInv
  <2> QED BY <1>1, <2>1, IdsAreNumbers DEF Stacks, AppliesTop, Applying
<1>3. /\ files' \in [1..MaxOperations -> {"done", "undone", "mixed"}] /\ files'[x.id] = mark
      /\ \A s \in Step : s.id # x.id => files'[s.id] = files[s.id]
  BY <1>1, <1>2, IdsAreNumbers DEF HistoryInv
<1>4. IdleTask \in Task /\ ~Applying(IdleTask) /\ task'[r] = IdleTask /\ task' \in [Repositories -> Task]
  <2>1. IdleTask \in Task /\ ~Applying(IdleTask)
    BY HistoryAssumption DEF Task, IdleTask, NoStep, Applying
  <2> QED BY <1>1, <2>1 DEF HistoryInv
<1>5. \A s \in Own(undo[r], redo[r]) : s \in Step BY HoldingOf
<1>6. /\ Stacks(u, d, task'[r], files', sequence, overtaken)
      /\ ToSet(u) \cup ToSet(d) \subseteq Own(undo[r], redo[r]) \cup {x}
      /\ ~overtaken => ToSet(u) \cup ToSet(d) = Own(undo[r], redo[r]) \ (IF lost THEN {x} ELSE {})
      /\ ~overtaken => x \in Own(undo[r], redo[r])
  <2>1. PICK a, b, t, fs, last, was, t2, fs2 :
          /\ a = undo[r] /\ b = redo[r] /\ t = task[r] /\ fs = files /\ last = sequence /\ was = overtaken
          /\ t2 = IdleTask /\ fs2 = files'
    OBVIOUS
  <2>2. /\ Stacks(a, b, t, fs, last, was) /\ last \in Nat /\ t2 \in Task /\ ~Applying(t2) /\ t.step = x
        /\ ToSet(a) \cap ToSet(b) = {}
    BY <1>2, <1>4, <2>1, StacksHold
  <2>3. \A s \in Own(a, b) : s.id # t.step.id => fs2[s.id] = fs[s.id] BY <1>3, <1>5, <2>1
  <2>4. CASE undoing
    <3>1. t.pc = "undoing" /\ fs2[t.step.id] = "undone" BY <1>3, <2>1, <2>4
    <3>2. PICK e : e = d /\ (e = b \/ e = Append(b, t.step)) /\ (lost => e = b)
      BY <1>1, <2>1, <2>4 DEF HistoryInv
    <3>3. /\ Stacks(Popped(a), e, t2, fs2, last, was)
          /\ ToSet(Popped(a)) \subseteq ToSet(a) /\ (~was => ToSet(Popped(a)) = ToSet(a) \ {t.step})
          /\ (~was => t.step \in ToSet(a))
          /\ ToSet(e) = ToSet(b) \cup (IF e = b THEN {} ELSE {t.step})
      <4>1. MayReturn(e, b, t.step) BY <3>2 DEF MayReturn
      <4> QED BY <2>2, <2>3, <3>1, <4>1, StacksUndo
    <3>4. u = Popped(a) BY <1>1, <2>1, <2>4 DEF HistoryInv
    <3>5. ~lost => x \in ToSet(e)
      <4>1. ~lost => e = Append(b, x) BY <1>1, <2>1, <2>4, <3>2 DEF HistoryInv
      <4>2. b \in Seq(Step) BY <2>2 DEF Stacks
      <4> QED BY <1>2, <4>1, <4>2, PushOf
    <3>6. ToSet(e) = ToSet(b) \cup (IF lost THEN {} ELSE {x}) BY <2>2, <3>2, <3>3, <3>5
    <3> QED BY <1>4, <2>1, <2>2, <3>2, <3>3, <3>4, <3>6 DEF Own
  <2>5. CASE ~undoing
    <3>1. t.pc = "redoing" /\ fs2[t.step.id] = "done" BY <1>1, <1>3, <2>1, <2>5
    <3>2. u = Append(a, t.step) /\ d = Popped(b) BY <1>1, <2>1, <2>5 DEF HistoryInv
    <3>3. /\ Stacks(Append(a, t.step), Popped(b), t2, fs2, last, was)
          /\ ToSet(Popped(b)) \subseteq ToSet(b) /\ (~was => ToSet(Popped(b)) = ToSet(b) \ {t.step})
          /\ (~was => t.step \in ToSet(b))
          /\ ToSet(Append(a, t.step)) = ToSet(a) \cup {t.step}
      BY <2>2, <2>3, <3>1, StacksRedo
    <3> QED BY <1>4, <2>1, <2>2, <2>5, <3>2, <3>3 DEF Own
  <2> QED BY <2>4, <2>5
<1>7. undo' \in [Repositories -> Seq(Step)] /\ redo' \in [Repositories -> Seq(Step)]
  <2>1. u \in Seq(Step) /\ d \in Seq(Step) BY <1>6 DEF Stacks
  <2> QED BY <1>1, <2>1 DEF HistoryInv
<1>8. ASSUME NEW q \in Repositories, q # r
      PROVE  /\ undo'[q] = undo[q] /\ redo'[q] = redo[q] /\ task'[q] = task[q]
             /\ \A s \in Own(undo[q], redo[q]) : files'[s.id] = files[s.id]
  <2>1. undo'[q] = undo[q] /\ redo'[q] = redo[q] /\ task'[q] = task[q] BY <1>1, <1>8 DEF HistoryInv
  <2>2. x \in Holding(r) BY <1>1 DEF Holding, Holds, Applying
  <2>3. \A s \in Own(undo[q], redo[q]) : s \in Step /\ s.id # x.id
    BY <1>8, <2>2, HoldingOf DEF HistoryInv, Separate, Holding
  <2> QED BY <1>3, <2>1, <2>3
<1>9. Holding(r)' \subseteq Holding(r)
  <2>1. Own(u, d) \subseteq Own(undo[r], redo[r]) \cup {x} /\ ~Applying(task'[r])
    BY <1>4, <1>6 DEF Own
  <2> HIDE DEF u, d
  <2>2. Holding(r)' = Own(u, d) BY <2>1 DEF Holding, Holds, u, d
  <2> QED BY <1>1, <2>1, <2>2 DEF Holding, Holds, Applying
<1>10. snapshotBytes' \in Int /\ BytesCounted'
  <2>1. x.bytes \in Nat /\ snapshotBytes \in Int /\ snapshotBytes' \in Int
    <3>1. x.bytes \in Nat /\ snapshotBytes \in Int BY <1>2, HistoryAssumption DEF HistoryInv, Step
    <3> HIDE DEF x
    <3> QED BY <1>1, <3>1
  <2> SUFFICES ASSUME ~overtaken
               PROVE  snapshotBytes' = Bytes(Kept(undo', redo')) /\ snapshotBytes' <= MaxSnapshotBytes
    BY <1>1, <2>1 DEF BytesCounted
  <2>2. /\ snapshotBytes = Bytes(Kept(undo, redo)) /\ snapshotBytes <= MaxSnapshotBytes
        /\ Kept(undo, redo) \in SUBSET Step
    BY HoldingOf DEF HistoryInv, BytesCounted
  <2>3. Kept(undo', redo') = Kept(undo, redo) \ (IF lost THEN {x} ELSE {}) /\ x \in Kept(undo, redo)
    <3>1. \A y : y \in Kept(undo', redo') <=>
            y \in ToSet(u) \cup ToSet(d) \/ \E q \in Repositories : q # r /\ y \in Own(undo[q], redo[q])
      BY <1>8 DEF Kept, Own
    <3>2. \A y : y \in Kept(undo, redo) <=>
            y \in Own(undo[r], redo[r]) \/ \E q \in Repositories : q # r /\ y \in Own(undo[q], redo[q])
      BY DEF Kept, Own
    <3>3. ASSUME NEW q \in Repositories, q # r, x \in Own(undo[q], redo[q]) PROVE FALSE
      <4>1. x \in Holding(r) /\ x \in Holding(q)
        BY <1>1, <3>3, HoldingOf DEF Holding, Holds, Applying
      <4> QED BY <3>3, <4>1 DEF HistoryInv, Separate, Holding
    <3> HIDE DEF x, u, d
    <3> QED BY <1>6, <3>1, <3>2, <3>3
  <2>4. CASE lost
    <3>1. Bytes({x}) = x.bytes
      <4>1. {} \in SUBSET Step /\ {} \in SUBSET {} /\ {} \ {} = {} /\ x \in Step \ {} BY <1>2
      <4>2. Bytes({}) = Bytes({}) - Bytes({}) /\ Bytes({}) \in Nat /\ Bytes({} \cup {x}) = Bytes({}) + x.bytes
        BY <4>1, BytesAdd
      <4> QED BY <2>1, <4>2
    <3>2. Bytes(Kept(undo', redo')) = Bytes(Kept(undo, redo)) - Bytes({x})
      <4>1. {x} \in SUBSET Kept(undo, redo) BY <2>3
      <4> QED BY <2>2, <2>3, <2>4, <4>1, BytesAdd
    <3>3. snapshotBytes' = snapshotBytes - x.bytes /\ MaxSnapshotBytes \in Nat
      BY <1>1, <2>4, HistoryAssumption
    <3> HIDE DEF x
    <3> QED BY <2>1, <2>2, <3>1, <3>2, <3>3
  <2>5. CASE ~lost
    <3>1. snapshotBytes' = snapshotBytes - 0 /\ Kept(undo', redo') = Kept(undo, redo)
      BY <1>1, <2>3, <2>5
    <3> HIDE DEF x
    <3> QED BY <2>1, <2>2, <3>1
  <2> QED BY <2>4, <2>5
<1> QED BY <1>1, <1>3, <1>4, <1>6, <1>7, <1>8, <1>9, <1>10, OneRepository

\* A refused or failed attempt: what it may have left at the paths of its step is mixed.
LEMMA ConflictStep ==
  ASSUME HistoryInv, NEW r \in Repositories, Conflict(r)
  PROVE  HistoryInv'
<1>1. /\ Applying(task[r]) /\ files' \in {files, [files EXCEPT ![task[r].step.id] = "mixed"]}
      /\ task' = [task EXCEPT ![r] = IdleTask]
      /\ UNCHANGED <<undo, redo, snapshotBytes, sequence, overtaken>>
  BY DEF Conflict, Applying
<1>2. Stacks(undo[r], redo[r], task[r], files, sequence, overtaken) /\ sequence \in Nat /\ sequence <= sequence
  BY HistoryAssumption DEF HistoryInv
<1>3. task[r].step \in Step /\ task[r].step.id \in 1..MaxOperations
  BY <1>1, <1>2, IdsAreNumbers DEF Stacks, AppliesTop
<1>4. /\ files' \in [1..MaxOperations -> {"done", "undone", "mixed"}]
      /\ \A s \in Step : files'[s.id] = files[s.id] \/ (s.id = task[r].step.id /\ files'[s.id] = "mixed")
  BY <1>1, <1>3, IdsAreNumbers DEF HistoryInv
<1>5. IdleTask \in Task /\ ~Applying(IdleTask) /\ task'[r] = IdleTask /\ task' \in [Repositories -> Task]
  <2>1. IdleTask \in Task /\ ~Applying(IdleTask)
    BY HistoryAssumption DEF Task, IdleTask, NoStep, Applying
  <2> QED BY <1>1, <2>1 DEF HistoryInv
<1>6. Stacks(undo'[r], redo'[r], task'[r], files', sequence, overtaken)
  <2>1. PICK u, d, t, fs, fs2, last, was :
          /\ u = undo[r] /\ d = redo[r] /\ t = IdleTask /\ fs = files /\ fs2 = files' /\ last = sequence /\ was = overtaken
    OBVIOUS
  <2>2. Stacks(u, d, t, fs, last, was) /\ last \in Nat /\ last <= last
    BY <1>2, <1>5, <2>1 DEF Stacks
  <2>3. \A s \in Own(u, d) : fs2[s.id] = fs[s.id] \/ fs2[s.id] = "mixed"
    <3>1. \A s \in Own(u, d) : s \in Step BY <2>1, HoldingOf
    <3> QED BY <1>4, <2>1, <3>1
  <2>4. Stacks(u, d, t, fs2, last, was) BY <2>2, <2>3, StacksKeep
  <2> QED BY <1>1, <1>5, <2>1, <2>4
<1>7. ASSUME NEW q \in Repositories, q # r
      PROVE  /\ undo'[q] = undo[q] /\ redo'[q] = redo[q] /\ task'[q] = task[q]
             /\ \A s \in Own(undo[q], redo[q]) : files'[s.id] = files[s.id]
  <2>1. undo'[q] = undo[q] /\ redo'[q] = redo[q] /\ task'[q] = task[q] BY <1>1, <1>7 DEF HistoryInv
  <2>2. task[r].step \in Holding(r) BY <1>1 DEF Holding, Holds
  <2>3. \A s \in Own(undo[q], redo[q]) : s \in Step /\ s.id # task[r].step.id
    BY <1>7, <2>2, HoldingOf DEF HistoryInv, Separate, Holding
  <2> QED BY <1>4, <2>1, <2>3
<1>8. Holding(r)' \subseteq Holding(r) BY <1>1, <1>5 DEF Holding, Holds
<1>9. BytesCounted' BY <1>1 DEF HistoryInv, BytesCounted
<1>10. /\ undo' \in [Repositories -> Seq(Step)] /\ redo' \in [Repositories -> Seq(Step)]
       /\ snapshotBytes' \in Int /\ UNCHANGED <<sequence, overtaken>>
  BY <1>1 DEF HistoryInv
<1> QED BY <1>4, <1>5, <1>6, <1>7, <1>8, <1>9, <1>10, OneRepository

\* Others leave files that no attempt to apply a step will accept.
LEMMA ChangedOutsideStep ==
  ASSUME HistoryInv, NEW n \in 1..MaxOperations, ChangedOutside(n)
  PROVE  HistoryInv'
<1>1. /\ files' = [files EXCEPT ![n] = "mixed"]
      /\ UNCHANGED <<undo, redo, snapshotBytes, sequence, task, overtaken>>
  BY DEF ChangedOutside
<1>2. /\ files' \in [1..MaxOperations -> {"done", "undone", "mixed"}]
      /\ \A s \in Step : files'[s.id] = files[s.id] \/ files'[s.id] = "mixed"
  BY <1>1, IdsAreNumbers DEF HistoryInv
<1>3. ASSUME NEW q \in Repositories PROVE Stacks(undo[q], redo[q], task[q], files', sequence, overtaken)
  <2>1. PICK u, d, t, fs, fs2, last, was :
          /\ u = undo[q] /\ d = redo[q] /\ t = task[q] /\ fs = files /\ fs2 = files' /\ last = sequence /\ was = overtaken
    OBVIOUS
  <2>2. Stacks(u, d, t, fs, last, was) /\ last \in Nat /\ last <= last
    BY <2>1, HistoryAssumption DEF HistoryInv
  <2>3. \A s \in Own(u, d) : fs2[s.id] = fs[s.id] \/ fs2[s.id] = "mixed"
    <3>1. \A s \in Own(u, d) : s \in Step BY <2>1, HoldingOf
    <3> QED BY <1>2, <2>1, <3>1
  <2>4. Stacks(u, d, t, fs2, last, was) BY <2>2, <2>3, StacksKeep
  <2> QED BY <2>1, <2>4
<1>4. Separate' /\ BytesCounted' BY <1>1 DEF HistoryInv, Separate, BytesCounted
<1> QED BY <1>1, <1>2, <1>3, <1>4 DEF HistoryInv

LEMMA PerformStep ==
  ASSUME HistoryInv, NEW r \in Repositories, Perform(r)
  PROVE  HistoryInv'
<1>1. /\ task[r].pc = "idle" /\ sequence < MaxOperations /\ task' = task
      /\ ~Applying(task[r]) /\ task' \in [Repositories -> Task]
      /\ \A q \in Repositories : IF q = r THEN ~Applying(task'[q]) ELSE task'[q] = task[q]
  BY DEF Perform, Applying, HistoryInv
<1>2. \E kind \in {"plain", "image"}, bytes \in 0..MaxSnapshotBytes : Record(r, kind, bytes)
  <2>1. 0 \in 0..MaxSnapshotBytes BY HistoryAssumption
  <2> QED BY <2>1 DEF Perform
<1>3. PICK kind \in {"plain", "image"}, bytes \in 0..MaxSnapshotBytes : Record(r, kind, bytes)
  BY <1>2
<1>4. kind \in {"plain", "image", "marker"} /\ (kind = "marker" => bytes = 0) OBVIOUS
<1> QED BY <1>1, <1>3, <1>4, RecordStep

LEMMA EndDeleteStep ==
  ASSUME HistoryInv, NEW r \in Repositories, EndDelete(r)
  PROVE  HistoryInv'
<1>1. /\ task' = [task EXCEPT ![r] = IdleTask] /\ ~Applying(task[r]) /\ task[r] \in Task
      /\ task' \in [Repositories -> Task] /\ task'[r] = IdleTask /\ ~Applying(task'[r])
      /\ \A q \in Repositories : q # r => task'[q] = task[q]
  <2>1. IdleTask \in Task /\ ~Applying(IdleTask)
    BY HistoryAssumption DEF Task, IdleTask, NoStep, Applying
  <2> QED BY <2>1 DEF EndDelete, Applying, HistoryInv
<1>2. CASE UNCHANGED <<undo, redo, snapshotBytes, sequence, files, overtaken>>
  <2>1. Stacks(undo'[r], redo'[r], task'[r], files', sequence, overtaken)
    BY <1>1, <1>2 DEF HistoryInv, Stacks
  <2>2. Holding(r)' \subseteq Holding(r) BY <1>1, <1>2 DEF Holding, Holds
  <2>3. BytesCounted' BY <1>2 DEF HistoryInv, BytesCounted
  <2> QED BY <1>1, <1>2, <2>1, <2>2, <2>3, OneRepository DEF HistoryInv
<1>3. CASE /\ sequence < MaxOperations
           /\ \E kind \in {"plain", "marker"}, bytes \in 0..MaxSnapshotBytes :
                (kind = "marker" => bytes = 0) /\ Record(r, kind, bytes)
  <2>1. PICK kind \in {"plain", "marker"}, bytes \in 0..MaxSnapshotBytes :
          (kind = "marker" => bytes = 0) /\ Record(r, kind, bytes)
    BY <1>3
  <2>2. kind \in {"plain", "image", "marker"} /\ sequence < MaxOperations BY <1>3
  <2>3. \A q \in Repositories : IF q = r THEN ~Applying(task'[q]) ELSE task'[q] = task[q] BY <1>1
  <2> QED BY <1>1, <2>1, <2>2, <2>3, RecordStep
<1>4. 0 \in 0..MaxSnapshotBytes /\ 0..task[r].prepared \subseteq 0..MaxSnapshotBytes
  <2>1. task[r].prepared \in -1..MaxSnapshotBytes BY <1>1 DEF Task
  <2> QED BY <2>1, HistoryAssumption
<1>5. \/ UNCHANGED <<undo, redo, snapshotBytes, sequence, files, overtaken>>
      \/ sequence < MaxOperations /\ Record(r, "marker", 0)
      \/ sequence < MaxOperations /\ \E bytes \in 0..task[r].prepared : Record(r, "plain", bytes)
  BY DEF EndDelete
<1> QED BY <1>2, <1>3, <1>4, <1>5

LEMMA HistoryStarts == HistoryInit => HistoryInv
<1> SUFFICES ASSUME HistoryInit PROVE HistoryInv
  OBVIOUS
<1>1. <<>> \in Seq(Step) /\ Len(<<>>) = 0 /\ ToSet(<<>>) = {} /\ Ascending(<<>>) /\ Descending(<<>>)
  BY DEF ToSet, Ascending, Descending
<1>2. IdleTask \in Task /\ ~Applying(IdleTask)
  BY HistoryAssumption DEF Task, IdleTask, NoStep, Applying
<1>3. \A r \in Repositories : undo[r] = <<>> /\ redo[r] = <<>> /\ task[r] = IdleTask
  BY DEF HistoryInit
<1>4. 0 + 0 <= MaxSteps /\ 0 \in 0..MaxOperations /\ 0 <= MaxSnapshotBytes BY HistoryAssumption
<1>5. Stacks(<<>>, <<>>, IdleTask, files, sequence, overtaken) BY <1>1, <1>2, <1>4 DEF Stacks, Own
<1>6. Separate BY <1>1, <1>2, <1>3 DEF Separate, Holds, Own
<1>7. BytesCounted
  <2>1. Kept(undo, redo) = {} BY <1>1, <1>3 DEF Kept
  <2>2. Bytes({}) = 0
    <3>1. {b \in {} \X (1..MaxSnapshotBytes) : b[2] <= b[1].bytes} = {} OBVIOUS
    <3> QED BY <3>1, FS_EmptySet DEF Bytes
  <2>3. snapshotBytes = 0 BY DEF HistoryInit
  <2> QED BY <1>4, <2>1, <2>2, <2>3 DEF BytesCounted
<1>8. \A r \in Repositories : Stacks(undo[r], redo[r], task[r], files, sequence, overtaken)
  BY <1>3, <1>5
<1>9. /\ undo \in [Repositories -> Seq(Step)] /\ redo \in [Repositories -> Seq(Step)]
      /\ task \in [Repositories -> Task] /\ files \in [1..MaxOperations -> {"done", "undone", "mixed"}]
  BY <1>1, <1>2 DEF HistoryInit
<1>10. snapshotBytes \in Int /\ sequence \in 0..MaxOperations /\ overtaken \in BOOLEAN
  <2>1. snapshotBytes = 0 /\ sequence = 0 /\ overtaken = FALSE BY DEF HistoryInit
  <2>2. snapshotBytes \in Int /\ sequence \in 0..MaxOperations BY <1>4, <2>1
  <2> QED BY <2>1, <2>2
<1> QED BY <1>6, <1>7, <1>8, <1>9, <1>10 DEF HistoryInv

LEMMA HistoryStep ==
  ASSUME HistoryInv, [HistoryNext]_historyVars
  PROVE  HistoryInv'
<1>1. CASE UNCHANGED historyVars BY <1>1 DEF historyVars, HistoryInv, Separate, BytesCounted
<1>2. CASE \E n \in 1..MaxOperations : ChangedOutside(n) BY <1>2, ChangedOutsideStep
<1>3. ASSUME NEW r \in Repositories,
             \/ Perform(r) \/ EndDelete(r) \/ PopMarker(r) \/ Applied(r) \/ Conflict(r)
             \/ \E bytes \in 0..MaxSnapshotBytes : BeginDelete(r, bytes)
             \/ \E pc \in {"undoing", "redoing"} : BeginApply(r, pc)
      PROVE  HistoryInv'
  BY <1>3, PerformStep, EndDeleteStep, PopMarkerStep, AppliedStep, ConflictStep, BeginDeleteStep, BeginApplyStep
<1> QED BY <1>1, <1>2, <1>3 DEF HistoryNext

LEMMA HistoryInvIsSound == HistoryInv => HistoryIsSound /\ HistoryTypeOK
<1> SUFFICES ASSUME HistoryInv PROVE HistoryIsSound /\ HistoryTypeOK
  OBVIOUS
<1>1. InOrder
  <2> SUFFICES ASSUME NEW r \in Repositories
               PROVE  LET all == undo[r] \o Reverse(redo[r])
                      IN  \A i, j \in DOMAIN all : i < j => all[i].id < all[j].id
    BY DEF InOrder
  <2>1. /\ undo[r] \in Seq(Step) /\ redo[r] \in Seq(Step) /\ Ascending(undo[r]) /\ Descending(redo[r])
        /\ \A a \in ToSet(undo[r]), b \in ToSet(redo[r]) : a.id < b.id
    BY DEF HistoryInv, Stacks
  <2>2. PICK u, d : u = undo[r] /\ d = redo[r] OBVIOUS
  <2> QED BY <2>1, <2>2, StacksInOrder
<1>2. StacksMatchFiles
  <2> SUFFICES ASSUME NEW r \in Repositories
               PROVE  /\ \A i \in DOMAIN undo[r] : files[undo[r][i].id] # "undone"
                      /\ \A i \in DOMAIN redo[r] : files[redo[r][i].id] # "done"
    BY DEF StacksMatchFiles
  <2>1. /\ undo[r] \in Seq(Step) /\ redo[r] \in Seq(Step)
        /\ \A s \in ToSet(undo[r]) : files[s.id] # "undone"
        /\ \A s \in ToSet(redo[r]) : files[s.id] # "done"
    BY DEF HistoryInv, Stacks
  <2>2. /\ \A i \in DOMAIN undo[r] : undo[r][i] \in ToSet(undo[r])
        /\ \A i \in DOMAIN redo[r] : redo[r][i] \in ToSet(redo[r])
    BY DEF ToSet
  <2> QED BY <2>1, <2>2
<1>3. HistoryTypeOK BY DEF HistoryInv, HistoryTypeOK, Stacks
<1> QED BY <1>1, <1>2, <1>3 DEF HistoryInv, HistoryIsSound

(* However the operations of all repositories interleave, undo and redo go *)
(* through a repository's steps in their order, none is offered whose work *)
(* is not what the files show, and the bytes counted are those kept, within *)
(* the limit, unless a step was evicted while it was being applied. *)
THEOREM HistoryStaysSound == HistorySpec => []HistoryIsSound
<1>1. HistoryInv /\ [HistoryNext]_historyVars => HistoryInv' BY HistoryStep
<1> QED BY <1>1, HistoryStarts, HistoryInvIsSound, PTL DEF HistorySpec

\* Applying a step ends with its success or with a conflict.
LEMMA ApplyingEnds ==
  ASSUME HistoryInv, HistoryNext, NEW r \in Repositories, Applying(task[r]), task'[r].pc = "idle"
  PROVE  Applied(r) \/ Conflict(r)
<1>1. task \in [Repositories -> Task] BY DEF HistoryInv
<1>2. task[r].pc # "idle" /\ task[r].pc # "deleting" /\ task'[r] # task[r] BY DEF Applying
<1>3. ASSUME NEW q \in Repositories, Perform(q) PROVE FALSE BY <1>2, <1>3 DEF Perform
<1>4. ASSUME NEW q \in Repositories, EndDelete(q) PROVE FALSE BY <1>1, <1>2, <1>4 DEF EndDelete
<1>5. ASSUME NEW q \in Repositories, PopMarker(q) PROVE FALSE BY <1>2, <1>5 DEF PopMarker
<1>6. ASSUME NEW q \in Repositories, Applied(q) PROVE q = r BY <1>1, <1>2, <1>6 DEF Applied
<1>7. ASSUME NEW q \in Repositories, Conflict(q) PROVE q = r BY <1>1, <1>2, <1>7 DEF Conflict
<1>8. ASSUME NEW q \in Repositories, NEW bytes \in 0..MaxSnapshotBytes, BeginDelete(q, bytes) PROVE FALSE
  <2>1. task[q].pc = "idle" /\ \E t : task' = [task EXCEPT ![q] = t] BY <1>8 DEF BeginDelete
  <2> QED BY <1>1, <1>2, <2>1
<1>9. ASSUME NEW q \in Repositories, NEW pc \in {"undoing", "redoing"}, BeginApply(q, pc) PROVE FALSE
  <2>1. task[q].pc = "idle" /\ \E t : task' = [task EXCEPT ![q] = t] BY <1>9 DEF BeginApply
  <2> QED BY <1>1, <1>2, <2>1
<1>10. ASSUME NEW n \in 1..MaxOperations, ChangedOutside(n) PROVE FALSE
  BY <1>2, <1>10 DEF ChangedOutside
<1> QED BY <1>3, <1>4, <1>5, <1>6, <1>7, <1>8, <1>9, <1>10 DEF HistoryNext

\* While nothing was evicted under it, what is popped is the step that was applied.
LEMMA AppliedTakesItsOwn ==
  ASSUME HistoryInv, NEW r \in Repositories, Applied(r), ~overtaken
  PROVE  Own(undo[r], redo[r]) \ {task[r].step} \subseteq Own(undo'[r], redo'[r])
<1> DEFINE x == task[r].step
<1>1. /\ Applying(task[r]) /\ task[r] \in Task /\ AppliesTop(undo[r], redo[r], task[r], overtaken)
      /\ undo[r] \in Seq(Step) /\ redo[r] \in Seq(Step) /\ Ascending(undo[r]) /\ Descending(redo[r])
  BY DEF Applied, Applying, HistoryInv, Stacks
<1>2. /\ undo'[r] = IF task[r].pc = "undoing" THEN Popped(undo[r]) ELSE Append(undo[r], x)
      /\ redo'[r] = IF task[r].pc # "undoing" THEN Popped(redo[r])
                    ELSE IF x.kind = "image" THEN redo[r] ELSE Append(redo[r], x)
  BY DEF Applied, HistoryInv
<1>3. x \in Step BY <1>1 DEF AppliesTop
<1>4. /\ ToSet(undo[r]) \subseteq ToSet(Append(undo[r], x))
      /\ ToSet(redo[r]) \subseteq ToSet(Append(redo[r], x))
  BY <1>1, <1>3, PushOf
<1>5. CASE task[r].pc = "undoing"
  <2>1. x \in ToSet(undo[r]) /\ \A s \in ToSet(undo[r]) : s = x \/ s.id < x.id
    BY <1>1, <1>5 DEF AppliesTop
  <2>2. undo[r] # <<>> /\ Last(undo[r]) = x BY <1>1, <2>1, TopIsNewest
  <2>3. ToSet(Popped(undo[r])) = ToSet(undo[r]) \ {x} BY <1>1, <2>1, <2>2, PoppedOf
  <2> QED BY <1>2, <1>4, <1>5, <2>3 DEF Own
<1>6. CASE task[r].pc # "undoing"
  <2>1. x \in ToSet(redo[r]) /\ \A s \in ToSet(redo[r]) : s = x \/ x.id < s.id
    BY <1>1, <1>6 DEF AppliesTop
  <2>2. redo[r] # <<>> /\ Last(redo[r]) = x BY <1>1, <2>1, TopIsOldest
  <2>3. ToSet(Popped(redo[r])) = ToSet(redo[r]) \ {x} BY <1>1, <2>1, <2>2, PoppedOf
  <2> QED BY <1>2, <1>4, <1>6, <2>3 DEF Own
<1> QED BY <1>5, <1>6

(* Undoing or redoing a step takes no other step out of the history, as *)
(* long as no step was evicted while it was being applied: eviction is the *)
(* only way in which OthersStay fails. *)
THEOREM OthersStayUnlessOvertaken ==
  HistorySpec =>
    [][~overtaken =>
         \A r \in Repositories :
           task[r].pc \in {"undoing", "redoing"} /\ task'[r].pc = "idle"
           => (ToSet(undo[r]) \cup ToSet(redo[r])) \ {task[r].step}
              \subseteq ToSet(undo'[r]) \cup ToSet(redo'[r])]_historyVars
<1> DEFINE A == ~overtaken =>
         \A r \in Repositories :
           task[r].pc \in {"undoing", "redoing"} /\ task'[r].pc = "idle"
           => (ToSet(undo[r]) \cup ToSet(redo[r])) \ {task[r].step}
              \subseteq ToSet(undo'[r]) \cup ToSet(redo'[r])
<1>1. HistoryInv /\ [HistoryNext]_historyVars => HistoryInv' BY HistoryStep
<1>2. HistoryInv /\ [HistoryNext]_historyVars => [A]_historyVars
  <2> SUFFICES ASSUME HistoryInv, HistoryNext, ~overtaken,
                      NEW r \in Repositories, Applying(task[r]), task'[r].pc = "idle"
               PROVE  Own(undo[r], redo[r]) \ {task[r].step} \subseteq Own(undo'[r], redo'[r])
    BY DEF Applying, Own
  <2>1. CASE Applied(r) BY <2>1, AppliedTakesItsOwn
  <2>2. CASE Conflict(r) BY <2>2 DEF Conflict, Own
  <2> QED BY <2>1, <2>2, ApplyingEnds
<1> HIDE DEF A
<1>3. HistorySpec => [][A]_historyVars BY <1>1, <1>2, HistoryStarts, PTL DEF HistorySpec
<1> QED BY <1>3 DEF A
(****************************************)
(* The types of what the composed run moves, for any values of the constants. *)
(* The invariants of the components say less than their type invariants: *)
(* what is missing is added to them here and shown to stay. *)
(****************************************)

------------------------------
(* Transfers: only of folders there is more than one token at a place, and *)
(* an item is at two places only when they are on different devices. *)

Whole(item) == \A s, t \in item : s # t => s[2] \in FolderBases
AllWhole(d) == \A x \in AllPlaces : Whole(LiesAt(d, x))

SoundJob(job) ==
  /\ AllWhole(job.before) /\ (job.way # "do" => AllWhole(job.entry.before))
  /\ Between(job) => apart

SoundStack(stack) == \A i \in DOMAIN stack : AllWhole(stack[i].before)

SoundTransfers ==
  /\ excused \subseteq Tokens /\ AllWhole(disk)
  /\ \A r \in Busy : SoundJob(jobs[r])
  /\ \A r \in Roots : SoundStack(steps[r].undo) /\ SoundStack(steps[r].redo)

\* A part of what lies at a place, put at another.
LEMMA WholePut ==
  ASSUME NEW d \in Disks, AllWhole(d), NEW p \in AllPlaces, NEW item \in SUBSET Tokens, Whole(item),
         NEW e, e = Put(d, p, item)
  PROVE  e \in Disks /\ AllWhole(e)
<1>1. e \in Disks /\ \A x : LiesAt(e, x) = IF x = p THEN item ELSE LiesAt(d, x) BY PutFacts
<1> QED BY <1>1 DEF AllWhole

LEMMA WholePart ==
  ASSUME NEW d \in Disks, AllWhole(d), NEW p \in AllPlaces, NEW item \in SUBSET LiesAt(d, p)
  PROVE  item \in SUBSET Tokens /\ Whole(item)
BY LiesAtFacts DEF AllWhole, Whole

\* Nothing, and what another program makes, is whole.
LEMMA WholeAlone ==
  ASSUME NEW t
  PROVE  Whole({}) /\ Whole({t})
BY DEF Whole

\* A command keeps what it knew when it began.
Carries(job, new) == new.before = job.before /\ new.way = job.way /\ new.entry = job.entry

AllCarry ==
  \A s \in Busy' : /\ s \in Busy /\ Carries(jobs[s], jobs'[s])
                   /\ Between(jobs'[s]) => Between(jobs[s]) \/ apart

LEMMA CarriesStep ==
  ASSUME SoundTransfers, AllCarry, UNCHANGED <<apart, steps>>, AllWhole(disk'), excused' \subseteq Tokens
  PROVE  SoundTransfers'
<1>1. ASSUME NEW s \in Busy' PROVE SoundJob(jobs[s])'
  <2>1. s \in Busy /\ Carries(jobs[s], jobs'[s]) /\ (Between(jobs'[s]) => Between(jobs[s]) \/ apart)
    BY DEF AllCarry
  <2>2. SoundJob(jobs[s]) BY <2>1 DEF SoundTransfers
  <2> QED BY <2>1, <2>2 DEF SoundJob, Carries, AllWhole
<1>2. \A r \in Roots : SoundStack(steps'[r].undo) /\ SoundStack(steps'[r].redo)
  BY DEF SoundTransfers
<1>3. AllWhole(disk)' BY DEF AllWhole
<1> QED BY <1>1, <1>2, <1>3 DEF SoundTransfers, SoundStack, AllWhole

LEMMA SurprisedCarry ==
  ASSUME TransfersTyped, NEW places, NEW by
  PROVE  /\ DOMAIN Surprised(places, by) = Roots
         /\ \A s \in Roots : Surprised(places, by)[s] # NoTransfer =>
              /\ s \in Busy /\ Carries(jobs[s], Surprised(places, by)[s])
              /\ Surprised(places, by)[s].stage = jobs[s].stage
         /\ by \in Busy => Surprised(places, by)[by] = jobs[by]
<1>1. ASSUME NEW s \in Roots, Surprised(places, by)[s] # NoTransfer
      PROVE  /\ s \in Busy /\ Carries(jobs[s], Surprised(places, by)[s])
             /\ Surprised(places, by)[s].stage = jobs[s].stage
  <2>1. s \in Busy BY <1>1 DEF Surprised, Busy
  <2>2. jobs[s] \in Working BY <2>1 DEF TransfersTyped
  <2>3. Surprised(places, by)[s] \in {jobs[s], [jobs[s] EXCEPT !.surprised = @ \cup places]}
    BY DEF Surprised
  <2> QED BY <2>1, <2>2, <2>3 DEF Carries, Working
<1> QED BY <1>1 DEF Surprised, Busy

\* The command of r becomes another with the same task, the others may be surprised.
LEMMA NewCarries ==
  ASSUME TransfersTyped, NEW r \in Busy, NEW places, NEW new,
         jobs' \in {[jobs EXCEPT ![r] = new], [Surprised(places, r) EXCEPT ![r] = new]},
         Carries(jobs[r], new), Between(new) => Between(jobs[r]) \/ apart
  PROVE  AllCarry
<1>1. DOMAIN jobs = Roots /\ r \in Roots BY DEF TransfersTyped, Busy
<1>2. DOMAIN jobs' = Roots /\ jobs'[r] = new BY <1>1, SurprisedCarry
<1>3. ASSUME NEW s \in Busy', s # r
      PROVE  s \in Busy /\ Carries(jobs[s], jobs'[s]) /\ jobs'[s].stage = jobs[s].stage
  <2>1. s \in Roots /\ jobs'[s] # NoTransfer BY DEF Busy
  <2>2. jobs'[s] \in {jobs[s], Surprised(places, r)[s]} BY <1>1, <1>3, <2>1, SurprisedCarry
  <2>3. CASE jobs'[s] = jobs[s] BY <2>1, <2>3 DEF Busy, Carries
  <2>4. CASE jobs'[s] = Surprised(places, r)[s] BY <2>1, <2>4, SurprisedCarry
  <2> QED BY <2>2, <2>3, <2>4
<1> QED BY <1>2, <1>3 DEF AllCarry, Between, Busy

\* Another program comes between.
LEMMA SurprisedCarries ==
  ASSUME TransfersTyped, NEW places, NEW by, jobs' = Surprised(places, by)
  PROVE  AllCarry
BY SurprisedCarry DEF AllCarry, Between, Busy

LEMMA AdvancedCarries ==
  ASSUME TransfersTyped, NEW r \in Busy, NEW places, Advanced(r, places)
  PROVE  AllCarry
<1> DEFINE n == IF Rollback(jobs[r]) THEN jobs[r].done - 1 ELSE jobs[r].done + 1
           s == IF Rollback(jobs[r]) THEN "back" ELSE "run"
           new == [jobs[r] EXCEPT !.done = n, !.stage = s]
<1>1. r \in Roots /\ jobs[r] \in Working BY DEF Busy, TransfersTyped
<1>2. Surprised(places, r)[r] = jobs[r] /\ DOMAIN Surprised(places, r) = Roots BY SurprisedCarry
<1>3. jobs' = [Surprised(places, r) EXCEPT ![r] = new]
  <2>1. jobs' = [Surprised(places, r) EXCEPT ![r].done = n, ![r].stage = s]
    BY <1>1, <1>2 DEF Advanced
  <2> QED BY <1>1, <1>2, <2>1
<1>4. s \in {"run", "back"} OBVIOUS
<1> HIDE DEF n, s
<1>5. Carries(jobs[r], new) /\ ~ Between(new) BY <1>1, <1>4 DEF Working, Carries, Between
<1>6. PICK now : now = new OBVIOUS
<1>7. jobs' \in {[jobs EXCEPT ![r] = now], [Surprised(places, r) EXCEPT ![r] = now]} BY <1>3, <1>6
<1>8. Carries(jobs[r], now) /\ (Between(now) => Between(jobs[r]) \/ apart) BY <1>5, <1>6
<1> QED BY <1>7, <1>8, NewCarries

\* A command that begins knows the disk, and the step it undoes or redoes.
LEMMA StartSound ==
  ASSUME TransfersInv, SoundTransfers, NEW r \in Roots, NEW kind, NEW way, NEW items, NEW e,
         Starts(r, Job(kind, way, items, e)), way # "do" => AllWhole(e.before)
  PROVE  SoundTransfers'
<1>1. PICK job : job = Job(kind, way, items, e) OBVIOUS
<1>2. job.before = disk /\ job.way = way /\ job.entry = e /\ job.stage = "run" BY <1>1 DEF Job
<1>3. jobs' = [jobs EXCEPT ![r] = job] /\ UNCHANGED <<disk, apart, steps, excused>> /\ DOMAIN jobs = Roots
  BY <1>1 DEF Starts, TransfersInv, TransfersTyped
<1>4. SoundJob(job) BY <1>2 DEF SoundJob, Between, SoundTransfers
<1>5. ASSUME NEW s \in Busy' PROVE SoundJob(jobs[s])'
  <2>1. s \in Roots /\ (s # r => jobs'[s] = jobs[s] /\ s \in Busy) /\ (s = r => jobs'[s] = job)
    BY <1>3 DEF Busy
  <2>2. SoundJob(jobs'[s]) BY <1>4, <2>1 DEF SoundTransfers
  <2> QED BY <1>3, <2>2 DEF SoundJob, AllWhole
<1> QED BY <1>3, <1>5 DEF SoundTransfers, SoundStack, AllWhole

------------------------------
(* Transfers: each step. *)

LEMMA SoundCreate ==
  ASSUME TransfersInv, SoundTransfers, NEW p \in Places, StrangerCreates(p)
  PROVE  SoundTransfers'
<1>1. TransfersTyped /\ disk \in Disks /\ p \in AllPlaces /\ AllWhole(disk) /\ excused \subseteq Tokens
  BY DEF TransfersInv, TransfersTyped, AllPlaces, SoundTransfers
<1>2. Stranger(used.strangers + 1) \in Tokens
  <2>1. used.strangers < MaxStrangers /\ used.strangers \in Nat
    BY <1>1 DEF StrangerCreates, Use, TransfersTyped
  <2>2. used.strangers + 1 \in 1..MaxStrangers BY <2>1, TransfersAssumption
  <2>3. Stranger(used.strangers + 1) \in Strangers BY <2>2 DEF Strangers
  <2> QED BY <2>3 DEF Tokens
<1>3. PICK token \in Tokens : token = Stranger(used.strangers + 1) BY <1>2
<1>4. disk' = Put(disk, p, {token}) /\ excused' = excused \ {token} /\ UNCHANGED <<apart, steps>>
  BY <1>3 DEF StrangerCreates
<1>5. AllWhole(disk') BY <1>1, <1>4, WholeAlone, WholePut
<1>6. AllCarry BY <1>1, SurprisedCarries DEF StrangerCreates
<1> QED BY <1>1, <1>4, <1>5, <1>6, CarriesStep

LEMMA SoundRemove ==
  ASSUME TransfersInv, SoundTransfers, NEW p \in Places, StrangerRemoves(p)
  PROVE  SoundTransfers'
<1>1. TransfersTyped /\ disk \in Disks /\ p \in AllPlaces /\ AllWhole(disk) /\ excused \subseteq Tokens
  BY DEF TransfersInv, TransfersTyped, AllPlaces, SoundTransfers
<1>2. disk' = Put(disk, p, {}) /\ excused' = excused \cup LiesAt(disk, p) /\ UNCHANGED <<apart, steps>>
  BY DEF StrangerRemoves
<1>3. AllWhole(disk') BY <1>1, <1>2, WholeAlone, WholePut
<1>4. AllCarry BY <1>1, SurprisedCarries DEF StrangerRemoves
<1>5. excused' \subseteq Tokens BY <1>1, <1>2, LiesAtFacts
<1> QED BY <1>2, <1>3, <1>4, <1>5, CarriesStep

\* The last step on a stack.
LEMMA SoundTop ==
  ASSUME TransfersInv, SoundTransfers, NEW r \in Roots
  PROVE  /\ steps[r].undo # <<>> => AllWhole(Last(steps[r].undo).before) /\ SoundStack(Front(steps[r].undo))
         /\ steps[r].redo # <<>> => AllWhole(Last(steps[r].redo).before) /\ SoundStack(Front(steps[r].redo))
<1>1. OnRecord(steps[r].undo) /\ OnRecord(steps[r].redo) BY StacksFacts
<1>2. SoundStack(steps[r].undo) /\ SoundStack(steps[r].redo) BY DEF SoundTransfers
<1>3. ASSUME NEW stack, OnRecord(stack), SoundStack(stack), stack # <<>>
      PROVE  AllWhole(Last(stack).before) /\ SoundStack(Front(stack))
  <2>1. \E i \in DOMAIN stack : Last(stack) = stack[i] BY <1>3, StackFacts
  <2>2. \A i \in DOMAIN Front(stack) : \E j \in DOMAIN stack : Front(stack)[i] = stack[j]
    BY <1>3, StackFacts
  <2> QED BY <1>3, <2>1, <2>2 DEF SoundStack
<1> QED BY <1>1, <1>2, <1>3

LEMMA SoundMore ==
  ASSUME NEW stack, OnRecord(stack), SoundStack(stack), NEW e \in Entry, AllWhole(e.before)
  PROVE  SoundStack(Append(stack, e))
<1>1. \A i \in DOMAIN Append(stack, e) : Append(stack, e)[i] = e \/ \E j \in DOMAIN stack : Append(stack, e)[i] = stack[j]
  BY StackFacts
<1> QED BY <1>1 DEF SoundStack

LEMMA SoundCommand ==
  ASSUME TransfersInv, SoundTransfers, NEW r \in Roots, Command(r)
  PROVE  SoundTransfers'
<1>1. ASSUME NEW selection \in Selections, StartDelete(r, selection)
      PROVE  SoundTransfers'
  <2>1. PICK items : Starts(r, Job("trash", "do", items, NoTransfer)) BY <1>1 DEF StartDelete
  <2> QED BY <2>1, StartSound
<1>2. ASSUME NEW selection \in Selections, NEW d \in Directories, StartMoveEntries(r, selection, d)
      PROVE  SoundTransfers'
  <2>1. PICK items : Starts(r, Job("rename", "do", items, NoTransfer)) BY <1>2 DEF StartMoveEntries
  <2> QED BY <2>1, StartSound
<1>3. ASSUME NEW d \in Directories, StartCut(r, d)
      PROVE  SoundTransfers'
  <2>1. PICK items : Starts(r, Job("move", "do", items, NoTransfer)) BY <1>3 DEF StartCut
  <2> QED BY <2>1, StartSound
<1>4. ASSUME NEW d \in Directories, StartCopy(r, d)
      PROVE  SoundTransfers'
  <2>1. PICK items : Starts(r, Job("copy", "do", items, NoTransfer)) BY <1>4 DEF StartCopy
  <2> QED BY <2>1, StartSound
<1>5. ASSUME StartUndo(r)
      PROVE  SoundTransfers'
  <2>1. PICK e : e = Last(steps[r].undo) OBVIOUS
  <2>2. AllWhole(e.before) BY <1>5, <2>1, SoundTop DEF StartUndo
  <2>3. ASSUME NEW kind, NEW items, Starts(r, Job(kind, "undo", items, e))
        PROVE  SoundTransfers'
    BY <2>2, <2>3, StartSound
  <2>4. e.kind \in {"rename", "move", "copy", "trash"}
    <3>1. e \in Entry /\ EntryInv(e) BY <1>5, <2>1, StacksFacts, StackFacts DEF StartUndo
    <3> QED BY <1>5, <2>1, <3>1 DEF StartUndo, EntryInv, Entry, Kinds
  <2>5. PICK back : back = Backwards(e.plan) OBVIOUS
  <2>6. CASE e.kind \in {"rename", "move"}
    <3>1. Starts(r, Job("rename", "undo", back, e)) BY <1>5, <2>1, <2>5, <2>6 DEF StartUndo
    <3> QED BY <2>3, <3>1
  <2>7. CASE e.kind = "copy"
    <3>1. Starts(r, Job("trash", "undo", Pairs([i \in DOMAIN back |-> back[i].from], LAMBDA p : p), e))
      BY <1>5, <2>1, <2>5, <2>7 DEF StartUndo
    <3> QED BY <2>3, <3>1
  <2>8. CASE e.kind = "trash"
    <3>1. Starts(r, Job("restore", "undo", back, e)) BY <1>5, <2>1, <2>5, <2>8 DEF StartUndo
    <3> QED BY <2>3, <3>1
  <2> QED BY <2>4, <2>6, <2>7, <2>8
<1>6. ASSUME StartRedo(r)
      PROVE  SoundTransfers'
  <2>1. PICK e : e = Last(steps[r].redo) OBVIOUS
  <2>2. AllWhole(e.before) BY <1>6, <2>1, SoundTop DEF StartRedo
  <2>3. ASSUME NEW kind, NEW items, Starts(r, Job(kind, "redo", items, e))
        PROVE  SoundTransfers'
    BY <2>2, <2>3, StartSound
  <2>4. e.kind \in {"rename", "move", "copy", "trash"}
    <3>1. e \in Entry /\ EntryInv(e) /\ e.kind # "system-trash-only"
      BY <1>6, <2>1, StacksFacts, StackFacts DEF StartRedo
    <3> QED BY <3>1 DEF EntryInv, Entry, Kinds
  <2>5. CASE e.kind \in {"rename", "move"}
    <3>1. Starts(r, Job("rename", "redo", e.plan, e)) BY <1>6, <2>1, <2>5 DEF StartRedo
    <3> QED BY <2>3, <3>1
  <2>6. CASE e.kind = "copy"
    <3>1. Starts(r, Job("copy", "redo", e.plan, e)) BY <1>6, <2>1, <2>6 DEF StartRedo
    <3> QED BY <2>3, <3>1
  <2>7. CASE e.kind = "trash"
    <3>1. Starts(r, Job("trash", "redo", e.plan, e)) BY <1>6, <2>1, <2>7 DEF StartRedo
    <3> QED BY <2>3, <3>1
  <2> QED BY <2>4, <2>5, <2>6, <2>7
<1>7. ASSUME UndoSystemTrash(r)
      PROVE  SoundTransfers'
  <2>1. steps' = [steps EXCEPT ![r].undo = Front(@)] /\ UNCHANGED <<disk, apart, jobs, excused>> /\ steps[r].undo # <<>>
    BY <1>7 DEF UndoSystemTrash
  <2>2. SoundStack(Front(steps[r].undo)) BY <2>1, SoundTop
  <2>3. steps \in [Roots -> [undo : Seq(Entry), redo : Seq(Entry)]]
    BY DEF TransfersInv, TransfersTyped
  <2>4. ASSUME NEW s \in Roots
        PROVE  SoundStack(steps'[s].undo) /\ SoundStack(steps'[s].redo)
    <3>1. CASE s = r
      <4>1. steps'[s].undo = Front(steps[r].undo) /\ steps'[s].redo = steps[r].redo
        BY <2>1, <2>3, <3>1
      <4> QED BY <2>2, <4>1 DEF SoundTransfers
    <3>2. CASE s # r BY <2>1, <2>3, <3>2 DEF SoundTransfers
    <3> QED BY <3>1, <3>2
  <2> QED BY <2>1, <2>4 DEF SoundTransfers, SoundStack, AllWhole, SoundJob, Busy
<1> QED BY <1>1, <1>2, <1>3, <1>4, <1>5, <1>6, <1>7 DEF Command

\* What is lost for others is on the disk.
LEMMA LostTokens ==
  ASSUME disk \in Disks, NEW r, NEW p
  PROVE  Lost(r, p) \subseteq Tokens
BY LiesAtFacts DEF Lost

LEMMA SoundRename ==
  ASSUME TransfersInv, SoundTransfers, NEW r \in Roots, RenameItem(r)
  PROVE  SoundTransfers'
<1>1. PICK p, q : p = Item(jobs[r]).from /\ q = Item(jobs[r]).to OBVIOUS
<1>2. Works(r, {"run", "back"}) BY DEF RenameItem
<1>3. TransfersTyped /\ disk \in Disks /\ r \in Busy /\ p \in AllPlaces /\ q \in AllPlaces
  BY <1>1, <1>2, WorksFacts
<1>4. /\ disk' = IF p = q THEN disk ELSE Put(Put(disk, p, {}), q, LiesAt(disk, p))
      /\ excused' = IF p = q THEN excused ELSE excused \cup Lost(r, q)
      /\ Advanced(r, {p, q}) /\ UNCHANGED <<apart, steps>>
  BY <1>1 DEF RenameItem
<1>5. AllWhole(disk')
  <2>1. AllWhole(disk) BY DEF SoundTransfers
  <2>2. PICK e : e = Put(disk, p, {}) OBVIOUS
  <2>3. e \in Disks /\ AllWhole(e) BY <1>3, <2>1, <2>2, WholeAlone, WholePut
  <2>4. LiesAt(disk, p) \in SUBSET Tokens /\ Whole(LiesAt(disk, p)) BY <1>3, <2>1, WholePart
  <2>5. AllWhole(Put(e, q, LiesAt(disk, p))) BY <1>3, <2>3, <2>4, WholePut
  <2> QED BY <1>4, <2>1, <2>2, <2>5
<1>6. AllCarry BY <1>3, <1>4, AdvancedCarries
<1>7. excused' \subseteq Tokens BY <1>3, <1>4, LostTokens DEF SoundTransfers
<1> QED BY <1>4, <1>5, <1>6, <1>7, CarriesStep

LEMMA SoundCopyAcross ==
  ASSUME TransfersInv, SoundTransfers, NEW r \in Roots, CopyAcross(r)
  PROVE  SoundTransfers'
<1>1. PICK p, q : p = Item(jobs[r]).from /\ q = Item(jobs[r]).to OBVIOUS
<1>2. Works(r, {"run", "back"}) /\ apart BY DEF CopyAcross
<1>3. TransfersTyped /\ disk \in Disks /\ r \in Busy /\ jobs[r] \in Working /\ p \in AllPlaces /\ q \in AllPlaces
  BY <1>1, <1>2, WorksFacts
<1>4. AllWhole(disk) /\ excused \subseteq Tokens BY DEF SoundTransfers
<1>5. PICK new : new = [jobs[r] EXCEPT !.stage = IF Rollback(jobs[r]) THEN "copiedBack" ELSE "copied"]
  OBVIOUS
<1>6. disk' = Put(disk, q, LiesAt(disk, p)) /\ UNCHANGED <<apart, steps, excused>>
      /\ jobs' = [Surprised({q}, r) EXCEPT ![r].stage = IF Rollback(jobs[r]) THEN "copiedBack" ELSE "copied"]
  BY <1>1 DEF CopyAcross
<1>7. jobs' = [Surprised({q}, r) EXCEPT ![r] = new]
  <2>1. DOMAIN Surprised({q}, r) = Roots /\ Surprised({q}, r)[r] = jobs[r] BY <1>3, SurprisedCarry
  <2> QED BY <1>5, <1>6, <2>1
<1>8. Carries(jobs[r], new) BY <1>3, <1>5 DEF Carries, Working
<1>9. AllCarry
  <2>1. PICK places : places = {q} OBVIOUS
  <2>2. jobs' \in {[jobs EXCEPT ![r] = new], [Surprised(places, r) EXCEPT ![r] = new]} BY <1>7, <2>1
  <2>3. Carries(jobs[r], new) /\ (Between(new) => Between(jobs[r]) \/ apart) BY <1>2, <1>8
  <2> QED BY <1>3, <2>2, <2>3, NewCarries
<1>10. AllWhole(disk') BY <1>3, <1>4, <1>6, WholePart, WholePut
<1> QED BY <1>4, <1>6, <1>9, <1>10, CarriesStep

\* An item whose source, or what was made of it, is removed.
LEMMA SoundRemovals ==
  ASSUME TransfersInv, SoundTransfers, NEW r \in Roots, RemoveSource(r) \/ RemoveMade(r) \/ TrashItem(r)
  PROVE  SoundTransfers'
<1>1. PICK p : p = Item(jobs[r]).from OBVIOUS
<1>2. Works(r, {"run", "back", "copied", "copiedBack"})
  BY DEF RemoveSource, RemoveMade, TrashItem, Works
<1>3. TransfersTyped /\ disk \in Disks /\ r \in Busy /\ p \in AllPlaces BY <1>1, <1>2, WorksFacts
<1>4. AllWhole(disk) /\ excused \subseteq Tokens BY DEF SoundTransfers
<1>5. /\ disk' = Put(disk, p, {}) /\ excused' \in {excused, excused \cup Lost(r, p)}
      /\ Advanced(r, {p}) /\ UNCHANGED <<apart, steps>>
  BY <1>1 DEF RemoveSource, RemoveMade, TrashItem
<1>6. AllWhole(disk') BY <1>3, <1>4, <1>5, WholeAlone, WholePut
<1>7. AllCarry BY <1>3, <1>5, AdvancedCarries
<1>8. excused' \subseteq Tokens BY <1>3, <1>4, <1>5, LostTokens
<1> QED BY <1>5, <1>6, <1>7, <1>8, CarriesStep

LEMMA SoundCopy ==
  ASSUME TransfersInv, SoundTransfers, NEW r \in Roots, CopyItem(r)
  PROVE  SoundTransfers'
<1>1. PICK p, q : p = Item(jobs[r]).from /\ q = Item(jobs[r]).to OBVIOUS
<1>2. Works(r, {"run"}) BY DEF CopyItem
<1>3. TransfersTyped /\ disk \in Disks /\ r \in Busy /\ p \in AllPlaces /\ q \in AllPlaces
  BY <1>1, <1>2, WorksFacts
<1>4. AllWhole(disk) /\ excused \subseteq Tokens BY DEF SoundTransfers
<1>5. disk' = Put(disk, q, LiesAt(disk, p)) /\ Advanced(r, {q}) /\ UNCHANGED <<apart, steps, excused>>
  BY <1>1 DEF CopyItem
<1>6. AllWhole(disk') BY <1>3, <1>4, <1>5, WholePart, WholePut
<1>7. AllCarry BY <1>3, <1>5, AdvancedCarries
<1> QED BY <1>4, <1>5, <1>6, <1>7, CarriesStep

LEMMA SoundRestore ==
  ASSUME TransfersInv, SoundTransfers, NEW r \in Roots, RestoreItem(r)
  PROVE  SoundTransfers'
<1>1. PICK p, q : p = Item(jobs[r]).from /\ q = Item(jobs[r]).to OBVIOUS
<1>2. Works(r, {"run"}) /\ jobs[r].kind = "restore" BY DEF RestoreItem
<1>3. TransfersTyped /\ disk \in Disks /\ r \in Busy /\ q \in AllPlaces /\ JobInv(disk, jobs[r])
  BY <1>1, <1>2, WorksFacts
<1>4. AllWhole(disk) /\ excused \subseteq Tokens /\ SoundJob(jobs[r]) BY <1>3 DEF SoundTransfers
<1>5. jobs[r].way # "do" /\ jobs[r].entry.before \in Disks
  BY <1>2, <1>3 DEF JobInv, Applies, EntryInv, Entry
<1>6. disk' = Put(disk, q, LiesAt(jobs[r].entry.before, q)) /\ Advanced(r, {q}) /\ UNCHANGED <<apart, steps, excused>>
  BY <1>1 DEF RestoreItem
<1>7. LiesAt(jobs[r].entry.before, q) \in SUBSET Tokens /\ Whole(LiesAt(jobs[r].entry.before, q))
  BY <1>3, <1>4, <1>5, WholePart DEF SoundJob
<1>8. AllWhole(disk') BY <1>3, <1>4, <1>6, <1>7, WholePut
<1>9. AllCarry BY <1>3, <1>6, AdvancedCarries
<1> QED BY <1>4, <1>6, <1>8, <1>9, CarriesStep

\* What a command becomes that failed has its task, and is not between two places.
LEMMA AfterFailureCarries ==
  ASSUME NEW job \in Working
  PROVE  NextAfterFailure(job).stage = "back" /\ Carries(job, NextAfterFailure(job))
<1>1. PICK n : n = IF job.kind = "copy" /\ job.way = "redo" THEN 0 ELSE job.done - 1 OBVIOUS
<1>2. NextAfterFailure(job) \in {[job EXCEPT !.stage = "back"], [job EXCEPT !.stage = "back", !.failed = TRUE, !.done = n]}
  <2>1. DOMAIN job = DOMAIN [job EXCEPT !.stage = "back", !.failed = TRUE] BY DEF Working
  <2> QED BY <1>1 DEF NextAfterFailure, Working
<1> QED BY <1>2 DEF Working, Carries

LEMMA FailedCarries ==
  ASSUME NEW job \in Working, NEW part, NEW new, new = [NextAfterFailure(job) EXCEPT !.partial = part]
  PROVE  Carries(job, new) /\ ~ Between(new)
<1>1. PICK next : next = NextAfterFailure(job) OBVIOUS
<1>2. next.stage = "back" /\ Carries(job, next) BY <1>1, AfterFailureCarries
<1>3. new.stage = next.stage /\ new.before = next.before /\ new.way = next.way /\ new.entry = next.entry
  BY <1>1
<1> QED BY <1>2, <1>3 DEF Carries, Between

\* A command that goes on with another plan, or backwards.
LEMMA SoundQuiet ==
  ASSUME TransfersInv, SoundTransfers, NEW r \in Roots, SkipGone(r) \/ FailItem(r) \/ FailTrash(r)
  PROVE  SoundTransfers'
<1>1. r \in Busy /\ TransfersTyped /\ jobs[r] \in Working
  BY DEF SkipGone, FailItem, FailTrash, Fails, Works, Busy, TransfersInv, TransfersTyped
<1>2. DOMAIN jobs = Roots BY <1>1 DEF TransfersTyped
<1>3. UNCHANGED <<disk, apart, steps, excused>> /\ AllWhole(disk) /\ excused \subseteq Tokens
  BY DEF SkipGone, FailItem, FailTrash, SoundTransfers
<1>4. \E new : /\ jobs' = [jobs EXCEPT ![r] = new] /\ Carries(jobs[r], new)
               /\ new.stage \in {jobs[r].stage, "back"}
  <2>1. CASE SkipGone(r)
    <3>1. PICK new : new = [jobs[r] EXCEPT !.plan = RemoveAt(@, jobs[r].done + 1)] OBVIOUS
    <3>2. jobs' = [jobs EXCEPT ![r] = new] BY <1>2, <2>1, <3>1 DEF SkipGone
    <3>3. PICK rest : rest = RemoveAt(jobs[r].plan, jobs[r].done + 1) OBVIOUS
    <3>4. new = [jobs[r] EXCEPT !.plan = rest] BY <3>1, <3>3
    <3>5. Carries(jobs[r], new) /\ new.stage = jobs[r].stage BY <1>1, <3>4 DEF Carries, Working
    <3> QED BY <3>2, <3>5
  <2>2. CASE FailItem(r)
    <3>1. PICK new : new = NextAfterFailure(jobs[r]) OBVIOUS
    <3>2. jobs' = [jobs EXCEPT ![r] = new] BY <2>2, <3>1 DEF FailItem
    <3>3. new.stage = "back" /\ Carries(jobs[r], new) BY <1>1, <3>1, AfterFailureCarries
    <3> QED BY <3>2, <3>3
  <2>3. CASE FailTrash(r)
    <3>1. PICK new : new = [jobs[r] EXCEPT !.plan = SubSeq(@, 1, jobs[r].done), !.failed = TRUE]
      OBVIOUS
    <3>2. jobs' = [jobs EXCEPT ![r] = new] BY <1>2, <2>3, <3>1 DEF FailTrash
    <3>3. PICK rest : rest = SubSeq(jobs[r].plan, 1, jobs[r].done) OBVIOUS
    <3>4. new = [jobs[r] EXCEPT !.plan = rest, !.failed = TRUE] BY <3>1, <3>3
    <3>5. Carries(jobs[r], new) /\ new.stage = jobs[r].stage BY <1>1, <3>4 DEF Carries, Working
    <3> QED BY <3>2, <3>5
  <2> QED BY <2>1, <2>2, <2>3
<1>5. PICK new : /\ jobs' = [jobs EXCEPT ![r] = new] /\ Carries(jobs[r], new)
                 /\ new.stage \in {jobs[r].stage, "back"}
  BY <1>4
<1>6. AllCarry
  <2>1. jobs' \in {[jobs EXCEPT ![r] = new], [Surprised({}, r) EXCEPT ![r] = new]} BY <1>5
  <2>2. Carries(jobs[r], new) /\ (Between(new) => Between(jobs[r]) \/ apart) BY <1>5 DEF Between
  <2> QED BY <1>1, <2>1, <2>2, NewCarries
<1> QED BY <1>3, <1>6, CarriesStep

LEMMA SoundFailCopy ==
  ASSUME TransfersInv, SoundTransfers, NEW r \in Roots, FailCopy(r)
  PROVE  SoundTransfers'
<1>1. PICK p, q : p = Item(jobs[r]).from /\ q = Item(jobs[r]).to OBVIOUS
<1>2. Works(r, {"run", "copied", "back", "copiedBack"}) BY DEF FailCopy, Fails
<1>3. TransfersTyped /\ disk \in Disks /\ r \in Busy /\ jobs[r] \in Working /\ p \in AllPlaces /\ q \in AllPlaces
  BY <1>1, <1>2, WorksFacts
<1>4. AllWhole(disk) /\ excused \subseteq Tokens BY DEF SoundTransfers
<1>5. PICK part \in SUBSET LiesAt(disk, p) : disk' = Put(disk, q, part) BY <1>1 DEF FailCopy
<1>6. UNCHANGED <<apart, steps, excused>>
      /\ jobs' = [Surprised({q}, r) EXCEPT ![r] = [NextAfterFailure(jobs[r]) EXCEPT !.partial = TRUE]]
  BY <1>1 DEF FailCopy
<1>7. AllWhole(disk') BY <1>3, <1>4, <1>5, WholePart, WholePut
<1>8. PICK new : new = [NextAfterFailure(jobs[r]) EXCEPT !.partial = TRUE] OBVIOUS
<1>9. Carries(jobs[r], new) /\ ~ Between(new) BY <1>3, <1>8, FailedCarries
<1>10. AllCarry
  <2>1. PICK places : places = {q} OBVIOUS
  <2>2. jobs' \in {[jobs EXCEPT ![r] = new], [Surprised(places, r) EXCEPT ![r] = new]}
    BY <1>6, <1>8, <2>1
  <2>3. Carries(jobs[r], new) /\ (Between(new) => Between(jobs[r]) \/ apart) BY <1>9
  <2> QED BY <1>3, <2>2, <2>3, NewCarries
<1> QED BY <1>4, <1>6, <1>7, <1>10, CarriesStep

LEMMA SoundFailRemove ==
  ASSUME TransfersInv, SoundTransfers, NEW r \in Roots, FailRemove(r)
  PROVE  SoundTransfers'
<1>1. PICK p, q : p = Item(jobs[r]).from /\ q = Item(jobs[r]).to OBVIOUS
<1>2. Works(r, {"run", "copied", "back", "copiedBack"}) BY DEF FailRemove, Fails
<1>3. TransfersTyped /\ disk \in Disks /\ r \in Busy /\ jobs[r] \in Working /\ p \in AllPlaces /\ q \in AllPlaces
  BY <1>1, <1>2, WorksFacts
<1>4. AllWhole(disk) /\ excused \subseteq Tokens BY DEF SoundTransfers
<1>5. PICK left \in SUBSET LiesAt(disk, p) :
        /\ disk' = Put(Put(disk, p, left), q, {})
        /\ excused' = excused \cup (LiesAt(disk, p) \ left) \cup Lost(r, q) \cup Lost(r, p)
        /\ jobs' = [Surprised({p, q}, r) EXCEPT
                      ![r] = [NextAfterFailure(jobs[r]) EXCEPT !.partial = @ \/ left # LiesAt(disk, p)]]
  BY <1>1 DEF FailRemove
<1>6. UNCHANGED <<apart, steps>> BY DEF FailRemove
<1>7. AllWhole(disk')
  <2>1. PICK e : e = Put(disk, p, left) OBVIOUS
  <2>2. left \in SUBSET Tokens /\ Whole(left) BY <1>3, <1>4, WholePart
  <2>3. e \in Disks /\ AllWhole(e) BY <1>3, <1>4, <2>1, <2>2, WholePut
  <2> QED BY <1>3, <1>5, <2>1, <2>3, WholeAlone, WholePut
<1>8. PICK part : part = (NextAfterFailure(jobs[r]).partial \/ left # LiesAt(disk, p)) OBVIOUS
<1>9. PICK new : new = [NextAfterFailure(jobs[r]) EXCEPT !.partial = part] OBVIOUS
<1>10. jobs' = [Surprised({p, q}, r) EXCEPT ![r] = new] BY <1>5, <1>8, <1>9
<1>11. Carries(jobs[r], new) /\ ~ Between(new) BY <1>3, <1>9, FailedCarries
<1>12. AllCarry
  <2>1. PICK places : places = {p, q} OBVIOUS
  <2>2. jobs' \in {[jobs EXCEPT ![r] = new], [Surprised(places, r) EXCEPT ![r] = new]}
    BY <1>10, <2>1
  <2>3. Carries(jobs[r], new) /\ (Between(new) => Between(jobs[r]) \/ apart) BY <1>11
  <2> QED BY <1>3, <2>2, <2>3, NewCarries
<1>13. excused' \subseteq Tokens BY <1>3, <1>4, <1>5, LostTokens, LiesAtFacts
<1> QED BY <1>6, <1>7, <1>12, <1>13, CarriesStep

\* The command of r ends, and its stacks may change.
LEMMA EndSound ==
  ASSUME TransfersInv, SoundTransfers, NEW r \in Roots, jobs' = [jobs EXCEPT ![r] = NoTransfer],
         UNCHANGED <<disk, apart, excused>>,
         \A s \in Roots : SoundStack(steps'[s].undo) /\ SoundStack(steps'[s].redo)
  PROVE  SoundTransfers'
<1>1. DOMAIN jobs = Roots BY DEF TransfersInv, TransfersTyped
<1>2. \A s \in Busy' : s \in Busy /\ jobs'[s] = jobs[s] BY <1>1 DEF Busy
<1> QED BY <1>2 DEF SoundTransfers, SoundStack, AllWhole, SoundJob

LEMMA SoundEndCommand ==
  ASSUME TransfersInv, SoundTransfers, NEW r \in Roots, EndCommand(r)
  PROVE  SoundTransfers'
<1>1. r \in Busy /\ jobs[r] \in Working
  BY DEF EndCommand, Finished, Busy, TransfersInv, TransfersTyped
<1>2. AllWhole(jobs[r].before) BY <1>1 DEF SoundTransfers, SoundJob
<1>3. steps \in [Roots -> [undo : Seq(Entry), redo : Seq(Entry)]]
      /\ steps' \in [Roots -> [undo : Seq(Entry), redo : Seq(Entry)]]
  BY EndCommandStep DEF TransfersInv, TransfersTyped
<1>4. PICK kind, items, whole, strange :
        steps' \in {steps, [steps EXCEPT ![r] =
           [undo |-> Append(@.undo, [kind |-> kind, plan |-> items, before |-> jobs[r].before, after |-> disk,
                                     alone |-> whole, foreign |-> strange]), redo |-> <<>>]]}
  BY DEF EndCommand
<1>5. PICK e : e = [kind |-> kind, plan |-> items, before |-> jobs[r].before, after |-> disk,
                    alone |-> whole, foreign |-> strange]
  OBVIOUS
<1>6. \A s \in Roots : SoundStack(steps[s].undo) /\ SoundStack(steps[s].redo) BY DEF SoundTransfers
<1>7. CASE steps' = steps BY <1>6, <1>7, EndSound DEF EndCommand
<1>8. CASE steps' = [steps EXCEPT ![r] = [undo |-> Append(@.undo, e), redo |-> <<>>]]
  <2>1. steps'[r].undo = Append(steps[r].undo, e) /\ steps'[r].redo = <<>> BY <1>3, <1>8
  <2>2. \A s \in Roots \ {r} : steps'[s] = steps[s] BY <1>3, <1>8
  <2>3. steps[r].undo \in Seq(Entry) /\ e.before = jobs[r].before BY <1>3, <1>5
  <2>4. \A i \in DOMAIN Append(steps[r].undo, e) :
          Append(steps[r].undo, e)[i] = e \/ (i \in DOMAIN steps[r].undo /\ Append(steps[r].undo, e)[i] = steps[r].undo[i])
    BY <2>3
  <2>5. SoundStack(Append(steps[r].undo, e)) BY <1>2, <1>6, <2>3, <2>4 DEF SoundStack
  <2>6. SoundStack(<<>>) BY DEF SoundStack
  <2>7. \A s \in Roots : SoundStack(steps'[s].undo) /\ SoundStack(steps'[s].redo)
    BY <1>6, <2>1, <2>2, <2>5, <2>6
  <2> QED BY <2>7, EndSound DEF EndCommand
<1> QED BY <1>4, <1>5, <1>7, <1>8

LEMMA SoundEndApplied ==
  ASSUME TransfersInv, SoundTransfers, NEW r \in Roots, EndApplied(r)
  PROVE  SoundTransfers'
<1>1. r \in Busy /\ jobs[r] \in Working /\ JobInv(disk, jobs[r]) /\ jobs[r].way # "do"
  BY DEF EndApplied, Finished, Busy, TransfersInv, TransfersTyped, JobsInv
<1>2. PICK e : e = jobs[r].entry OBVIOUS
<1>3. AllWhole(e.before) /\ e \in Entry
  BY <1>1, <1>2 DEF SoundTransfers, SoundJob, JobInv, Applies, EntryInv
<1>4. steps \in [Roots -> [undo : Seq(Entry), redo : Seq(Entry)]]
  BY DEF TransfersInv, TransfersTyped
<1>5. PICK u, d : u = steps[r].undo /\ d = steps[r].redo OBVIOUS
<1>6. OnRecord(u) /\ OnRecord(d) /\ SoundStack(u) /\ SoundStack(d)
  BY <1>5, StacksFacts DEF SoundTransfers
<1>7. \/ steps' = [steps EXCEPT ![r] = [undo |-> Front(u), redo |-> Append(d, e)]]
      \/ steps' = [steps EXCEPT ![r] = [undo |-> Append(u, e), redo |-> Front(d)]]
  BY <1>2, <1>4, <1>5 DEF EndApplied
<1>8. SoundStack(Append(u, e)) /\ SoundStack(Append(d, e)) BY <1>3, <1>6, SoundMore
<1>9. SoundStack(Front(<<>>)) BY DEF SoundStack, Front
<1>10. SoundStack(Front(u)) /\ SoundStack(Front(d)) BY <1>5, <1>9, SoundTop
<1>11. \A s \in Roots : SoundStack(steps'[s].undo) /\ SoundStack(steps'[s].redo)
  <2>1. \A s \in Roots \ {r} : steps'[s] = steps[s] BY <1>4, <1>7
  <2>2. SoundStack(steps'[r].undo) /\ SoundStack(steps'[r].redo)
    <3>1. PICK uf, df, ua, da : uf = Front(u) /\ df = Front(d) /\ ua = Append(u, e) /\ da = Append(d, e)
      OBVIOUS
    <3>2. \/ steps'[r] = [undo |-> uf, redo |-> da]
          \/ steps'[r] = [undo |-> ua, redo |-> df]
      BY <1>4, <1>7, <3>1
    <3>3. SoundStack(uf) /\ SoundStack(df) /\ SoundStack(ua) /\ SoundStack(da) BY <1>8, <1>10, <3>1
    <3> QED BY <3>2, <3>3
  <2> QED BY <2>1, <2>2 DEF SoundTransfers
<1> QED BY <1>11, EndSound DEF EndApplied

LEMMA SoundStep == TransfersInv /\ SoundTransfers /\ [TransfersNext]_transferVars => SoundTransfers'
<1> SUFFICES ASSUME TransfersInv, SoundTransfers, [TransfersNext]_transferVars
             PROVE  SoundTransfers'
  OBVIOUS
<1>1. CASE UNCHANGED <<disk, apart, jobs, steps, excused>>
  BY <1>1 DEF SoundTransfers, SoundStack, AllWhole, SoundJob, Busy
<1>2. ASSUME NEW p \in Places, StrangerCreates(p) \/ StrangerRemoves(p)
      PROVE  SoundTransfers'
  BY <1>2, SoundCreate, SoundRemove
<1>3. ASSUME NEW r \in Roots, Work(r)
      PROVE  SoundTransfers'
  <2>1. CASE RenameItem(r) \/ CopyAcross(r) BY <2>1, SoundRename, SoundCopyAcross
  <2>2. CASE RemoveSource(r) \/ RemoveMade(r) \/ TrashItem(r) BY <2>2, SoundRemovals
  <2>3. CASE CopyItem(r) \/ RestoreItem(r) BY <2>3, SoundCopy, SoundRestore
  <2>4. CASE SkipGone(r) \/ FailItem(r) \/ FailTrash(r) BY <2>4, SoundQuiet
  <2>5. CASE FailCopy(r) \/ FailRemove(r) BY <2>5, SoundFailCopy, SoundFailRemove
  <2>6. CASE EndCommand(r) \/ EndApplied(r) BY <2>6, SoundEndCommand, SoundEndApplied
  <2>7. CASE EndFailed(r)
    <3>1. jobs' = [jobs EXCEPT ![r] = NoTransfer] /\ UNCHANGED <<disk, apart, excused, steps>>
      BY <2>7 DEF EndFailed
    <3> QED BY <3>1, EndSound DEF SoundTransfers
  <2> QED BY <1>3, <2>1, <2>2, <2>3, <2>4, <2>5, <2>6, <2>7 DEF Work
<1>4. ASSUME NEW selection \in Selections, NEW cut \in BOOLEAN, Clip(selection, cut)
      PROVE  SoundTransfers'
  BY <1>1, <1>4 DEF Clip
<1> QED BY <1>1, <1>2, <1>3, <1>4, SoundCommand DEF TransfersNext, transferVars

\* At first every name is there once.
LEMMA SoundStart == TransfersInit => SoundTransfers
<1> SUFFICES ASSUME TransfersInit PROVE SoundTransfers
  OBVIOUS
<1>1. TransfersInv /\ disk \in Disks BY TransfersStart DEF TransfersInv, TransfersTyped
<1>2. excused \subseteq Tokens /\ Busy = {} /\ \A r \in Roots : steps[r].undo = <<>> /\ steps[r].redo = <<>>
  BY DEF TransfersInit, Tokens, Busy
<1>3. ASSUME NEW x \in AllPlaces, NEW s \in LiesAt(disk, x), NEW t \in LiesAt(disk, x), s # t
      PROVE  s[2] \in FolderBases
  <2>1. <<x, s>> \in disk /\ <<x, t>> \in disk BY <1>1, LiesAtFacts
  <2>2. disk = UNION {{Place(r, 1, b, 0)} \X Parts(r, b) : r \in Filled, b \in Bases}
    BY DEF TransfersInit
  <2>3. PICK r \in Filled, b \in Bases : <<x, s>> \in {Place(r, 1, b, 0)} \X Parts(r, b)
    BY <2>1, <2>2
  <2>4. PICK q \in Filled, c \in Bases : <<x, t>> \in {Place(q, 1, c, 0)} \X Parts(q, c)
    BY <2>1, <2>2
  <2>5. x = Place(r, 1, b, 0) /\ s \in Parts(r, b) /\ x = Place(q, 1, c, 0) /\ t \in Parts(q, c)
    BY <2>3, <2>4
  <2>6. r = q /\ b = c BY <2>5 DEF Place
  <2>7. b \in FolderBases BY <1>3, <2>5, <2>6 DEF Parts
  <2> QED BY <2>5, <2>7 DEF Parts
<1>4. AllWhole(disk) BY <1>3 DEF AllWhole, Whole
<1> QED BY <1>2, <1>4 DEF SoundTransfers, SoundStack

LEMMA TransfersAreTyped == TransfersInv /\ SoundTransfers => TransfersTypeOK
<1> SUFFICES ASSUME TransfersInv, SoundTransfers PROVE TransfersTypeOK
  OBVIOUS
<1>1. disk \in Disks /\ trash \subseteq Tokens /\ excused \subseteq Tokens
  BY DEF TransfersInv, TransfersTyped, SoundTransfers
<1>2. ASSUME NEW x \in disk, NEW y \in disk, x[1] = y[1], x # y
      PROVE  x[2][2] \in FolderBases
  <2>1. PICK a \in AllPlaces, s \in Tokens : x = <<a, s>> BY <1>1 DEF Disks
  <2>2. PICK t \in Tokens : y = <<a, t>> BY <1>1, <1>2, <2>1 DEF Disks
  <2>3. s \in LiesAt(disk, a) /\ t \in LiesAt(disk, a) /\ s # t
    BY <1>1, <1>2, <2>1, <2>2, LiesAtFacts
  <2> QED BY <2>1, <2>3 DEF SoundTransfers, AllWhole, Whole
<1>3. ASSUME NEW r \in Roots, jobs[r] # NoTransfer
      PROVE  /\ jobs[r].kind \in Kinds /\ jobs[r].stage \in {"run", "copied", "back", "copiedBack"}
             /\ jobs[r].done < Len(jobs[r].plan) \/ jobs[r].stage \in {"run", "back"}
             /\ jobs[r].stage \in {"copied", "copiedBack"} => jobs[r].kind = "move" /\ apart
             /\ jobs[r].stage \in {"back", "copiedBack"} => jobs[r].kind # "trash"
  <2>1. r \in Busy BY <1>3 DEF Busy
  <2>2. jobs[r] \in Working /\ Placed(jobs[r]) /\ SoundJob(jobs[r])
    BY <2>1 DEF TransfersInv, TransfersTyped, JobsInv, JobInv, SoundTransfers
  <2> QED BY <2>2 DEF Working, Placed, SoundJob, Between
<1> QED BY <1>1, <1>2, <1>3 DEF TransfersTypeOK, Disks

------------------------------
(* Plans: the groups of a plan are a partition of what was staged, and one *)
(* of them is left while the plan is shown. *)

Grouping(groups) == groups = <<>> \/ \E s \in SUBSET Files : groups \in Partitions(s)

Count == 0..Cardinality(Files)

SoundGen ==
  /\ gen.left \subseteq gen.paths /\ (gen.pc # "hash" => gen.left = {})
  /\ Grouping(gen.plan.groups)

SoundWindow ==
  /\ Grouping(plan.groups) /\ prepared \in Count /\ done \subseteq 1..Cardinality(Files)
  /\ plan # NoPlan => Cardinality(done) < Len(plan.groups)
  /\ known \subseteq Files

SoundPreparation == preparation.group \in Count /\ preparation.staged \subseteq Files

SoundHistory ==
  /\ outside \in 0..MaxOutside
  /\ touched \in BOOLEAN /\ disturbed \in BOOLEAN /\ added \in BOOLEAN
  /\ replaced \in BOOLEAN /\ refused \in BOOLEAN

SoundPlan == SoundGen /\ SoundWindow /\ SoundPreparation /\ SoundHistory

LEMMA FilesCounted == Cardinality(Files) \in Nat /\ 0 \in Count /\ 1..Cardinality(Files) \subseteq Count
<1>1. Cardinality(Files) \in Nat BY PlanAssumption, FS_CardinalityType
<1> QED BY <1>1 DEF Count

\* A plan has at least two groups.
LEMMA GroupsCounted ==
  ASSUME NEW groups, Grouping(groups), groups # <<>>
  PROVE  Len(groups) \in Nat /\ Len(groups) > 1
<1>1. PICK s \in SUBSET Files : groups \in Partitions(s) BY DEF Grouping
<1>2. PICK n \in 2..Cardinality(s) : groups \in [1..n -> (SUBSET s) \ {{}}] BY <1>1 DEF Partitions
<1>3. Cardinality(s) \in Nat BY PlanAssumption, FS_Subset, FS_CardinalityType
<1>4. n \in Nat /\ n > 1 BY <1>2, <1>3
<1>5. Len(groups) = n BY <1>2, <1>4
<1> QED BY <1>4, <1>5

LEMMA NoPlanIsGrouped == Grouping(NoPlan.groups) /\ NoPlan.groups = <<>>
BY DEF Grouping, NoPlan

LEMMA NoGenIsSound ==
  ASSUME gen' = NoGen \/ gen' = [NoGen EXCEPT !.pc = "status"]
  PROVE  SoundGen'
<1>1. gen'.left = {} /\ gen'.paths = {} /\ gen'.plan = NoPlan BY DEF NoGen
<1> QED BY <1>1, NoPlanIsGrouped DEF SoundGen

LEMMA GenTouchedIsSound ==
  ASSUME SoundGen, IsGen, GenTouched
  PROVE  SoundGen'
<1>1. gen'.left = gen.left /\ gen'.paths = gen.paths /\ gen'.plan = gen.plan /\ gen'.pc = gen.pc
  BY DEF GenTouched, IsGen
<1> QED BY <1>1 DEF SoundGen

\* A step of the generation alone.
LEMMA SoundGeneration ==
  ASSUME SoundPlan, UNCHANGED <<window, preparation, history>>, SoundGen'
  PROVE  SoundPlan'
BY DEF SoundPlan, SoundWindow, SoundPreparation, SoundHistory, window, history

LEMMA SoundGenerating ==
  ASSUME PlanInv, SoundPlan,
         BeginGenerate \/ CancelGenerate \/ ReadStatus \/ ReadPatch \/ Recheck \/ \E f \in Files : HashFile(f)
  PROVE  SoundPlan'
<1>1. IsGen /\ SoundGen BY DEF PlanInv, Typed, SoundPlan
<1>2. UNCHANGED <<window, preparation, history>>
  BY DEF BeginGenerate, CancelGenerate, ReadStatus, ReadPatch, Recheck, HashFile, Abandoned
<1>3. SoundGen'
  <2>1. CASE gen' = NoGen \/ gen' = [NoGen EXCEPT !.pc = "status"] BY <2>1, NoGenIsSound
  <2>2. ASSUME ReadStatus, gen' # NoGen
        PROVE  SoundGen'
    <3>1. gen.pc = "status" /\ gen'.plan = gen.plan /\ gen'.left = gen.left /\ gen'.pc = "model"
      BY <1>1, <2>2 DEF ReadStatus, IsGen, Abandoned
    <3> QED BY <1>1, <3>1 DEF SoundGen
  <2>3. ASSUME ReadPatch
        PROVE  SoundGen'
    <3>1. gen.pc = "model" /\ gen'.plan.groups = gen.plan.groups /\ gen'.left = gen.left /\ gen'.paths = gen.paths
      BY <1>1, <2>3 DEF ReadPatch, IsGen, IsPlan
    <3> QED BY <1>1, <3>1 DEF SoundGen
  <2>4. ASSUME Recheck, gen' # NoGen
        PROVE  SoundGen'
    <3>1. gen.pc = "recheck" /\ gen.paths \subseteq Files /\ gen.left = {}
      BY <1>1, <2>4 DEF Recheck, IsGen, SoundGen
    <3>2. CASE gen' = [gen EXCEPT !.pc = "hash"]
      <4>1. gen'.plan = gen.plan /\ gen'.left = {} /\ gen'.pc = "hash" BY <1>1, <3>1, <3>2 DEF IsGen
      <4> QED BY <1>1, <4>1 DEF SoundGen
    <3>3. ASSUME NEW g \in Partitions(gen.paths),
                 gen' = [gen EXCEPT !.pc = "hash", !.plan.groups = g, !.left = gen.paths]
          PROVE  SoundGen'
      <4>1. gen'.plan.groups = g /\ gen'.left = gen.paths /\ gen'.paths = gen.paths /\ gen'.pc = "hash"
        BY <1>1, <3>3 DEF IsGen, IsPlan
      <4>2. Grouping(g) BY <3>1, <3>3 DEF Grouping
      <4> QED BY <4>1, <4>2 DEF SoundGen
    <3> QED BY <2>4, <3>2, <3>3 DEF Recheck, Abandoned
  <2>5. ASSUME NEW f \in Files, HashFile(f)
        PROVE  SoundGen'
    <3>1. gen.pc = "hash" /\ gen'.pc = "hash" /\ gen'.left = gen.left \ {f} /\ gen'.paths = gen.paths
          /\ gen'.plan.groups = gen.plan.groups
      BY <1>1, <2>5 DEF HashFile, IsGen, IsPlan
    <3> QED BY <1>1, <3>1 DEF SoundGen
  <2> QED BY <2>1, <2>2, <2>3, <2>4, <2>5 DEF BeginGenerate, CancelGenerate, Abandoned
<1> QED BY <1>2, <1>3, SoundGeneration

LEMMA SoundShow ==
  ASSUME PlanInv, SoundPlan, Show
  PROVE  SoundPlan'
<1>1. /\ plan' = IF gen.plan.groups = <<>> THEN NoPlan ELSE gen.plan
      /\ prepared' = 0 /\ done' = {} /\ gen' = NoGen
      /\ UNCHANGED <<known, preparation, outside, disturbed, added>>
      /\ touched' = (gen.touched \/ known # Staged) /\ replaced' = Preparing /\ refused' = FALSE
  BY DEF Show
<1>2. SoundGen' BY <1>1, NoGenIsSound
<1>3. Grouping(plan'.groups) BY <1>1, NoPlanIsGrouped DEF SoundPlan, SoundGen
<1>4. plan' # NoPlan => 0 < Len(plan'.groups)
  <2>1. plan' # NoPlan => plan'.groups # <<>> BY <1>1
  <2> QED BY <1>3, <2>1, GroupsCounted
<1>5. SoundWindow'
  <2>1. Cardinality({}) = 0 BY FS_EmptySet
  <2> QED BY <1>1, <1>3, <1>4, <2>1, FilesCounted DEF SoundPlan, SoundWindow
<1>6. SoundHistory'
  <2>1. gen.touched \in BOOLEAN /\ Preparing \in BOOLEAN BY DEF PlanInv, Typed, IsGen, Preparing
  <2> QED BY <1>1, <2>1 DEF SoundPlan, SoundHistory
<1>7. SoundPreparation' BY <1>1 DEF SoundPlan, SoundPreparation
<1> QED BY <1>2, <1>5, <1>6, <1>7 DEF SoundPlan

\* The plan goes, and what was marked complete with it or not.
LEMMA DroppedIsSound ==
  ASSUME SoundPlan, plan' = NoPlan, prepared' = 0, done' \in {done, {}}, known' \subseteq Files
  PROVE  SoundWindow'
BY NoPlanIsGrouped, FilesCounted DEF SoundPlan, SoundWindow

LEMMA SoundPreparing ==
  ASSUME PlanInv, SoundPlan,
         (\E i \in 1..Cardinality(Files) : Prepare(i)) \/ CheckStatus \/ CheckFingerprint \/ Unstage \/ Add \/ PrepareEnds
  PROVE  SoundPlan'
<1>1. IsGen /\ IsPreparation /\ SoundGen /\ SoundPreparation BY DEF PlanInv, Typed, SoundPlan
<1>2. SoundGen'
  <2>1. CASE UNCHANGED gen BY <2>1 DEF SoundPlan, SoundGen
  <2>2. CASE GenTouched BY <1>1, <2>2, GenTouchedIsSound
  <2> QED BY <2>1, <2>2 DEF Prepare, CheckStatus, CheckFingerprint, Goes, Unstage, Add, PrepareEnds
<1>3. SoundPreparation'
  <2>1. ASSUME NEW i \in 1..Cardinality(Files), Prepare(i)
        PROVE  SoundPreparation'
    <3>1. preparation'.group = i /\ preparation'.staged = {} BY <2>1 DEF Prepare, NoTask
    <3> QED BY <3>1, FilesCounted DEF SoundPreparation
  <2>2. CASE CheckStatus
    <3>1. preparation'.group = preparation.group /\ preparation'.staged \in {preparation.staged, Staged}
      BY <1>1, <2>2 DEF CheckStatus, Goes, IsPreparation
    <3> QED BY <1>1, <3>1 DEF SoundPreparation, Staged
  <2>3. CASE CheckFingerprint \/ Unstage \/ Add
    <3>1. preparation'.group = preparation.group /\ preparation'.staged = preparation.staged
      BY <1>1, <2>3 DEF CheckFingerprint, Unstage, Add, Goes, IsPreparation
    <3> QED BY <1>1, <3>1 DEF SoundPreparation
  <2>4. CASE PrepareEnds
    <3>1. preparation'.group = 0 /\ preparation'.staged = {} BY <2>4 DEF PrepareEnds, NoTask
    <3> QED BY <3>1, FilesCounted DEF SoundPreparation
  <2> QED BY <2>1, <2>2, <2>3, <2>4
<1>4. SoundWindow'
  <2>1. CASE UNCHANGED window BY <2>1 DEF SoundPlan, SoundWindow, window
  <2>2. CASE PrepareEnds
    <3>1. prepared' \in {preparation.group, 0} /\ known' = Staged /\ UNCHANGED <<plan, done>>
      BY <2>2 DEF PrepareEnds, Refreshed
    <3> QED BY <1>1, <3>1, FilesCounted DEF SoundPlan, SoundWindow, SoundPreparation, Staged
  <2> QED BY <2>1, <2>2 DEF Prepare, CheckStatus, CheckFingerprint, Goes, Unstage, Add
<1>5. SoundHistory'
  <2>1. CASE UNCHANGED history BY <2>1 DEF SoundPlan, SoundHistory, history
  <2>2. CASE \E i \in 1..Cardinality(Files) : Prepare(i)
    BY <2>2 DEF Prepare, SoundPlan, SoundHistory
  <2>3. CASE Add BY <2>3 DEF Add, SoundPlan, SoundHistory
  <2>4. CASE PrepareEnds BY <2>4 DEF PrepareEnds, SoundPlan, SoundHistory
  <2> QED BY <2>1, <2>2, <2>3, <2>4 DEF CheckStatus, CheckFingerprint, Goes, Unstage
<1> QED BY <1>2, <1>3, <1>4, <1>5 DEF SoundPlan

LEMMA SoundCommit ==
  ASSUME PlanInv, SoundPlan, Commit
  PROVE  SoundPlan'
<1>1. /\ UNCHANGED <<gen, preparation, outside, touched, added, replaced, refused>>
      /\ known' = {} /\ disturbed' = TRUE
  BY DEF Commit, Refreshed
<1>2. SoundWindow'
  <2>1. CASE plan' = NoPlan /\ prepared' = 0 /\ done' = {} BY <1>1, <2>1, DroppedIsSound
  <2>2. CASE /\ prepared # 0 /\ GroupsRemain
             /\ done' = done \cup {prepared} /\ prepared' = 0 /\ UNCHANGED plan
    <3>1. Cardinality(done') < Len(plan'.groups) BY <2>2 DEF GroupsRemain
    <3>2. prepared \in 1..Cardinality(Files) BY <2>2, FilesCounted DEF SoundPlan, SoundWindow, Count
    <3> QED BY <1>1, <2>2, <3>1, <3>2, FilesCounted DEF SoundPlan, SoundWindow
  <2> QED BY <2>1, <2>2 DEF Commit, Dropped
<1> QED BY <1>1, <1>2 DEF SoundPlan, SoundGen, SoundPreparation, SoundHistory

LEMMA SoundStageHere ==
  ASSUME PlanInv, SoundPlan, StageHere
  PROVE  SoundPlan'
<1>1. /\ UNCHANGED <<preparation, outside, added, replaced, refused, done>> /\ GenTouched
      /\ touched' = TRUE /\ disturbed' = TRUE /\ plan' = NoPlan /\ prepared' = 0
      /\ known' = {f \in Files : index'[f] # head[f]}
  BY DEF StageHere, Refreshed
<1>2. SoundGen' BY <1>1, GenTouchedIsSound DEF PlanInv, Typed, SoundPlan
<1>3. SoundWindow' BY <1>1, DroppedIsSound
<1> QED BY <1>1, <1>2, <1>3 DEF SoundPlan, SoundPreparation, SoundHistory

LEMMA SoundAround ==
  ASSUME PlanInv, SoundPlan, Dismiss \/ Refresh \/ Outside
  PROVE  SoundPlan'
<1>1. CASE Dismiss
  <2>1. SoundWindow' BY <1>1, DroppedIsSound DEF Dismiss, Dropped, SoundPlan, SoundWindow
  <2> QED BY <1>1, <2>1 DEF Dismiss, SoundPlan, SoundGen, SoundPreparation, SoundHistory, history
<1>2. CASE Refresh
  <2>1. SoundWindow' BY <1>2 DEF Refresh, SoundPlan, SoundWindow, Staged
  <2> QED BY <1>2, <2>1 DEF Refresh, SoundPlan, SoundGen, SoundPreparation, SoundHistory, history
<1>3. CASE Outside
  <2>1. /\ UNCHANGED <<window, preparation, added, replaced, refused>> /\ GenTouched
        /\ outside < MaxOutside /\ outside' = outside + 1 /\ touched' = TRUE /\ disturbed' = TRUE
    BY <1>3 DEF Outside
  <2>2. SoundGen' BY <2>1, GenTouchedIsSound DEF PlanInv, Typed, SoundPlan
  <2>3. outside' \in 0..MaxOutside BY <2>1, PlanAssumption DEF SoundPlan, SoundHistory
  <2>4. SoundWindow' BY <2>1 DEF SoundPlan, SoundWindow, window
  <2> QED BY <2>1, <2>2, <2>3, <2>4 DEF SoundPlan, SoundPreparation, SoundHistory
<1> QED BY <1>1, <1>2, <1>3

LEMMA PlanStaysSound == PlanInv /\ SoundPlan /\ [PlanNext]_planVars => SoundPlan'
<1> SUFFICES ASSUME PlanInv, SoundPlan, [PlanNext]_planVars PROVE SoundPlan'
  OBVIOUS
<1>1. CASE UNCHANGED planVars
  BY <1>1 DEF planVars, window, history, SoundPlan, SoundGen, SoundWindow, SoundPreparation, SoundHistory
<1> QED BY <1>1, SoundGenerating, SoundShow, SoundPreparing, SoundCommit, SoundStageHere, SoundAround DEF PlanNext

LEMMA PlanStartsSound == PlanInit => SoundPlan
<1> SUFFICES ASSUME PlanInit PROVE SoundPlan
  OBVIOUS
<1>1. /\ gen = NoGen /\ plan = NoPlan /\ prepared = 0 /\ done = {} /\ preparation = NoTask
      /\ outside = 0 /\ known = Staged
      /\ touched = FALSE /\ disturbed = FALSE /\ added = FALSE /\ replaced = FALSE /\ refused = FALSE
  BY DEF PlanInit
<1>2. gen.left = {} /\ gen.paths = {} /\ gen.plan = NoPlan BY <1>1 DEF NoGen
<1>3. preparation.group = 0 /\ preparation.staged = {} BY <1>1 DEF NoTask
<1>4. 0 \in 0..MaxOutside BY PlanAssumption
<1> QED BY <1>1, <1>2, <1>3, <1>4, NoPlanIsGrouped, FilesCounted
          DEF SoundPlan, SoundGen, SoundWindow, SoundPreparation, SoundHistory, Staged

LEMMA PlansAreTyped == PlanInv /\ SoundPlan => PlanTypeOK
<1> SUFFICES ASSUME PlanInv, SoundPlan PROVE PlanTypeOK
  OBVIOUS
<1>1. ASSUME NEW p, IsPlan(p), Grouping(p.groups)
      PROVE  p \in Plan
  <2>1. p.groups \in {<<>>} \cup UNION {Partitions(s) : s \in SUBSET Files} BY <1>1 DEF Grouping
  <2>2. p = [groups |-> p.groups, fps |-> p.fps, shown |-> p.shown]
        /\ p.fps \in Content /\ p.shown \in [Files -> Version \cup {Nothing}]
    BY <1>1 DEF IsPlan
  <2> QED BY <2>1, <2>2 DEF Plan
<1>2. gen.plan \in Plan /\ plan \in Plan
  BY <1>1 DEF PlanInv, Typed, IsGen, SoundPlan, SoundGen, SoundWindow
<1>3. head \in Content /\ index \in Content /\ work \in Content /\ IsGen /\ IsPreparation
  BY DEF PlanInv, Typed
<1>4. /\ prepared \in 0..Cardinality(Files) /\ done \subseteq 1..Cardinality(Files)
      /\ plan # NoPlan => Cardinality(done) < Len(plan.groups)
      /\ known \subseteq Files /\ outside \in 0..MaxOutside /\ preparation.staged \subseteq Files
      /\ gen.left \subseteq gen.paths
      /\ touched \in BOOLEAN /\ disturbed \in BOOLEAN /\ added \in BOOLEAN
      /\ replaced \in BOOLEAN /\ refused \in BOOLEAN
  BY DEF SoundPlan, SoundGen, SoundWindow, SoundPreparation, SoundHistory, Count
<1> QED BY <1>2, <1>3, <1>4 DEF PlanTypeOK, IsGen, IsPreparation

------------------------------
(* The composed run. *)

\* What holds of the component that moves.
Focused ==
  /\ focus = "history" => HistoryInv
  /\ focus = "transfers" => TransfersInv /\ SoundTransfers
  /\ focus = "plan" => PlanInv /\ SoundPlan
  /\ focus = "stash" => StashInv
  /\ focus = "removal" => RemovalInv
  /\ focus = "registry" => RegistryInv

LEMMA FocusedStarts == Init => Focused
BY HistoryStarts, TransfersStart, SoundStart, PlanInitInv, PlanStartsSound, StashInitInv,
   RemovalInitInv, RegistryInitInv DEF Init, Focused

LEMMA PlanKeeps == PlanInv /\ [PlanNext]_planVars => PlanInv'
BY PlanStutter, BeginGenerateStep, AbandonedStep, ReadStatusStep, ReadPatchStep, RecheckStep, HashFileStep, ShowStep,
   PrepareStep, CheckStatusStep, CheckFingerprintStep, UnstageStep, AddStep, PrepareEndsStep, CommitStep,
   StageHereStep, DismissStep, RefreshStep, OutsideStep DEF PlanNext, CancelGenerate

LEMMA FocusedStays == Focused /\ [Next]_allVars => Focused'
<1> SUFFICES ASSUME Focused, [Next]_allVars PROVE Focused'
  OBVIOUS
<1>1. /\ focus' = focus
      /\ focus = "history" => [HistoryNext]_historyVars
      /\ focus = "transfers" => [TransfersNext]_transferVars
      /\ focus = "plan" => [PlanNext]_planVars
      /\ focus = "stash" => [StashNext]_stashVars
      /\ focus = "removal" => [RemovalNext]_removalVars
      /\ focus = "registry" => [RegistryNext]_registryVars
  BY DEF Next, allVars
<1>2. /\ focus = "history" => HistoryInv'
      /\ focus = "transfers" => TransfersInv' /\ SoundTransfers'
      /\ focus = "plan" => PlanInv' /\ SoundPlan'
  BY <1>1, HistoryStep, TransfersStep, SoundStep, PlanKeeps, PlanStaysSound DEF Focused
<1>3. /\ focus = "stash" => StashInv'
      /\ focus = "removal" => RemovalInv'
      /\ focus = "registry" => RegistryInv'
  BY <1>1, StashStep, RemovalStep, RegistryStep DEF Focused
<1> QED BY <1>1, <1>2, <1>3 DEF Focused

LEMMA FocusedIsTyped == Focused => TypeOK
BY HistoryInvIsSound, TransfersAreTyped, PlansAreTyped
   DEF Focused, TypeOK, StashInv, RemovalInv, RegistryInv

\* Every variable of the component that moves has its type: the history of a file, what is moved
\* and copied and what is lying where, the plan of commits, the automatic stash, the removal of a
\* worktree, and the registry.
THEOREM WorkingCopyTypeCorrect == Spec => []TypeOK
BY FocusedStarts, FocusedStays, FocusedIsTyped, PTL DEF Spec
==============================
