------------------------- MODULE ControlLoopsProofs --------------------------
(****************************************************************************)
(* Proofs about the control loops, for any tasks, workers, calls, signals and *)
(* limits: the ordering of tasks (TaskOrder), the circuit breakers           *)
(* (CircuitBreaker), the trusted kernel (TrustKernel) and the signal pipeline *)
(* (SignalPipeline); then of the four side by side.                          *)
(*                                                                           *)
(* The ordering needs what a sweep has taken out and found so far (SortInv); *)
(* what it takes out in the end is what every closed set of tasks contains.  *)
(* The breakers need that the copy a worker loaded is tripped exactly at its *)
(* threshold, however old it is.  The kernel's pool is a sum over the calls  *)
(* that hold a reservation, and its account covers a sum over the calls      *)
(* between their reservation and their charge (Holding); its evidence is     *)
(* followed call by call (ReplayInv).  The pipeline counts what its bucket   *)
(* has let through (Claimed), and a flush that raced nobody knows the front  *)
(* of the queue (FrontIsSunk).  That every step goes down a variant is the   *)
(* half of OrderingEnds and of the callers' liveness that has no fairness.   *)
(****************************************************************************)
EXTENDS MCControlLoops, FiniteSetTheorems, SequenceTheorems, NaturalsInduction,
        WellFoundedInduction, TLAPS

-----------------------------------------------------------------------------
(* Induction *)

\* Induction over the naturals for a set: the least number outside it would be the
\* successor of one inside.
LEMMA SetInduction ==
    ASSUME NEW S, 0 \in S, \A n \in Nat : n \in S => n + 1 \in S
    PROVE  \A n \in Nat : n \in S
<1> DEFINE T == {n \in Nat : n \notin S}
<1>1. SUFFICES ASSUME T # {} PROVE FALSE
  OBVIOUS
<1>2. PICK m \in T : \A n \in T : ~(<<n, m>> \in OpToRel(<, Nat))
  BY <1>1, WFMin, NatLessThanWellFounded
<1>3. m \in Nat /\ m # 0 /\ m - 1 \in Nat /\ m - 1 < m
  OBVIOUS
<1>4. m - 1 \in S
  BY <1>2, <1>3 DEF OpToRel
<1>5. (m - 1) + 1 \in S
  BY <1>3, <1>4
<1> QED
  BY <1>3, <1>5

-----------------------------------------------------------------------------
(* The ordering of tasks *)

\* What has been taken out and what remains are together the tasks, each once.
OrderHolds ==
    /\ ordered \in Seq(TaskSet) /\ remaining \in Seq(TaskSet)
    /\ \A t \in TaskSet : \/ \E i \in 1 .. Len(ordered) : ordered[i] = t
                          \/ \E i \in 1 .. Len(remaining) : remaining[i] = t
    /\ Len(ordered) + Len(remaining) = Tasks
    /\ cursor \in 1 .. Len(remaining) + 1
    /\ satisfied \subseteq TaskSet

\* The inductive invariant of the ordering.
OrderInv == OrderHolds /\ progressed \in BOOLEAN

\* The tasks as they are given, and the order that holds them.
LEMMA Given ==
    /\ [i \in TaskSet |-> i] \in Seq(TaskSet) /\ Len([i \in TaskSet |-> i]) = Tasks
    /\ \A i \in TaskSet : [j \in TaskSet |-> j][i] = i
<1> USE TasksAssumption DEF TaskSet
<1>1. [i \in 1 .. Tasks |-> i] \in Seq(1 .. Tasks) /\ Len([i \in 1 .. Tasks |-> i]) = Tasks
  OBVIOUS
<1> QED
  BY <1>1

\* The tasks as they are given satisfy the invariant.
LEMMA OrderInitInv == OrderInit => OrderInv
<1> SUFFICES ASSUME OrderInit PROVE OrderInv
  OBVIOUS
<1> USE TasksAssumption
<1>1. /\ ordered = <<>> /\ satisfied = {} /\ cursor = 1 /\ progressed = FALSE
  BY DEF OrderInit
<1>2. remaining \in Seq(TaskSet) /\ Len(remaining) = Tasks /\ \A i \in TaskSet : remaining[i] = i
  BY Given DEF OrderInit
<1>3. ordered \in Seq(TaskSet) /\ Len(ordered) = 0
  BY <1>1
<1>4. ASSUME NEW t \in TaskSet PROVE \E i \in 1 .. Len(remaining) : remaining[i] = t
  BY <1>2, <1>4 DEF TaskSet
<1>5. OrderHolds
  BY <1>1, <1>2, <1>3, <1>4 DEF OrderHolds
<1> QED
  BY <1>1, <1>5 DEF OrderInv

\* Where the elements go when one is removed.
LEMMA Removed ==
    ASSUME NEW s \in Seq(TaskSet), NEW c \in 1 .. Len(s)
    PROVE  LET r == RemoveAt(s, c) IN
           /\ r \in Seq(TaskSet) /\ Len(r) = Len(s) - 1
           /\ \A i \in 1 .. Len(s) : i # c => \E j \in 1 .. Len(r) : r[j] = s[i]
           /\ \A j \in 1 .. Len(r) : r[j] = IF j < c THEN s[j] ELSE s[j + 1]
<1> DEFINE r == RemoveAt(s, c)
<1>1. Len(s) \in Nat /\ Len(s) # 0
  OBVIOUS
<1> DEFINE a == SubSeq(s, 1, c - 1)
           z == SubSeq(s, c + 1, Len(s))
<1>2. \A i \in 1 .. Len(s) : s[i] \in TaskSet
  BY ElementOfSeq
<1>3. /\ a \in Seq(TaskSet) /\ Len(a) = c - 1
      /\ \A i \in 1 .. c - 1 : a[i] = s[i]
  <2>1. \A i \in 1 .. c - 1 : s[i] \in TaskSet
    BY <1>1, <1>2
  <2>2. a \in Seq(TaskSet)
    BY <1>1, <2>1, SubSeqProperties
  <2> QED
    BY <1>1, <2>2
<1>4. /\ z \in Seq(TaskSet) /\ Len(z) = Len(s) - c
      /\ \A i \in 1 .. Len(s) - c : z[i] = s[c + i]
  <2>1. \A i \in c + 1 .. Len(s) : s[i] \in TaskSet
    BY <1>1, <1>2
  <2>2. z \in Seq(TaskSet)
    BY <1>1, <2>1, SubSeqProperties
  <2>3. Len(z) = Len(s) - c
    BY <1>1
  <2>4. ASSUME NEW i \in 1 .. Len(s) - c PROVE z[i] = s[c + i]
    BY <1>1
  <2> QED
    BY <2>2, <2>3, <2>4
<1>5. r = a \o z
  BY DEF RemoveAt
<1> HIDE DEF r, a, z
<1>6. /\ r \in Seq(TaskSet) /\ Len(r) = Len(a) + Len(z)
      /\ \A i \in 1 .. Len(a) + Len(z) : r[i] = IF i <= Len(a) THEN a[i] ELSE z[i - Len(a)]
  BY <1>3, <1>4, <1>5, ConcatProperties
<1>7. Len(r) = Len(s) - 1
  BY <1>1, <1>3, <1>4, <1>6
<1>8. ASSUME NEW i \in 1 .. Len(s), i # c PROVE \E j \in 1 .. Len(r) : r[j] = s[i]
  <2>1. CASE i < c
    <3>1. i \in 1 .. Len(r) /\ i \in 1 .. c - 1 /\ i <= Len(a) /\ i \in 1 .. Len(a) + Len(z)
      BY <1>1, <1>3, <1>6, <1>7, <2>1
    <3>2. r[i] = s[i]
      BY <1>3, <1>6, <3>1
    <3> QED
      BY <3>1, <3>2
  <2>2. CASE i > c
    <3>1. /\ i - 1 \in 1 .. Len(r) /\ ~(i - 1 <= Len(a)) /\ i - 1 \in 1 .. Len(a) + Len(z)
          /\ i - 1 - Len(a) = i - c /\ i - c \in 1 .. Len(s) - c /\ c + (i - c) = i
      BY <1>1, <1>3, <1>6, <1>7, <2>2
    <3>2. r[i - 1] = z[i - c]
      BY <1>6, <3>1
    <3>3. z[i - c] = s[i]
      BY <1>4, <3>1
    <3> QED
      BY <3>1, <3>2, <3>3
  <2> QED
    BY <1>8, <2>1, <2>2
<1>9. ASSUME NEW j \in 1 .. Len(r) PROVE r[j] = IF j < c THEN s[j] ELSE s[j + 1]
  <2>1. CASE j < c
    <3>1. j \in 1 .. c - 1 /\ j <= Len(a) /\ j \in 1 .. Len(a) + Len(z)
      BY <1>1, <1>3, <1>4, <1>7, <2>1
    <3> QED
      BY <1>3, <1>6, <2>1, <3>1
  <2>2. CASE ~(j < c)
    <3>1. /\ ~(j <= Len(a)) /\ j \in 1 .. Len(a) + Len(z) /\ j - Len(a) = j - c + 1
          /\ j - c + 1 \in 1 .. Len(s) - c /\ c + (j - c + 1) = j + 1
      <4>1. /\ j \in Int /\ c \in Int /\ Len(s) \in Int /\ c <= j /\ j <= Len(s) - 1
            /\ 1 <= c /\ Len(a) = c - 1 /\ Len(z) = Len(s) - c
        BY <1>1, <1>3, <1>4, <1>7, <2>2
      <4> QED
        BY <4>1
    <3> QED
      BY <1>4, <1>6, <2>2, <3>1
  <2> QED
    BY <2>1, <2>2
<1> QED
  BY <1>6, <1>7, <1>8, <1>9 DEF r

\* A task that is taken out is appended.
LEMMA OrderTake == ASSUME OrderInv, Take PROVE OrderInv'
<1> USE TasksAssumption
<1>1. /\ cursor <= Len(remaining) /\ remaining' = RemoveAt(remaining, cursor)
      /\ satisfied' = satisfied \cup {remaining[cursor]}
      /\ ordered' = Append(ordered, remaining[cursor]) /\ progressed' = TRUE
      /\ cursor' = cursor
  BY DEF Take
<1>2. /\ ordered \in Seq(TaskSet) /\ remaining \in Seq(TaskSet)
      /\ Len(ordered) \in Nat /\ Len(remaining) \in Nat
      /\ Len(ordered) + Len(remaining) = Tasks
      /\ cursor \in 1 .. Len(remaining)
  BY <1>1 DEF OrderInv, OrderHolds
<1>3. remaining[cursor] \in TaskSet
  BY <1>2, ElementOfSeq
<1>4. /\ remaining' \in Seq(TaskSet) /\ Len(remaining') = Len(remaining) - 1
      /\ \A i \in 1 .. Len(remaining) :
            i # cursor => \E j \in 1 .. Len(remaining') : remaining'[j] = remaining[i]
  <2>1. PICK r : r = RemoveAt(remaining, cursor)
    OBVIOUS
  <2>2. /\ r \in Seq(TaskSet) /\ Len(r) = Len(remaining) - 1
        /\ \A i \in 1 .. Len(remaining) :
              i # cursor => \E j \in 1 .. Len(r) : r[j] = remaining[i]
    BY <1>2, <2>1, Removed
  <2> QED
    BY <1>1, <2>1, <2>2
<1>5. /\ ordered' \in Seq(TaskSet) /\ Len(ordered') = Len(ordered) + 1
      /\ \A i \in 1 .. Len(ordered) : ordered'[i] = ordered[i]
      /\ ordered'[Len(ordered) + 1] = remaining[cursor]
  BY <1>1, <1>2, <1>3, AppendProperties
<1>6. ASSUME NEW t \in TaskSet
      PROVE  \/ \E i \in 1 .. Len(ordered') : ordered'[i] = t
             \/ \E i \in 1 .. Len(remaining') : remaining'[i] = t
  <2>1. CASE \E i \in 1 .. Len(ordered) : ordered[i] = t
    <3>1. PICK i \in 1 .. Len(ordered) : ordered[i] = t
      BY <2>1
    <3>2. i \in 1 .. Len(ordered') /\ ordered'[i] = t
      BY <1>2, <1>5, <3>1
    <3> QED
      BY <3>2
  <2>2. CASE \E i \in 1 .. Len(remaining) : remaining[i] = t
    <3>1. PICK i \in 1 .. Len(remaining) : remaining[i] = t
      BY <2>2
    <3>2. CASE i = cursor
      <4>1. Len(ordered) + 1 \in 1 .. Len(ordered')
        BY <1>2, <1>5
      <4> QED
        BY <1>5, <3>1, <3>2, <4>1
    <3>3. CASE i # cursor
      BY <1>4, <3>1, <3>3
    <3> QED
      BY <3>2, <3>3
  <2> QED
    BY <2>1, <2>2 DEF OrderInv, OrderHolds
<1>7. Len(ordered') + Len(remaining') = Tasks /\ cursor' \in 1 .. Len(remaining') + 1
  <2>1. /\ Len(ordered) \in Nat /\ Len(remaining) \in Nat /\ cursor' \in 1 .. Len(remaining)
        /\ Len(ordered) + Len(remaining) = Tasks
        /\ Len(remaining') = Len(remaining) - 1 /\ Len(ordered') = Len(ordered) + 1
    BY <1>1, <1>2, <1>4, <1>5
  <2> QED
    BY <2>1
<1>8. satisfied' \subseteq TaskSet
  BY <1>1, <1>3 DEF OrderInv, OrderHolds
<1>9. OrderHolds'
  BY <1>4, <1>5, <1>6, <1>7, <1>8 DEF OrderHolds
<1> QED
  BY <1>1, <1>9 DEF OrderInv

\* A sweep that took out nothing appends the rest.
LEMMA OrderEndSweep == ASSUME OrderInv, EndSweep PROVE OrderInv'
<1> USE TasksAssumption
<1>1. /\ ordered \in Seq(TaskSet) /\ remaining \in Seq(TaskSet)
      /\ Len(ordered) \in Nat /\ Len(remaining) \in Nat
      /\ Len(ordered) + Len(remaining) = Tasks
  BY DEF OrderInv, OrderHolds
<1>2. cursor' = 1 /\ progressed' = FALSE /\ satisfied' = satisfied
  BY DEF EndSweep
<1>3. CASE progressed
  <2>1. ordered' = ordered /\ remaining' = remaining
    BY <1>3 DEF EndSweep
  <2>2. 1 \in 1 .. Len(remaining) + 1
    BY <1>1
  <2>3. OrderHolds'
    BY <1>2, <2>1, <2>2 DEF OrderInv, OrderHolds
  <2> QED
    BY <1>2, <2>3 DEF OrderInv
<1>4. CASE ~progressed
  <2>1. ordered' = ordered \o remaining /\ remaining' = <<>>
    BY <1>4 DEF EndSweep
  <2>2. /\ ordered' \in Seq(TaskSet) /\ Len(ordered') = Tasks
        /\ \A i \in 1 .. Len(ordered') :
              ordered'[i] = IF i <= Len(ordered) THEN ordered[i] ELSE remaining[i - Len(ordered)]
    BY <1>1, <2>1, ConcatProperties
  <2>3. remaining' \in Seq(TaskSet) /\ Len(remaining') = 0
    BY <2>1
  <2>4. ASSUME NEW t \in TaskSet PROVE \E i \in 1 .. Len(ordered') : ordered'[i] = t
    <3>1. CASE \E i \in 1 .. Len(ordered) : ordered[i] = t
      <4>1. PICK i \in 1 .. Len(ordered) : ordered[i] = t
        BY <3>1
      <4>2. i \in 1 .. Len(ordered') /\ i <= Len(ordered)
        BY <1>1, <2>2, <4>1
      <4> QED
        BY <2>2, <4>1, <4>2
    <3>2. CASE \E i \in 1 .. Len(remaining) : remaining[i] = t
      <4>1. PICK i \in 1 .. Len(remaining) : remaining[i] = t
        BY <3>2
      <4>2. /\ Len(ordered) + i \in 1 .. Len(ordered') /\ ~(Len(ordered) + i <= Len(ordered))
            /\ Len(ordered) + i - Len(ordered) = i
        BY <1>1, <2>2, <4>1
      <4> QED
        BY <2>2, <4>1, <4>2
    <3> QED
      BY <3>1, <3>2 DEF OrderInv, OrderHolds
  <2>5. OrderHolds'
    <3>1. /\ Len(ordered') + Len(remaining') = Tasks /\ cursor' \in 1 .. Len(remaining') + 1
          /\ satisfied' \subseteq TaskSet
      BY <1>2, <2>2, <2>3 DEF OrderInv, OrderHolds
    <3> QED
      BY <2>2, <2>3, <2>4, <3>1 DEF OrderHolds
  <2> QED
    BY <1>2, <2>5 DEF OrderInv
<1> QED
  BY <1>3, <1>4

\* Every step of the ordering preserves the invariant.
LEMMA OrderStepInv == ASSUME OrderInv, [OrderNext]_orderVars PROVE OrderInv'
<1>1. CASE SkipTask
  <2>1. /\ cursor <= Len(remaining) /\ cursor' = cursor + 1
        /\ UNCHANGED <<remaining, ordered, satisfied, progressed>>
    BY <1>1 DEF SkipTask
  <2>2. cursor' \in 1 .. Len(remaining) + 1
    BY <2>1 DEF OrderInv, OrderHolds
  <2> QED
    BY <2>1, <2>2 DEF OrderInv, OrderHolds
<1>2. CASE UNCHANGED orderVars
  BY <1>2 DEF OrderInv, OrderHolds, orderVars
<1> QED
  BY <1>1, <1>2, OrderTake, OrderEndSweep DEF OrderNext

\* The invariant says that no task is lost or doubled.
LEMMA OrderInvTypes == OrderInv => OrderTypeOK
<1> SUFFICES ASSUME OrderInv PROVE OrderTypeOK
  OBVIOUS
<1>1. OrderHolds
  BY DEF OrderInv
<1>2. ordered \in Seq(TaskSet) /\ remaining \in Seq(TaskSet)
  BY <1>1 DEF OrderHolds
<1>3. /\ DOMAIN ordered = 1 .. Len(ordered) /\ DOMAIN remaining = 1 .. Len(remaining)
      /\ \A i \in 1 .. Len(ordered) : ordered[i] \in TaskSet
      /\ \A i \in 1 .. Len(remaining) : remaining[i] \in TaskSet
  BY <1>2, ElementOfSeq
<1>4. \A t \in TaskSet : \/ \E i \in 1 .. Len(ordered) : ordered[i] = t
                         \/ \E i \in 1 .. Len(remaining) : remaining[i] = t
  BY <1>1 DEF OrderHolds
<1>5. ToSet(ordered) \subseteq TaskSet /\ ToSet(remaining) \subseteq TaskSet
  BY <1>3 DEF ToSet
<1>6. TaskSet \subseteq ToSet(ordered) \cup ToSet(remaining)
  BY <1>3, <1>4 DEF ToSet
<1>7. /\ Len(ordered) + Len(remaining) = Tasks
      /\ cursor \in 1 .. Len(remaining) + 1 /\ satisfied \subseteq TaskSet
  BY <1>1 DEF OrderHolds
<1>8. progressed \in BOOLEAN
  BY DEF OrderInv
<1> QED
  BY <1>5, <1>6, <1>7, <1>8 DEF OrderTypeOK

\* Whatever the dependencies, cycles and missing tasks included, what has been ordered
\* and what remains are together the tasks, each once (OrderTypeOK).
THEOREM OrderTypes == OrderSpec => []OrderTypeOK
<1>1. OrderSpec => OrderInit /\ [][OrderNext]_orderVars
  BY DEF OrderSpec
<1> QED
  BY <1>1, OrderInitInv, OrderStepInv, OrderInvTypes, PTL

\* The inductive invariant behind what the ordering returns: what has been taken out
\* has all it depends on before it, and exactly that is satisfied; what remains is in
\* the order given; a sweep that has taken out nothing yet has found nothing ready.
SortInv ==
    /\ OrderInv /\ sorting \in BOOLEAN
    /\ dependsOn \in [TaskSet -> SUBSET (0 .. Tasks)]
    /\ sorting =>
        /\ \A i, j \in 1 .. Len(remaining) : i < j => remaining[i] < remaining[j]
        /\ \A t \in TaskSet : t \in satisfied <=> \E i \in 1 .. Len(ordered) : ordered[i] = t
        /\ \A j \in 1 .. Len(remaining) : remaining[j] \notin satisfied
        /\ \A i, j \in 1 .. Len(ordered) : ordered[i] = ordered[j] => i = j
        /\ \A i \in 1 .. Len(ordered) : \A d \in dependsOn[ordered[i]] :
              \E j \in 1 .. Len(ordered) : j < i /\ ordered[j] = d
        /\ ~progressed => \A k \in 1 .. Len(remaining) : k < cursor => ~Ready(remaining[k])
    /\ ReturnsInOrder

\* The tasks as they are given satisfy it.
LEMMA SortInitInv == OrderInit => SortInv
<1> SUFFICES ASSUME OrderInit PROVE SortInv
  OBVIOUS
<1> USE TasksAssumption
<1>1. /\ ordered = <<>> /\ satisfied = {} /\ cursor = 1 /\ progressed = FALSE /\ sorting = TRUE
      /\ dependsOn \in [TaskSet -> SUBSET (0 .. Tasks)]
  BY DEF OrderInit
<1>2. remaining \in Seq(TaskSet) /\ Len(remaining) = Tasks /\ \A i \in TaskSet : remaining[i] = i
  BY Given DEF OrderInit
<1>3. Len(ordered) = 0
  BY <1>1
<1>4. \A i, j \in 1 .. Len(remaining) : i < j => remaining[i] < remaining[j]
  BY <1>2 DEF TaskSet
<1>5. \A i \in 1 .. Len(ordered) : FALSE
  BY <1>3
<1>6. \A k \in 1 .. Len(remaining) : ~(k < cursor)
  BY <1>1, <1>2
<1>7. OrderInv
  BY OrderInitInv
<1>8. ReturnsInOrder
  BY <1>1 DEF ReturnsInOrder
<1> QED
  BY <1>1, <1>4, <1>5, <1>6, <1>7, <1>8 DEF SortInv

\* A task that is taken out has all it depends on before it.
LEMMA SortTake == ASSUME SortInv, Take PROVE SortInv'
<1> USE TasksAssumption
<1>1. /\ sorting /\ cursor <= Len(remaining) /\ Ready(remaining[cursor])
      /\ remaining' = RemoveAt(remaining, cursor)
      /\ satisfied' = satisfied \cup {remaining[cursor]}
      /\ ordered' = Append(ordered, remaining[cursor]) /\ progressed' = TRUE
      /\ dependsOn' = dependsOn /\ sorting' = sorting
  BY DEF Take
<1>2. /\ OrderInv /\ sorting \in BOOLEAN /\ dependsOn \in [TaskSet -> SUBSET (0 .. Tasks)]
      /\ \A i, j \in 1 .. Len(remaining) : i < j => remaining[i] < remaining[j]
      /\ \A t \in TaskSet : t \in satisfied <=> \E i \in 1 .. Len(ordered) : ordered[i] = t
      /\ \A j \in 1 .. Len(remaining) : remaining[j] \notin satisfied
      /\ \A i, j \in 1 .. Len(ordered) : ordered[i] = ordered[j] => i = j
      /\ \A i \in 1 .. Len(ordered) : \A d \in dependsOn[ordered[i]] :
            \E j \in 1 .. Len(ordered) : j < i /\ ordered[j] = d
  BY <1>1 DEF SortInv
<1>3. /\ ordered \in Seq(TaskSet) /\ remaining \in Seq(TaskSet)
      /\ Len(ordered) \in Nat /\ Len(remaining) \in Nat
      /\ Len(ordered) + Len(remaining) = Tasks
      /\ cursor \in 1 .. Len(remaining)
  BY <1>1, <1>2 DEF OrderInv, OrderHolds
<1> DEFINE task == remaining[cursor]
<1>4. /\ task \in TaskSet
      /\ \A i \in 1 .. Len(ordered) : ordered[i] \in TaskSet
      /\ \A i \in 1 .. Len(remaining) : remaining[i] \in TaskSet
  BY <1>3, ElementOfSeq
<1>5. /\ Len(remaining') = Len(remaining) - 1
      /\ \A j \in 1 .. Len(remaining') :
            remaining'[j] = IF j < cursor THEN remaining[j] ELSE remaining[j + 1]
  <2>1. PICK r : r = RemoveAt(remaining, cursor)
    OBVIOUS
  <2>2. /\ Len(r) = Len(remaining) - 1
        /\ \A j \in 1 .. Len(r) : r[j] = IF j < cursor THEN remaining[j] ELSE remaining[j + 1]
    BY <1>3, <2>1, Removed
  <2> QED
    BY <1>1, <2>1, <2>2
<1>6. /\ Len(ordered') = Len(ordered) + 1
      /\ \A i \in 1 .. Len(ordered) : ordered'[i] = ordered[i]
      /\ ordered'[Len(ordered) + 1] = task
  BY <1>1, <1>3, <1>4, AppendProperties
<1>7. OrderInv'
  BY <1>2, OrderTake
<1> HIDE DEF task
<1>8. satisfied' = satisfied \cup {task} /\ task \notin satisfied /\ dependsOn[task] \subseteq satisfied
  BY <1>1, <1>2, <1>3 DEF Ready, task
<1>9. \A i \in 1 .. Len(ordered') : i \in 1 .. Len(ordered) \/ i = Len(ordered) + 1
  BY <1>3, <1>6
<1>10. \A i \in 1 .. Len(ordered) : i \in 1 .. Len(ordered') /\ i < Len(ordered) + 1
  BY <1>3, <1>6
<1>11. Len(ordered) + 1 \in 1 .. Len(ordered')
  BY <1>3, <1>6
<1>12. \A i, j \in 1 .. Len(remaining') : i < j => remaining'[i] < remaining'[j]
  <2>1. TAKE i, j \in 1 .. Len(remaining')
  <2>2. HAVE i < j
  <2>3. /\ i \in 1 .. Len(remaining) /\ j \in 1 .. Len(remaining)
        /\ i + 1 \in 1 .. Len(remaining) /\ j + 1 \in 1 .. Len(remaining)
        /\ i < j + 1 /\ i + 1 < j + 1 /\ (j < cursor => i < cursor)
    BY <1>3, <1>5, <2>2
  <2>4. /\ remaining[i] < remaining[j] /\ remaining[i] < remaining[j + 1]
        /\ remaining[i + 1] < remaining[j + 1]
    BY <1>2, <2>2, <2>3
  <2>5. /\ remaining'[i] = IF i < cursor THEN remaining[i] ELSE remaining[i + 1]
        /\ remaining'[j] = IF j < cursor THEN remaining[j] ELSE remaining[j + 1]
    BY <1>5
  <2> QED
    BY <2>3, <2>4, <2>5
<1>13. \A t \in TaskSet : t \in satisfied' <=> \E i \in 1 .. Len(ordered') : ordered'[i] = t
  <2>1. ASSUME NEW t \in satisfied' PROVE \E i \in 1 .. Len(ordered') : ordered'[i] = t
    <3>1. CASE t = task
      BY <1>6, <1>11, <3>1
    <3>2. CASE t \in satisfied
      <4>1. t \in TaskSet
        BY <1>2, <3>2 DEF OrderInv, OrderHolds
      <4>2. PICK i \in 1 .. Len(ordered) : ordered[i] = t
        BY <1>2, <3>2, <4>1
      <4> QED
        BY <1>6, <1>10, <4>2
    <3> QED
      BY <1>8, <2>1, <3>1, <3>2
  <2>2. ASSUME NEW t \in TaskSet, NEW i \in 1 .. Len(ordered'), ordered'[i] = t
        PROVE  t \in satisfied'
    <3>1. CASE i \in 1 .. Len(ordered)
      BY <1>2, <1>6, <1>8, <2>2, <3>1
    <3>2. CASE i = Len(ordered) + 1
      BY <1>6, <1>8, <2>2, <3>2
    <3> QED
      BY <1>9, <3>1, <3>2
  <2> QED
    BY <2>1, <2>2
<1>14. \A j \in 1 .. Len(remaining') : remaining'[j] \notin satisfied'
  <2>1. TAKE j \in 1 .. Len(remaining')
  <2>2. /\ j \in 1 .. Len(remaining) /\ j + 1 \in 1 .. Len(remaining)
        /\ j \in Nat /\ cursor \in Nat /\ j < j + 1 /\ (~(j < cursor) => cursor < j + 1)
    BY <1>3, <1>5
  <2>3. /\ remaining[j] \notin satisfied /\ remaining[j + 1] \notin satisfied
        /\ remaining[j] \in Nat /\ remaining[j + 1] \in Nat /\ task \in Nat
    BY <1>2, <1>4, <2>2 DEF TaskSet
  <2>4. CASE j < cursor
    <3>1. remaining'[j] = remaining[j] /\ remaining[j] < task
      BY <1>2, <1>3, <1>5, <2>2, <2>4 DEF task
    <3> QED
      BY <1>8, <2>3, <3>1
  <2>5. CASE ~(j < cursor)
    <3>1. remaining'[j] = remaining[j + 1] /\ task < remaining[j + 1]
      BY <1>2, <1>3, <1>5, <2>2, <2>5 DEF task
    <3> QED
      BY <1>8, <2>3, <3>1
  <2> QED
    BY <2>4, <2>5
<1>15. \A i \in 1 .. Len(ordered) : ordered[i] \in satisfied
  BY <1>2, <1>4
<1>16. \A i, j \in 1 .. Len(ordered') : ordered'[i] = ordered'[j] => i = j
  BY <1>2, <1>6, <1>8, <1>9, <1>15
<1>17. \A i \in 1 .. Len(ordered') : \A d \in dependsOn'[ordered'[i]] :
          \E j \in 1 .. Len(ordered') : j < i /\ ordered'[j] = d
  <2>1. TAKE i \in 1 .. Len(ordered')
  <2>2. TAKE d \in dependsOn'[ordered'[i]]
  <2>3. CASE i \in 1 .. Len(ordered)
    <3>1. PICK j \in 1 .. Len(ordered) : j < i /\ ordered[j] = d
      BY <1>1, <1>2, <1>6, <2>3
    <3> QED
      BY <1>6, <1>10, <3>1
  <2>4. CASE i = Len(ordered) + 1
    <3>1. d \in satisfied
      BY <1>1, <1>6, <1>8, <2>4
    <3>2. d \in TaskSet
      BY <1>2, <3>1 DEF OrderInv, OrderHolds
    <3>3. PICK j \in 1 .. Len(ordered) : ordered[j] = d
      BY <1>2, <3>1, <3>2
    <3> QED
      BY <1>6, <1>10, <2>4, <3>3
  <2> QED
    BY <1>9, <2>3, <2>4
<1>18. ReturnsInOrder'
  BY <1>1 DEF ReturnsInOrder
<1> QED
  BY <1>1, <1>2, <1>7, <1>12, <1>13, <1>14, <1>16, <1>17, <1>18 DEF SortInv

\* What has been taken out when nothing that remains is ready is Runnable: it is
\* closed, and every closed set holds each of the tasks, in their order.
LEMMA SatisfiedIsRunnable ==
    ASSUME SortInv, sorting, \A k \in 1 .. Len(remaining) : ~Ready(remaining[k])
    PROVE  Runnable = satisfied
<1>1. /\ OrderInv
      /\ \A t \in TaskSet : t \in satisfied <=> \E i \in 1 .. Len(ordered) : ordered[i] = t
      /\ \A i \in 1 .. Len(ordered) : \A d \in dependsOn[ordered[i]] :
            \E j \in 1 .. Len(ordered) : j < i /\ ordered[j] = d
  BY DEF SortInv
<1>2. /\ ordered \in Seq(TaskSet) /\ Len(ordered) \in Nat /\ satisfied \in SUBSET TaskSet
      /\ \A t \in TaskSet : \/ \E i \in 1 .. Len(ordered) : ordered[i] = t
                            \/ \E i \in 1 .. Len(remaining) : remaining[i] = t
  BY <1>1 DEF OrderInv, OrderHolds
<1>3. \A i \in 1 .. Len(ordered) : ordered[i] \in TaskSet
  BY <1>2, ElementOfSeq
<1> DEFINE Closed(S) == \A t \in TaskSet : t \in S <=> dependsOn[t] \subseteq S
           Least(S) == Closed(S) /\ \A R \in SUBSET TaskSet : Closed(R) => S \subseteq R
<1>4. Closed(satisfied)
  <2>1. ASSUME NEW t \in TaskSet, t \in satisfied, NEW d \in dependsOn[t] PROVE d \in satisfied
    <3>1. PICK i \in 1 .. Len(ordered) : ordered[i] = t
      BY <1>1, <2>1
    <3>2. PICK j \in 1 .. Len(ordered) : j < i /\ ordered[j] = d
      BY <1>1, <2>1, <3>1
    <3> QED
      BY <1>1, <1>3, <3>2
  <2>2. ASSUME NEW t \in TaskSet, dependsOn[t] \subseteq satisfied PROVE t \in satisfied
    <3>1. \A i \in 1 .. Len(remaining) : remaining[i] # t
      BY <2>2 DEF Ready
    <3> QED
      BY <1>1, <1>2, <3>1
  <2> QED
    BY <2>1, <2>2
<1>5. ASSUME NEW R \in SUBSET TaskSet, Closed(R) PROVE satisfied \subseteq R
  <2> DEFINE In == {n \in Nat : \A i \in 1 .. Len(ordered) : i <= n => ordered[i] \in R}
  <2>1. 0 \in In
    OBVIOUS
  <2>2. ASSUME NEW n \in Nat, n \in In PROVE n + 1 \in In
    <3>1. ASSUME NEW i \in 1 .. Len(ordered), i <= n + 1 PROVE ordered[i] \in R
      <4>1. ASSUME NEW d \in dependsOn[ordered[i]] PROVE d \in R
        <5>1. PICK j \in 1 .. Len(ordered) : j < i /\ ordered[j] = d
          BY <1>1, <4>1
        <5>2. j <= n
          BY <2>2, <3>1, <5>1
        <5> QED
          BY <2>2, <5>1, <5>2
      <4> QED
        BY <1>3, <1>5, <4>1
    <3> QED
      BY <3>1
  <2>3. \A n \in Nat : n \in In
    <3> HIDE DEF In
    <3> QED
      BY <2>1, <2>2, SetInduction
  <2>4. \A i \in 1 .. Len(ordered) : ordered[i] \in R
    BY <1>2, <2>3
  <2> QED
    BY <1>1, <1>2, <2>4
<1>6. Runnable = CHOOSE S \in SUBSET TaskSet : Least(S)
  BY DEF Runnable
<1>7. Least(satisfied)
  BY <1>4, <1>5
<1>8. ASSUME NEW S \in SUBSET TaskSet, Least(S) PROVE S = satisfied
  BY <1>2, <1>7, <1>8
<1> HIDE DEF Least
<1> QED
  BY <1>2, <1>6, <1>7, <1>8

\* The runnable tasks followed by what remains respect the dependencies.
LEMMA RestFollows ==
    ASSUME SortInv, sorting, \A k \in 1 .. Len(remaining) : ~Ready(remaining[k]),
           ordered' = ordered \o remaining, dependsOn' = dependsOn
    PROVE  RespectsDependencies'
<1>1. /\ OrderInv
      /\ \A i, j \in 1 .. Len(remaining) : i < j => remaining[i] < remaining[j]
      /\ \A t \in TaskSet : t \in satisfied <=> \E i \in 1 .. Len(ordered) : ordered[i] = t
      /\ \A j \in 1 .. Len(remaining) : remaining[j] \notin satisfied
      /\ \A i, j \in 1 .. Len(ordered) : ordered[i] = ordered[j] => i = j
      /\ \A i \in 1 .. Len(ordered) : \A d \in dependsOn[ordered[i]] :
            \E j \in 1 .. Len(ordered) : j < i /\ ordered[j] = d
  BY DEF SortInv
<1>2. /\ ordered \in Seq(TaskSet) /\ remaining \in Seq(TaskSet)
      /\ Len(ordered) \in Nat /\ Len(remaining) \in Nat
  BY <1>1 DEF OrderInv, OrderHolds
<1>3. \A i \in 1 .. Len(ordered) : ordered[i] \in TaskSet /\ ordered[i] \in satisfied
  BY <1>1, <1>2, ElementOfSeq
<1>4. Runnable' = satisfied
  <2>1. Runnable' = Runnable
    BY DEF Runnable
  <2> QED
    BY <2>1, SatisfiedIsRunnable
<1>5. /\ DOMAIN ordered' = 1 .. Len(ordered) + Len(remaining)
      /\ \A i \in 1 .. Len(ordered) + Len(remaining) :
            ordered'[i] = IF i <= Len(ordered) THEN ordered[i] ELSE remaining[i - Len(ordered)]
  BY <1>2, ConcatProperties
<1> DEFINE n == Len(ordered)
<1>6. \A i \in DOMAIN ordered' :
         \/ i \in 1 .. n /\ ordered'[i] = ordered[i] /\ ordered'[i] \in satisfied
         \/ /\ i > n /\ i - n \in 1 .. Len(remaining) /\ ordered'[i] = remaining[i - n]
            /\ ordered'[i] \notin satisfied
  <2>1. TAKE i \in DOMAIN ordered'
  <2>2. i \in 1 .. n + Len(remaining)
    BY <1>5
  <2>3. CASE i <= n
    <3>1. i \in 1 .. n
      BY <1>2, <2>2, <2>3
    <3> QED
      BY <1>3, <1>5, <2>2, <2>3, <3>1
  <2>4. CASE ~(i <= n)
    <3>1. i > n /\ i - n \in 1 .. Len(remaining)
      BY <1>2, <2>2, <2>4
    <3> QED
      BY <1>1, <1>5, <2>2, <2>4, <3>1
  <2> QED
    BY <2>3, <2>4
<1>7. DOMAIN ordered' \subseteq Nat
  BY <1>2, <1>5
<1> HIDE DEF n
<1>8. n \in Nat
  BY <1>2 DEF n
<1>9. ASSUME NEW i \in DOMAIN ordered', NEW j \in DOMAIN ordered',
             ordered'[i] \in satisfied, ordered'[j] \in dependsOn[ordered'[i]]
      PROVE  j < i
  <2>1. i \in 1 .. n /\ ordered'[i] = ordered[i]
    BY <1>6, <1>9
  <2>2. PICK k \in 1 .. n : k < i /\ ordered[k] = ordered'[j]
    BY <1>1, <1>9, <2>1 DEF n
  <2>3. ordered'[j] \in satisfied
    BY <1>3, <2>2 DEF n
  <2>4. j \in 1 .. n /\ ordered'[j] = ordered[j]
    BY <1>6, <2>3
  <2>5. j = k
    BY <1>1, <2>2, <2>4 DEF n
  <2> QED
    BY <2>2, <2>5
<1>10. ASSUME NEW i \in DOMAIN ordered', NEW j \in DOMAIN ordered',
              ordered'[i] \in satisfied, ordered'[j] \notin satisfied
       PROVE  i < j
  <2>1. i \in 1 .. n /\ j > n
    BY <1>6, <1>10
  <2> QED
    BY <1>7, <1>8, <2>1
<1>11. ASSUME NEW i \in DOMAIN ordered', NEW j \in DOMAIN ordered', i < j,
              ordered'[i] \notin satisfied, ordered'[j] \notin satisfied
       PROVE  ordered'[i] < ordered'[j]
  <2>1. /\ i - n \in 1 .. Len(remaining) /\ ordered'[i] = remaining[i - n]
        /\ j - n \in 1 .. Len(remaining) /\ ordered'[j] = remaining[j - n]
    BY <1>6, <1>11
  <2>2. i - n < j - n
    BY <1>7, <1>8, <1>11
  <2> QED
    BY <1>1, <2>1, <2>2
<1> QED
  BY <1>4, <1>9, <1>10, <1>11 DEF RespectsDependencies

\* The end of a sweep: the next one starts with nothing skipped, or the order is
\* complete.
LEMMA SortEndSweep == ASSUME SortInv, EndSweep PROVE SortInv'
<1> USE TasksAssumption
<1>1. /\ sorting /\ cursor > Len(remaining) /\ cursor' = 1 /\ progressed' = FALSE
      /\ sorting' = (progressed /\ remaining # <<>>)
      /\ dependsOn' = dependsOn /\ satisfied' = satisfied
  BY DEF EndSweep
<1>2. /\ OrderInv' /\ sorting' \in BOOLEAN
      /\ dependsOn' \in [TaskSet -> SUBSET (0 .. Tasks)]
  <2>1. OrderInv
    BY DEF SortInv
  <2>2. OrderInv'
    BY <2>1, OrderEndSweep
  <2> QED
    BY <1>1, <2>2 DEF SortInv
<1>3. /\ ordered \in Seq(TaskSet) /\ remaining \in Seq(TaskSet) /\ Len(remaining) \in Nat
      /\ progressed \in BOOLEAN /\ cursor \in 1 .. Len(remaining) + 1
  BY DEF SortInv, OrderInv, OrderHolds
<1>4. CASE progressed /\ remaining # <<>>
  <2>1. ordered' = ordered /\ remaining' = remaining
    BY <1>4 DEF EndSweep
  <2>2. sorting'
    BY <1>1, <1>4
  <2>3. \A k \in 1 .. Len(remaining') : ~(k < cursor')
    BY <1>1, <1>3
  <2>4. ReturnsInOrder'
    BY <2>2 DEF ReturnsInOrder
  <2>5. /\ \A i, j \in 1 .. Len(remaining') : i < j => remaining'[i] < remaining'[j]
        /\ \A t \in TaskSet : t \in satisfied' <=> \E i \in 1 .. Len(ordered') : ordered'[i] = t
        /\ \A j \in 1 .. Len(remaining') : remaining'[j] \notin satisfied'
        /\ \A i, j \in 1 .. Len(ordered') : ordered'[i] = ordered'[j] => i = j
        /\ \A i \in 1 .. Len(ordered') : \A d \in dependsOn'[ordered'[i]] :
              \E j \in 1 .. Len(ordered') : j < i /\ ordered'[j] = d
    BY <1>1, <2>1 DEF SortInv
  <2> QED
    BY <1>2, <2>3, <2>4, <2>5 DEF SortInv
<1>5. CASE ~(progressed /\ remaining # <<>>)
  <2>1. \A k \in 1 .. Len(remaining) : ~Ready(remaining[k])
    <3>1. CASE progressed
      <4>1. Len(remaining) = 0
        BY <1>3, <1>5, <3>1
      <4> QED
        BY <4>1
    <3>2. CASE ~progressed
      <4>1. \A k \in 1 .. Len(remaining) : k < cursor
        BY <1>1, <1>3
      <4> QED
        BY <1>1, <3>2, <4>1 DEF SortInv
    <3> QED
      BY <3>1, <3>2
  <2>2. ordered' = ordered \o remaining /\ remaining' = <<>>
    <3>1. CASE progressed
      <4>1. remaining = <<>> /\ ordered' = ordered /\ remaining' = remaining
        BY <1>5, <3>1 DEF EndSweep
      <4> QED
        BY <1>3, <4>1
    <3>2. CASE ~progressed
      BY <3>2 DEF EndSweep
    <3> QED
      BY <3>1, <3>2
  <2>3. RespectsDependencies'
    BY <1>1, <2>1, <2>2, RestFollows
  <2>4. OrderTypeOK'
    BY <1>2, OrderInvTypes, PTL
  <2>5. Len(ordered') = Tasks /\ ToSet(ordered') = TaskSet
    <3>1. Len(remaining') = 0 /\ ToSet(remaining') = {}
      BY <2>2 DEF ToSet
    <3>2. ordered' \in Seq(TaskSet)
      BY <1>2 DEF OrderInv, OrderHolds
    <3> QED
      BY <2>4, <3>1, <3>2 DEF OrderTypeOK
  <2> QED
    BY <1>1, <1>2, <1>5, <2>3, <2>5 DEF SortInv, ReturnsInOrder
<1> QED
  BY <1>4, <1>5

\* Every step of the ordering preserves it.
LEMMA SortStepInv == ASSUME SortInv, [OrderNext]_orderVars PROVE SortInv'
<1>1. OrderInv'
  BY OrderStepInv DEF SortInv
<1>2. CASE SkipTask
  <2>1. /\ sorting /\ cursor <= Len(remaining) /\ ~Ready(remaining[cursor])
        /\ cursor' = cursor + 1
        /\ UNCHANGED <<dependsOn, remaining, ordered, satisfied, progressed, sorting>>
    BY <1>2 DEF SkipTask
  <2>2. cursor \in Nat /\ \A k \in 1 .. Len(remaining) : k < cursor + 1 => k < cursor \/ k = cursor
    BY DEF SortInv, OrderInv, OrderHolds
  <2>3. ~progressed => \A k \in 1 .. Len(remaining) : k < cursor + 1 => ~Ready(remaining[k])
    BY <2>1, <2>2 DEF SortInv
  <2>4. ~progressed' => \A k \in 1 .. Len(remaining') : k < cursor' => ~Ready(remaining[k])'
    BY <2>1, <2>3 DEF Ready
  <2>5. ReturnsInOrder'
    BY <2>1 DEF ReturnsInOrder
  <2> QED
    BY <1>1, <2>1, <2>4, <2>5 DEF SortInv
<1>3. CASE UNCHANGED orderVars
  <2>1. UNCHANGED <<dependsOn, remaining, ordered, satisfied, cursor, progressed, sorting>>
    BY <1>3 DEF orderVars
  <2>2. ReturnsInOrder' = ReturnsInOrder
    BY <2>1 DEF ReturnsInOrder, RespectsDependencies, Runnable
  <2> QED
    BY <1>1, <2>1, <2>2 DEF SortInv, Ready
<1> QED
  BY <1>2, <1>3, SortTake, SortEndSweep DEF OrderNext

\* Whatever the dependencies, cycles and missing tasks included, the order that
\* topological_tasks returns holds every task once, the runnable ones first and each
\* after all it depends on, the rest as they were given (ReturnsInOrder).
THEOREM OrderReturns == OrderSpec => []ReturnsInOrder
<1>1. OrderSpec => OrderInit /\ [][OrderNext]_orderVars
  BY DEF OrderSpec
<1>2. SortInv => ReturnsInOrder
  BY DEF SortInv
<1> QED
  BY <1>1, <1>2, SortInitInv, SortStepInv, PTL

\* A step of the ordering ends it, takes a task out, starts a sweep after one that took
\* some out, or moves the cursor on.
SweepDescends ==
    sorting /\ (\/ ~sorting'
                \/ Len(remaining') < Len(remaining)
                \/ Len(remaining') = Len(remaining) /\ progressed /\ ~progressed'
                \/ /\ Len(remaining') = Len(remaining) /\ progressed' = progressed
                   /\ cursor < cursor' /\ cursor' <= Len(remaining) + 1)

\* What OrderingEnds rests on, for any number of tasks and any dependencies: every step
\* of topological_tasks descends from (tasks left, whether the sweep took one out, what
\* is left of the sweep), in this order of weight.
THEOREM OrderDescends == OrderSpec => [][SweepDescends]_orderVars
<1>1. OrderInv /\ OrderNext => SweepDescends
  <2> SUFFICES ASSUME OrderInv, OrderNext PROVE SweepDescends
    OBVIOUS
  <2>1. /\ remaining \in Seq(TaskSet) /\ Len(remaining) \in Nat /\ progressed \in BOOLEAN
        /\ cursor \in 1 .. Len(remaining) + 1
    BY DEF OrderInv, OrderHolds
  <2>2. CASE Take
    <3>1. cursor \in 1 .. Len(remaining)
      BY <2>1, <2>2 DEF Take
    <3>2. PICK r : r = RemoveAt(remaining, cursor)
      OBVIOUS
    <3>3. Len(r) = Len(remaining) - 1
      BY <2>1, <3>1, <3>2, Removed
    <3>4. remaining' = r /\ sorting
      BY <2>2, <3>2 DEF Take
    <3>5. Len(remaining') < Len(remaining)
      BY <2>1, <3>3, <3>4
    <3> QED
      BY <3>4, <3>5 DEF SweepDescends
  <2>3. CASE SkipTask
    BY <2>1, <2>3 DEF SkipTask, SweepDescends
  <2>4. CASE EndSweep
    BY <2>4 DEF EndSweep, SweepDescends
  <2> QED
    BY <2>2, <2>3, <2>4 DEF OrderNext
<1>2. OrderInv /\ [OrderNext]_orderVars => [SweepDescends]_orderVars
  BY <1>1
<1>3. OrderSpec => OrderInit /\ [][OrderNext]_orderVars
  BY DEF OrderSpec
<1> QED
  BY <1>2, <1>3, OrderInitInv, OrderStepInv, PTL

-----------------------------------------------------------------------------
(* The circuit breakers *)

\* A row of the store.
StoredRow == [phase : {"Closed", "Open"}, failures : Nat, cool : 0..MaxCooldown]

\* A row as a caller has it, HalfOpen included.
LoadedRow == [phase : {"Closed", "Open", "HalfOpen"}, failures : Nat, cool : 0..MaxCooldown]

\* A row of the store, and a loaded one, that is tripped exactly at its threshold.
Good(k, row) == row \in StoredRow /\ (row.phase = "Open" <=> row.failures >= Threshold[k])

\* A loaded row that is tripped exactly at its threshold.
GoodCopy(k, row) == row \in LoadedRow /\ (row.phase # "Closed" <=> row.failures >= Threshold[k])

\* Only calls of a tool that has a server are at the server's steps.
AtServer ==
    \A w \in Workers :
        stage[w] \in {"server", "loadServer", "storeServer"} => ServerOf[tool[w]] \in Servers

\* Thresholds and cooldowns are in range.
LEMMA KeyFacts ==
    /\ \A k \in Keys : Threshold[k] \in Nat \ {0} /\ Cooldown[k] \in 0..MaxCooldown
    /\ MaxCooldown \in Nat /\ AnyTool \in Tools
  <1>1. AnyTool \in Tools
    BY BreakerAssumption DEF AnyTool
  <1> QED
    BY <1>1, BreakerAssumption

\* load_circuit_state keeps a row tripped exactly at its threshold.
LEMMA LoadedGood ==
    ASSUME NEW k \in Keys, Good(k, circuit[k])
    PROVE  GoodCopy(k, Loaded(k))
  <1>1. CASE circuit[k].phase = "Open" /\ circuit[k].cool = 0
    <2>1. Loaded(k) = [circuit[k] EXCEPT !.phase = "HalfOpen"]
      BY <1>1 DEF Loaded
    <2>2. Loaded(k).phase = "HalfOpen" /\ Loaded(k).failures = circuit[k].failures
      BY <2>1 DEF Good, StoredRow
    <2>3. Loaded(k) \in LoadedRow
      BY <2>1 DEF Good, StoredRow, LoadedRow
    <2> QED BY <1>1, <2>2, <2>3 DEF Good, GoodCopy
  <1>2. CASE ~(circuit[k].phase = "Open" /\ circuit[k].cool = 0)
    <2>1. Loaded(k) = circuit[k]
      BY <1>2 DEF Loaded
    <2> QED BY <2>1 DEF Good, GoodCopy, StoredRow, LoadedRow
  <1> QED BY <1>1, <1>2

\* transition_circuit_state turns any loaded row that is tripped exactly at its
\* threshold, however old, into a stored row that is.
LEMMA TransitionGood ==
    ASSUME NEW k \in Keys, NEW row, GoodCopy(k, row), NEW good \in BOOLEAN,
           NEW age \in 0..MaxCooldown
    PROVE  Good(k, Transition(k, row, good, age))
  <1>k. /\ Threshold[k] \in Nat /\ Threshold[k] >= 1
        /\ Cooldown[k] \in 0..MaxCooldown /\ MaxCooldown \in Nat
    BY KeyFacts
  <1>1. CASE good
    BY <1>1, <1>k DEF Transition, Fresh, Row, Good, StoredRow
  <1>2. CASE ~good
    <2> DEFINE n == Lower(row.failures + 1, Threshold[k])
    <2>0. row \in LoadedRow
      BY DEF GoodCopy
    <2>1. row.failures \in Nat /\ n \in Nat /\ n <= Threshold[k]
      BY <2>0, <1>k DEF LoadedRow, Lower
    <2>2. CASE n >= Threshold[k] \/ row.phase = "HalfOpen"
      <3>1. Transition(k, row, good, age) = Row("Open", n, SatSub(Cooldown[k], age))
        BY <1>2, <2>2 DEF Transition
      <3>2. SatSub(Cooldown[k], age) \in 0..MaxCooldown
        BY <1>k DEF SatSub
      <3>3. n >= Threshold[k]
        BY <1>k, <2>1, <2>2 DEF GoodCopy, Lower
      <3> QED BY <2>1, <3>1, <3>2, <3>3 DEF Row, Good, StoredRow
    <2>3. CASE ~(n >= Threshold[k] \/ row.phase = "HalfOpen")
      <3>1. Transition(k, row, good, age) = [row EXCEPT !.failures = n]
        BY <1>2, <2>3 DEF Transition
      <3>2. row.failures < Threshold[k]
        BY <1>k, <2>1, <2>3 DEF Lower
      <3>3. row.phase = "Closed"
        BY <1>k, <2>1, <3>2 DEF GoodCopy
      <3>4. n < Threshold[k]
        BY <1>k, <2>1, <2>3
      <3>5. /\ [row EXCEPT !.failures = n].phase = "Closed"
            /\ [row EXCEPT !.failures = n].failures = n
            /\ [row EXCEPT !.failures = n] \in StoredRow
        BY <2>0, <2>1, <3>3 DEF LoadedRow, StoredRow
      <3> QED BY <1>k, <2>1, <3>1, <3>4, <3>5 DEF Good
    <2> QED BY <2>2, <2>3
  <1> QED BY <1>1, <1>2

\* Every stored breaker row is good.
RowsGood == circuit \in [Keys -> StoredRow] /\ \A k \in Keys : Good(k, circuit[k])

\* Every copy a worker is about to store is good.
CopiesGood ==
    /\ copy \in [Workers -> LoadedRow]
    /\ \A w \in Workers :
        stage[w] \in {"storeTool", "storeServer"} => GoodCopy(Target(w), copy[w])

\* The workers are in their types.
WorkersGood ==
    /\ stage \in [Workers -> {"idle", "server", "running", "loadTool", "storeTool",
                            "loadServer", "storeServer"}]
    /\ tool \in [Workers -> Tools] /\ ok \in [Workers -> BOOLEAN]
    /\ lag \in [Workers -> 0..MaxCooldown] /\ failed \in [Tools -> Nat]
    /\ AtServer

\* The inductive invariant of the breakers.
Inv == RowsGood /\ CopiesGood /\ WorkersGood

\* The invariant implies the types, and that a breaker trips at its threshold.
LEMMA InvImplies == Inv => BreakerTypeOK /\ TrippedAtThreshold
  BY DEF Inv, RowsGood, CopiesGood, WorkersGood, BreakerTypeOK, TrippedAtThreshold, StoredRow,
         LoadedRow, Good, GoodCopy

\* A row that nobody has written is closed.
LEMMA FreshRow == Fresh \in StoredRow /\ Fresh \in LoadedRow /\ \A k \in Keys : Good(k, Fresh)
  BY KeyFacts DEF Fresh, Row, StoredRow, LoadedRow, Good

\* Breakers without a row satisfy the invariant.
LEMMA InvInit == BreakerInit => Inv
  BY KeyFacts, FreshRow
     DEF BreakerInit, Inv, RowsGood, CopiesGood, WorkersGood, AtServer, StoredRow, LoadedRow

\* A worker that goes back to idle disturbs nobody.
LEMMA ResetGood ==
    ASSUME Inv, NEW w \in Workers, Reset(w), failed' \in [Tools -> Nat]
    PROVE  CopiesGood' /\ WorkersGood'
  <1>1. CopiesGood'
    <2>1. copy' \in [Workers -> LoadedRow]
      BY FreshRow DEF Inv, CopiesGood, Reset
    <2>2. ASSUME NEW v \in Workers, stage'[v] \in {"storeTool", "storeServer"}
          PROVE  GoodCopy(Target(v), copy[v])'
      <3>1. v # w
        BY <2>2 DEF Reset, Inv, WorkersGood
      <3>2. stage'[v] = stage[v] /\ tool'[v] = tool[v] /\ copy'[v] = copy[v]
        BY <3>1 DEF Reset, Inv, WorkersGood, CopiesGood
      <3> QED BY <2>2, <3>2 DEF Inv, CopiesGood, GoodCopy, Target
    <2> QED BY <2>1, <2>2 DEF CopiesGood
  <1>2. WorkersGood'
    BY KeyFacts DEF Inv, WorkersGood, AtServer, Reset
  <1> QED BY <1>1, <1>2

\* So does one that moves on with no copy it will store, or with a good one.
LEMMA MoveGood ==
    ASSUME Inv, NEW w \in Workers, WorkersGood', copy' \in [Workers -> LoadedRow],
           \A v \in Workers : v # w =>
              stage'[v] = stage[v] /\ tool'[v] = tool[v] /\ copy'[v] = copy[v],
           stage'[w] \in {"storeTool", "storeServer"} => GoodCopy(Target(w), copy[w])'
    PROVE  CopiesGood'
  <1> SUFFICES ASSUME NEW v \in Workers, stage'[v] \in {"storeTool", "storeServer"}
               PROVE  GoodCopy(Target(v), copy[v])'
    BY DEF CopiesGood
  <1>1. CASE v # w
    BY <1>1 DEF Inv, CopiesGood, GoodCopy, Target
  <1>2. CASE v = w
    BY <1>2
  <1> QED BY <1>1, <1>2

\* What a recording stores keeps every row good.
LEMMA StoreGood ==
    ASSUME Inv, NEW w \in Workers, NEW k \in Keys, k = Target(w),
           stage[w] \in {"storeTool", "storeServer"}, Store(w, k)
    PROVE  RowsGood'
  <1>1. Good(k, Transition(k, copy[w], ok[w], lag[w]))
    BY TransitionGood DEF Inv, CopiesGood, WorkersGood
  <1>2. circuit' = [circuit EXCEPT ![k] = Transition(k, copy[w], ok[w], lag[w])]
    BY DEF Store
  <1>3. Transition(k, copy[w], ok[w], lag[w]) \in StoredRow
    BY <1>1 DEF Good
  <1>4. circuit' \in [Keys -> StoredRow]
    BY <1>2, <1>3 DEF Inv, RowsGood
  <1>5. \A j \in Keys : Good(j, circuit'[j])
    BY <1>1, <1>2 DEF Inv, RowsGood
  <1> QED BY <1>4, <1>5 DEF RowsGood, Good

\* Every step of a worker, and of the clock, preserves the invariant.
LEMMA InvStep ==
    ASSUME Inv, [BreakerNext]_breakerVars
    PROVE  Inv'
  <1>r. ASSUME circuit' = circuit PROVE RowsGood'
    BY <1>r DEF Inv, RowsGood, Good
  <1>f. \A t \in Tools : \A good \in BOOLEAN : Streak(t, good) \in Nat
    <2>1. \A t \in Tools : failed[t] \in Nat /\ Threshold[t] \in Nat
      BY KeyFacts DEF Inv, WorkersGood, Keys
    <2> QED BY <2>1 DEF Streak, Lower
  <1>s. \A w \in Workers : tool[w] \in Tools /\ tool[w] \in Keys
    BY DEF Inv, WorkersGood, Keys
  <1>t. \A t \in Tools : ServerOf[t] # NoServer => ServerOf[t] \in Servers /\ ServerOf[t] \in Keys
    BY BreakerAssumption DEF Keys
  <1>z. 0 \in 0..MaxCooldown
    BY KeyFacts
  <1>1. CASE \E w \in Workers : \E t \in Tools : GuardTool(w, t)
    <2> PICK w \in Workers, t \in Tools : GuardTool(w, t)
      BY <1>1
    <2>1. WorkersGood'
      BY <1>t DEF GuardTool, Inv, WorkersGood, AtServer
    <2>2. CopiesGood'
      BY <2>1, MoveGood DEF GuardTool, Inv, CopiesGood, WorkersGood
    <2> QED BY <1>r, <2>1, <2>2 DEF GuardTool, Inv
  <1>2. CASE \E w \in Workers : GuardServer(w)
    <2> PICK w \in Workers : GuardServer(w)
      BY <1>2
    <2>0. circuit' = circuit /\ failed' = failed /\ failed \in [Tools -> Nat]
      BY DEF GuardServer, Inv, WorkersGood
    <2>1. CASE Reset(w)
      BY <1>r, <2>0, <2>1, ResetGood DEF Inv
    <2>2. CASE stage' = [stage EXCEPT ![w] = "running"] /\ UNCHANGED <<tool, ok, copy, lag>>
      <3>1. WorkersGood'
        BY <2>0, <2>2 DEF Inv, WorkersGood, AtServer
      <3>2. CopiesGood'
        BY <2>2, <3>1, MoveGood DEF Inv, CopiesGood, WorkersGood
      <3> QED BY <1>r, <2>0, <3>1, <3>2 DEF Inv
    <2> QED BY <2>1, <2>2 DEF GuardServer
  <1>3. CASE \E w \in Workers : \E good \in BOOLEAN : CallReported(w, good)
    <2> PICK w \in Workers, good \in BOOLEAN : CallReported(w, good)
      BY <1>3
    <2>0. failed' \in [Tools -> Nat]
      BY <1>f, <1>s DEF CallReported, Inv, WorkersGood
    <2>1. WorkersGood'
      BY <1>z, <2>0 DEF CallReported, Inv, WorkersGood, AtServer
    <2>2. CopiesGood'
      BY <2>1, MoveGood DEF CallReported, Inv, CopiesGood, WorkersGood
    <2> QED BY <1>r, <2>1, <2>2 DEF CallReported, Inv
  <1>4. CASE \E w \in Workers : CallErrs(w)
    <2> PICK w \in Workers : CallErrs(w)
      BY <1>4
    <2>0. failed' \in [Tools -> Nat]
      BY <1>f, <1>s DEF CallErrs, Inv, WorkersGood
    <2> QED BY <1>r, <2>0, ResetGood DEF CallErrs, Inv
  <1>5. CASE \E w \in Workers : LoadTool(w) \/ LoadServer(w)
    <2> PICK w \in Workers : LoadTool(w) \/ LoadServer(w)
      BY <1>5
    <2> DEFINE k == IF stage[w] = "loadTool" THEN tool[w] ELSE ServerOf[tool[w]]
    <2>0. /\ stage[w] \in {"loadTool", "loadServer"} /\ Load(w, k)
          /\ stage' = [stage EXCEPT ![w] = IF stage[w] = "loadTool" THEN "storeTool" ELSE "storeServer"]
      BY DEF LoadTool, LoadServer
    <2>1. k \in Keys
      BY <1>s, <1>t, <2>0 DEF Inv, WorkersGood, AtServer, Keys
    <2> HIDE DEF k
    <2>2. GoodCopy(k, Loaded(k))
      BY <2>1, LoadedGood DEF Inv, RowsGood
    <2>3. copy' = [copy EXCEPT ![w] = Loaded(k)] /\ Loaded(k) \in LoadedRow
      BY <2>0, <2>2 DEF Load, GoodCopy
    <2>4. WorkersGood'
      BY <2>0 DEF Load, Inv, WorkersGood, AtServer
    <2>5. copy' \in [Workers -> LoadedRow] /\ copy'[w] = Loaded(k)
      BY <2>3 DEF Inv, CopiesGood
    <2>6. Target(w)' = k
      BY <2>0 DEF Load, Target, Inv, WorkersGood, k
    <2>7. GoodCopy(Target(w), copy[w])'
      BY <2>2, <2>5, <2>6 DEF GoodCopy
    <2>8. \A v \in Workers : v # w =>
             stage'[v] = stage[v] /\ tool'[v] = tool[v] /\ copy'[v] = copy[v]
      BY <2>0, <2>3 DEF Load, Inv, WorkersGood, CopiesGood
    <2>9. CopiesGood'
      BY <2>4, <2>5, <2>7, <2>8, MoveGood
    <2> QED BY <1>r, <2>0, <2>4, <2>9 DEF Load, Inv
  <1>6. CASE \E w \in Workers : StoreTool(w)
    <2> PICK w \in Workers : StoreTool(w)
      BY <1>6
    <2>0. failed' = failed /\ failed \in [Tools -> Nat] /\ stage[w] = "storeTool"
      BY DEF StoreTool, Inv, WorkersGood
    <2>1. RowsGood'
      <3>1. tool[w] = Target(w) /\ Store(w, tool[w])
        BY <2>0 DEF Target, StoreTool
      <3> QED BY <1>s, <2>0, <3>1, StoreGood
    <2>2. CASE Reset(w)
      BY <2>0, <2>1, <2>2, ResetGood DEF Inv
    <2>3. CASE /\ ServerOf[tool[w]] # NoServer
               /\ stage' = [stage EXCEPT ![w] = "loadServer"] /\ UNCHANGED <<tool, ok, copy, lag>>
      <3>1. WorkersGood'
        BY <1>s, <1>t, <2>0, <2>3 DEF Inv, WorkersGood, AtServer
      <3>2. CopiesGood'
        BY <2>3, <3>1, MoveGood DEF Inv, CopiesGood, WorkersGood
      <3> QED BY <2>1, <3>1, <3>2 DEF Inv
    <2> QED BY <2>2, <2>3 DEF StoreTool
  <1>7. CASE \E w \in Workers : StoreServer(w)
    <2> PICK w \in Workers : StoreServer(w)
      BY <1>7
    <2>0. failed' = failed /\ failed \in [Tools -> Nat] /\ stage[w] = "storeServer" /\ Reset(w)
      BY DEF StoreServer, Inv, WorkersGood
    <2>1. ServerOf[tool[w]] \in Keys /\ ServerOf[tool[w]] = Target(w)
      BY <2>0 DEF Inv, WorkersGood, AtServer, Keys, Target
    <2>2. RowsGood'
      BY <2>0, <2>1, StoreGood DEF StoreServer
    <2> QED BY <2>0, <2>2, ResetGood DEF Inv
  <1>8. CASE \E w \in Workers : Interrupted(w)
    <2> PICK w \in Workers : Interrupted(w)
      BY <1>8
    <2>0. failed' = failed /\ failed \in [Tools -> Nat] /\ circuit' = circuit /\ Reset(w)
      BY DEF Interrupted, Inv, WorkersGood
    <2> QED BY <1>r, <2>0, ResetGood DEF Inv
  <1>9. CASE Tick
    <2>1. RowsGood'
      <3>1. ASSUME NEW k \in Keys PROVE Good(k, circuit'[k])
        <4>1. circuit[k] \in StoredRow /\ Good(k, circuit[k])
          BY DEF Inv, RowsGood
        <4>2. circuit'[k] = [circuit[k] EXCEPT !.cool = SatSub(@, 1)]
          BY <1>9 DEF Tick
        <4>3. circuit'[k].phase = circuit[k].phase /\ circuit'[k].failures = circuit[k].failures
          BY <4>1, <4>2 DEF StoredRow
        <4>4. circuit[k].cool \in 0..MaxCooldown /\ MaxCooldown \in Nat
          BY <4>1, KeyFacts DEF StoredRow
        <4>5. SatSub(circuit[k].cool, 1) \in 0..MaxCooldown
          BY <4>4 DEF SatSub
        <4>6. circuit'[k] \in StoredRow
          BY <4>1, <4>2, <4>5 DEF StoredRow
        <4> QED BY <4>1, <4>3, <4>6 DEF Good
      <3>2. circuit' = [k \in Keys |-> circuit'[k]]
        BY <1>9 DEF Tick
      <3>3. circuit' \in [Keys -> StoredRow]
        BY <3>1, <3>2 DEF Good
      <3> QED BY <3>1, <3>3 DEF RowsGood, Good
    <2>2. lag' \in [Workers -> 0..MaxCooldown]
      <3>1. \A w \in Workers : lag[w] \in 0..MaxCooldown
        BY DEF Inv, WorkersGood
      <3>2. \A w \in Workers : Lower(lag[w] + 1, MaxCooldown) \in 0..MaxCooldown
        BY <3>1, KeyFacts DEF Lower
      <3> QED BY <1>9, <1>z, <3>2 DEF Tick
    <2>3. WorkersGood' /\ CopiesGood'
      BY <1>9, <2>2 DEF Tick, Inv, WorkersGood, CopiesGood, AtServer, GoodCopy, Target
    <2> QED BY <2>1, <2>3 DEF Inv
  <1>10. CASE UNCHANGED breakerVars
    BY <1>10 DEF breakerVars, workerVars, Inv, RowsGood, CopiesGood, WorkersGood, AtServer, Good,
                 GoodCopy, Target
  <1> QED
    BY <1>1, <1>2, <1>3, <1>4, <1>5, <1>6, <1>7, <1>8, <1>9, <1>10 DEF BreakerNext, WorkerStep

\* The inductive invariant holds of every run of the breakers.
LEMMA InvInvariant == BreakerSpec => []Inv
  BY InvInit, InvStep, PTL DEF BreakerSpec

\* Rows, copies and workers keep their types in every behaviour.
THEOREM BreakerTypes == BreakerSpec => []BreakerTypeOK
  BY InvInvariant, InvImplies, PTL

\* However the recordings of any number of swarms overwrite each other, a breaker
\* is open exactly when its failures have reached its threshold.
THEOREM OpenExactlyAtThreshold == BreakerSpec => []TrippedAtThreshold
  BY InvInvariant, InvImplies, PTL

-----------------------------------------------------------------------------
(* The trusted kernel *)

-----------------------------------------------------------------------------
(* Sums *)

\* What Total counts: a pair for every unit.
Pairs(fn, S) == UNION { {x} \X (1 .. fn[x]) : x \in S }

\* A pair of the sum over S belongs to one of its members.
LEMMA PairsMembers ==
    ASSUME NEW fn, NEW S, NEW u
    PROVE  u \in Pairs(fn, S) <=> \E x \in S : u \in {x} \X (1 .. fn[x])
  BY DEF Pairs

\* Finitely many natural numbers have a sum.
LEMMA TotalNat ==
    ASSUME NEW S, IsFiniteSet(S), NEW fn, \A x \in S : fn[x] \in Nat
    PROVE  IsFiniteSet(Pairs(fn, S)) /\ Total(fn, S) \in Nat
<1> DEFINE T == { {x} \X (1 .. fn[x]) : x \in S }
           g == [x \in S |-> {x} \X (1 .. fn[x])]
<1>1. g \in Surjection(S, T)
  BY DEF Surjection
<1>2. IsFiniteSet(T)
  BY <1>1, FS_Surjection
<1>3. ASSUME NEW x \in S PROVE IsFiniteSet({x} \X (1 .. fn[x]))
  <2>0. PICK n \in Nat : n = fn[x]
    OBVIOUS
  <2>1. IsFiniteSet({x})
    BY FS_Singleton
  <2>2. 1 \in Int /\ n \in Int
    OBVIOUS
  <2>3. IsFiniteSet(1 .. n)
    BY <2>2, FS_Interval
  <2> QED
    BY <2>0, <2>1, <2>3, FS_Product
<1>4. IsFiniteSet(UNION T)
  <2>1. \A U \in T : IsFiniteSet(U)
    BY <1>3
  <2> HIDE DEF T
  <2> QED
    BY <1>2, <2>1, FS_UNION
<1>5. IsFiniteSet(Pairs(fn, S)) /\ Cardinality(Pairs(fn, S)) \in Nat
  BY <1>4, FS_CardinalityType DEF Pairs
<1> QED
  BY <1>5 DEF Total, Pairs

\* Nothing adds up to 0.
LEMMA TotalNone == ASSUME NEW fn PROVE Total(fn, {}) = 0
<1>1. UNION { {x} \X (1 .. fn[x]) : x \in {} } = {}
  OBVIOUS
<1> QED
  BY <1>1, FS_EmptySet DEF Total

\* An amount is the size of the interval that stands for it.
LEMMA CountUpTo ==
    ASSUME NEW n \in Nat
    PROVE  IsFiniteSet(1 .. n) /\ Cardinality(1 .. n) = n
<1>1. IsFiniteSet(1 .. n) /\ Cardinality(1 .. n) = IF 1 > n THEN 0 ELSE n - 1 + 1
  BY FS_Interval
<1> QED
  BY <1>1

\* One more member adds its amount.
LEMMA TotalAdd ==
    ASSUME NEW S, IsFiniteSet(S), NEW c, c \notin S, NEW fn,
           \A x \in S \cup {c} : fn[x] \in Nat
    PROVE  Total(fn, S \cup {c}) = Total(fn, S) + fn[c]
<1> DEFINE A == Pairs(fn, S)
           B == {c} \X (1 .. fn[c])
<1>1. Pairs(fn, S \cup {c}) = A \cup B
  <2>1. ASSUME NEW u PROVE u \in Pairs(fn, S \cup {c}) <=> u \in A \/ u \in B
    <3>1. u \in Pairs(fn, S \cup {c}) <=> \E x \in S \cup {c} : u \in {x} \X (1 .. fn[x])
      BY PairsMembers
    <3>2. u \in A <=> \E x \in S : u \in {x} \X (1 .. fn[x])
      BY PairsMembers
    <3> QED
      BY <3>1, <3>2
  <2> HIDE DEF A, B
  <2> QED
    BY <2>1
<1>2. A \cap B = {}
  <2> SUFFICES ASSUME NEW u \in A, u \in B PROVE FALSE
    OBVIOUS
  <2>1. PICK x \in S : u \in {x} \X (1 .. fn[x])
    BY PairsMembers
  <2> QED
    BY <2>1
<1>3. IsFiniteSet(A) /\ Cardinality(A) \in Nat
  BY TotalNat, FS_CardinalityType
<1>4. IsFiniteSet(B) /\ Cardinality(B) = fn[c]
  <2>1. IsFiniteSet({c}) /\ Cardinality({c}) = 1
    BY FS_Singleton
  <2>2. fn[c] \in Nat
    OBVIOUS
  <2>3. IsFiniteSet(1 .. fn[c]) /\ Cardinality(1 .. fn[c]) = fn[c]
    BY <2>2, CountUpTo
  <2>4. IsFiniteSet(B) /\ Cardinality(B) = Cardinality({c}) * Cardinality(1 .. fn[c])
    BY <2>1, <2>3, FS_Product
  <2>5. 1 * fn[c] = fn[c]
    BY <2>2
  <2> QED
    BY <2>1, <2>3, <2>4, <2>5
<1> HIDE DEF A, B
<1>5. Cardinality(A \cup B) = Cardinality(A) + Cardinality(B) - Cardinality(A \cap B)
  BY <1>3, <1>4, FS_Union
<1>6. Cardinality(A \cap B) = 0
  BY <1>2, FS_EmptySet
<1>7. fn[c] \in Nat
  OBVIOUS
<1>8. Cardinality(A \cup B) = Cardinality(A) + fn[c]
  BY <1>3, <1>4, <1>5, <1>6, <1>7
<1> QED
  BY <1>1, <1>8 DEF A, Total, Pairs

\* One member less takes its amount away, which is at most the sum.
LEMMA TotalRemove ==
    ASSUME NEW S, IsFiniteSet(S), NEW c \in S, NEW fn, \A x \in S : fn[x] \in Nat
    PROVE  /\ Total(fn, S \ {c}) = Total(fn, S) - fn[c]
           /\ Total(fn, S \ {c}) \in Nat /\ fn[c] <= Total(fn, S)
<1>1. IsFiniteSet(S \ {c}) /\ S = (S \ {c}) \cup {c}
  BY FS_Subset
<1>2. Total(fn, S) = Total(fn, S \ {c}) + fn[c]
  <2>1. Total(fn, (S \ {c}) \cup {c}) = Total(fn, S \ {c}) + fn[c]
    BY <1>1, TotalAdd
  <2> QED
    BY <1>1, <2>1
<1>3. Total(fn, S \ {c}) \in Nat /\ fn[c] \in Nat
  BY <1>1, TotalNat
<1> QED
  BY <1>2, <1>3

-----------------------------------------------------------------------------
(* The inductive invariant *)

\* Shapes: KernelTypeOK, and the ledger is a sequence.
KernelShapes ==
    /\ status \in [Execs -> Status]
    /\ result \in [Execs -> {"running", "completed", "rolledBack", "rejected", "error"}]
    /\ pool \in [Kinds -> Nat]
    /\ account \in [reserved : Nat, consumed : Nat]
    /\ Len(ledger) \in Nat /\ ledger \in Seq(ToSet(ledger))
    /\ \A i \in 1 .. Len(ledger) : ledger[i].out \in Execs
    /\ held \subseteq Execs /\ charged \subseteq Execs

\* What each call asks of one kind.
NeedOf(kind) == [e \in Execs |-> Need[e][kind]]

\* The pool is the sum of what the running calls hold, kind by kind.
PoolHeld ==
    /\ \A kind \in Kinds : pool[kind] = Total(NeedOf(kind), held) /\ pool[kind] <= Limit[kind]
    /\ \A e \in held : result[e] = "running"

\* The calls that have units on the account and have not consumed them.
Holding == { e \in Execs : result[e] = "running" /\ status[e] \in {"Executing", "RecordingEvidence"} }

\* The account covers all of them, until a call has been charged more than its units.
UnitsHeld ==
    (\A e \in charged : Cost[e] <= Units[e]) => account.reserved >= Total(Units, Holding)

\* The inductive invariant of the kernel.
KernelInv == KernelShapes /\ PoolHeld /\ UnitsHeld

\* The constants are amounts.
LEMMA KernelAmounts ==
    ASSUME NEW e \in Execs
    PROVE  /\ Units[e] \in Nat /\ Cost[e] \in Nat
           /\ \A kind \in Kinds : NeedOf(kind)[e] \in Nat /\ NeedOf(kind)[e] = Need[e][kind]
<1>1. Plan[e] \in Seq([cost : Nat, prio : Nat])
  BY KernelConstants
<1>2. Units[e] \in Nat
  BY <1>1 DEF Units
<1>3. Cost[e] \in Nat
  <2> DEFINE D == 1 .. Len(Plan[e])
             fn == [i \in D |-> Plan[e][i].cost]
  <2>1. DOMAIN Plan[e] = D /\ Len(Plan[e]) \in Nat
    BY <1>1
  <2>2. IsFiniteSet(D)
    <3>1. 1 \in Int /\ Len(Plan[e]) \in Int
      BY <2>1
    <3> QED
      BY <3>1, FS_Interval
  <2>3. ASSUME NEW i \in D PROVE fn[i] \in Nat
    <3>1. Plan[e][i] \in [cost : Nat, prio : Nat]
      BY <1>1, ElementOfSeq
    <3> QED
      BY <3>1
  <2>4. Cost[e] = Total(fn, D)
    <3>1. Cost[e] = Total([i \in DOMAIN Plan[e] |-> Plan[e][i].cost], DOMAIN Plan[e])
      BY DEF Cost
    <3>2. [i \in DOMAIN Plan[e] |-> Plan[e][i].cost] = fn
      BY <2>1
    <3> QED
      BY <2>1, <3>1, <3>2
  <2> HIDE DEF D, fn
  <2> QED
    BY <2>2, <2>3, <2>4, TotalNat
<1>4. ASSUME NEW kind \in Kinds
      PROVE  NeedOf(kind)[e] \in Nat /\ NeedOf(kind)[e] = Need[e][kind]
  <2>1. Need[e] \in [Kinds -> Nat]
    BY KernelConstants
  <2> QED
    BY <2>1 DEF NeedOf
<1> QED
  BY <1>2, <1>3, <1>4

\* Sets of calls are finite.
LEMMA CallsFinite == ASSUME NEW S \in SUBSET Execs PROVE IsFiniteSet(S)
  BY KernelConstants, FS_Subset

\* A kernel nobody has called satisfies the invariant.
LEMMA KernelInitInv == KernelInit => KernelInv
<1> SUFFICES ASSUME KernelInit PROVE KernelInv
  OBVIOUS
<1> USE DEF KernelInit
<1>1. KernelShapes
  BY DEF KernelShapes, Status, ToSet
<1>2. PoolHeld
  BY TotalNone, KernelConstants DEF PoolHeld
<1>3. UnitsHeld
  <2>1. Holding = {}
    BY DEF Holding
  <2>2. Total(Units, Holding) = 0 /\ account.reserved = 0
    BY <2>1, TotalNone
  <2> QED
    BY <2>2 DEF UnitsHeld
<1> QED
  BY <1>1, <1>2, <1>3 DEF KernelInv

\* The calls other than e are where they were.
Elsewhere(e) ==
    \A d \in Execs \ {e} : status'[d] = status[d] /\ result'[d] = result[d]

\* What is held by the others when a call stops holding, and by it when it goes on.
LEMMA HoldingMoves ==
    ASSUME NEW e \in Execs, Elsewhere(e)
    PROVE  /\ e \notin Holding' => Holding' = Holding \ {e}
           /\ e \in Holding' => Holding' = Holding \cup {e}
  BY DEF Elsewhere, Holding

\* A call that takes no units keeps what is there for the others.
LEMMA UnitsKept ==
    ASSUME KernelShapes, UnitsHeld, NEW e \in Execs, Elsewhere(e),
           e \in Holding' => e \in Holding, account' = account, charged' = charged
    PROVE  UnitsHeld'
<1> SUFFICES ASSUME \A c \in charged : Cost[c] <= Units[c]
             PROVE  account.reserved >= Total(Units, Holding')
  BY DEF UnitsHeld
<1>1. account.reserved >= Total(Units, Holding)
  BY DEF UnitsHeld
<1>2. CASE Holding' = Holding
  BY <1>1, <1>2
<1>3. CASE e \in Holding /\ Holding' = Holding \ {e}
  <2>1. IsFiniteSet(Holding) /\ \A c \in Holding : Units[c] \in Nat
    BY CallsFinite, KernelAmounts DEF Holding
  <2>2. /\ Total(Units, Holding \ {e}) = Total(Units, Holding) - Units[e]
        /\ Total(Units, Holding \ {e}) \in Nat /\ Units[e] \in Nat
        /\ Total(Units, Holding) \in Nat
    BY <1>3, <2>1, TotalRemove, TotalNat
  <2>3. account.reserved \in Nat
    BY DEF KernelShapes
  <2> QED
    BY <1>1, <1>3, <2>2, <2>3
<1> QED
  BY <1>2, <1>3, HoldingMoves

\* `release` takes the call's need from the pool, and never below zero.
LEMMA ReleaseKeeps ==
    ASSUME KernelShapes, PoolHeld, NEW e \in Execs, Elsewhere(e), Release(e)
    PROVE  PoolHeld' /\ pool' \in [Kinds -> Nat] /\ held' \subseteq Execs
<1>1. held' = held \ {e}
  BY DEF Release
<1>2. \A c \in held' : result'[c] = "running"
  BY <1>1 DEF PoolHeld, KernelShapes, Elsewhere
<1>3. CASE e \notin held
  <2>1. pool' = pool /\ held' = held
    BY <1>3 DEF Release
  <2> QED
    BY <1>2, <2>1 DEF PoolHeld, KernelShapes
<1>4. CASE e \in held
  <2>1. pool' = [kind \in Kinds |-> Max({0, pool[kind] - Need[e][kind]})]
    BY <1>4 DEF Release
  <2>2. ASSUME NEW kind \in Kinds
        PROVE  /\ pool'[kind] \in Nat /\ pool'[kind] = Total(NeedOf(kind), held')
               /\ pool'[kind] <= Limit[kind]
    <3>1. IsFiniteSet(held) /\ \A c \in held : NeedOf(kind)[c] \in Nat
      BY CallsFinite, KernelAmounts DEF KernelShapes
    <3>2. /\ Total(NeedOf(kind), held \ {e}) = Total(NeedOf(kind), held) - NeedOf(kind)[e]
          /\ Total(NeedOf(kind), held \ {e}) \in Nat
      BY <1>4, <3>1, TotalRemove
    <3>3. pool[kind] = Total(NeedOf(kind), held) /\ pool[kind] <= Limit[kind] /\ pool[kind] \in Nat
      BY DEF PoolHeld, KernelShapes
    <3>4. NeedOf(kind)[e] = Need[e][kind] /\ Need[e][kind] \in Nat /\ Limit[kind] \in Nat
      BY KernelAmounts, KernelConstants
    <3>5. PICK n : n = pool[kind] - Need[e][kind]
      OBVIOUS
    <3>6. n \in Nat /\ n = Total(NeedOf(kind), held \ {e}) /\ n <= Limit[kind]
      BY <3>2, <3>3, <3>4, <3>5
    <3>7. Max({0, n}) = n
      <4>1. n \in {0, n} /\ \A y \in {0, n} : n >= y
        BY <3>6
      <4>2. Max({0, n}) \in {0, n} /\ \A y \in {0, n} : Max({0, n}) >= y
        BY <4>1 DEF Max
      <4> QED
        BY <3>6, <4>2
    <3>8. pool'[kind] = n
      BY <2>1, <3>5, <3>7
    <3> QED
      BY <1>1, <3>6, <3>8
  <2>3. pool' \in [Kinds -> Nat]
    BY <2>1, <2>2
  <2> QED
    BY <1>1, <1>2, <2>2, <2>3 DEF PoolHeld, KernelShapes
<1> QED
  BY <1>3, <1>4

\* The moves of a call on its state machine and its result.
Moves(e, st, how) ==
    /\ status' = [status EXCEPT ![e] = st]
    /\ result' = [result EXCEPT ![e] = how]

\* They keep the shapes, and the other calls where they are.
LEMMA MovesEffect ==
    ASSUME KernelShapes, NEW e \in Execs, NEW st \in Status,
           NEW how \in {"running", "completed", "rolledBack", "rejected", "error"},
           Moves(e, st, how)
    PROVE  /\ status' \in [Execs -> Status] /\ status'[e] = st
           /\ result' \in [Execs -> {"running", "completed", "rolledBack", "rejected", "error"}]
           /\ result'[e] = how /\ Elsewhere(e)
<1>1. status' \in [Execs -> Status] /\ status'[e] = st
  BY DEF Moves, KernelShapes
<1>2. /\ result' \in [Execs -> {"running", "completed", "rolledBack", "rejected", "error"}]
      /\ result'[e] = how
  BY DEF Moves, KernelShapes
<1>3. Elsewhere(e)
  BY DEF Moves, KernelShapes, Elsewhere
<1> QED
  BY <1>1, <1>2, <1>3

\* The end of a path of states is a state of the machine.
LEMMA TransitEnd ==
    /\ \A st \in Status : <<st>>[Len(<<st>>)] = st
    /\ \A st, to \in Status : <<st, to>>[Len(<<st, to>>)] = to
  OBVIOUS

\* Every exit of execute drops the reservation and changes no account.
Exits(e) ==
    \E st \in Status : \E how \in {"completed", "rolledBack", "rejected", "error"} :
        /\ Moves(e, st, how) /\ Release(e)
        /\ UNCHANGED <<account, ledger, charged>>

\* Refusals, failures and the two ends of a call are exits.
LEMMA StepExits ==
    ASSUME KernelShapes, NEW e \in Execs,
           \/ RejectAdmission(e) \/ RejectEnforcing(e) \/ RejectBudget(e) \/ RunFails(e)
           \/ AppendFails(e) \/ ConsumeFails(e) \/ Complete(e) \/ RollBack(e)
    PROVE  Exits(e)
<1>1. CASE RejectAdmission(e) \/ RejectEnforcing(e) \/ RejectBudget(e)
  BY <1>1 DEF RejectAdmission, RejectEnforcing, RejectBudget, Transit, Return, Exits, Moves,
              Status
<1>2. CASE RunFails(e)
  BY <1>2 DEF RunFails, Transit, Return, Exits, Moves, Status
<1>3. CASE RollBack(e)
  BY <1>3 DEF RollBack, Transit, Return, Exits, Moves, Status
<1>4. CASE Complete(e)
  BY <1>4 DEF Complete, Transit, Return, Exits, Moves, Status
<1>5. CASE AppendFails(e) \/ ConsumeFails(e)
  <2>1. /\ UNCHANGED <<status, account, ledger, charged>> /\ Return(e, "error")
    BY <1>5 DEF AppendFails, ConsumeFails
  <2>2. status' = [status EXCEPT ![e] = status[e]] /\ status[e] \in Status
    BY <2>1 DEF KernelShapes
  <2> QED
    BY <2>1, <2>2 DEF Return, Exits, Moves
<1> QED
  BY <1>1, <1>2, <1>3, <1>4, <1>5

\* An exit preserves the invariant.
LEMMA KernelExits ==
    ASSUME KernelInv, NEW e \in Execs, Exits(e)
    PROVE  KernelInv'
<1> USE DEF KernelInv
<1>1. PICK st \in Status, how \in {"completed", "rolledBack", "rejected", "error"} :
        /\ Moves(e, st, how) /\ Release(e)
        /\ UNCHANGED <<account, ledger, charged>>
  BY DEF Exits
<1>2. /\ status' \in [Execs -> Status] /\ status'[e] = st
      /\ result' \in [Execs -> {"running", "completed", "rolledBack", "rejected", "error"}]
      /\ result'[e] = how /\ Elsewhere(e)
  BY <1>1, MovesEffect
<1>3. PoolHeld' /\ pool' \in [Kinds -> Nat] /\ held' \subseteq Execs
  BY <1>1, <1>2, ReleaseKeeps
<1>4. KernelShapes'
  BY <1>1, <1>2, <1>3 DEF KernelShapes
<1>5. UnitsHeld'
  <2>1. e \notin Holding'
    BY <1>2 DEF Holding
  <2> QED
    BY <1>1, <1>2, <2>1, UnitsKept
<1> QED
  BY <1>3, <1>4, <1>5

\* A call that goes on without an account or a reservation changing.
LEMMA KernelGoesOn ==
    ASSUME KernelInv, NEW e \in Execs, Admit(e) \/ RunPlan(e)
    PROVE  KernelInv'
<1> USE DEF KernelInv
<1>1. PICK st \in {"Enforcing", "RecordingEvidence"} :
        /\ status' = [status EXCEPT ![e] = st] /\ UNCHANGED <<result, pool, account, ledger, held, charged>>
        /\ result[e] = "running"
        /\ st = "RecordingEvidence" => status[e] = "Executing"
  <2>1. CASE Admit(e)
    BY <2>1 DEF Admit, Transit, Running
  <2>2. CASE RunPlan(e)
    BY <2>2 DEF RunPlan, Transit, Running
  <2> QED
    BY <2>1, <2>2
<1>2. /\ status' \in [Execs -> Status] /\ status'[e] = st /\ Elsewhere(e)
  BY <1>1 DEF KernelShapes, Elsewhere, Status
<1>3. KernelShapes'
  BY <1>1, <1>2 DEF KernelShapes
<1>4. PoolHeld'
  BY <1>1 DEF PoolHeld
<1>5. UnitsHeld'
  <2>1. e \in Holding' => e \in Holding
    BY <1>1, <1>2 DEF Holding
  <2> QED
    BY <1>1, <1>2, <2>1, UnitsKept
<1> QED
  BY <1>3, <1>4, <1>5

\* A reservation adds the call's need to the pool.
LEMMA KernelReserve ==
    ASSUME KernelInv, NEW e \in Execs, Reserve(e)
    PROVE  KernelInv'
<1> USE DEF KernelInv
<1>1. /\ result[e] = "running" /\ e \notin held
      /\ \A kind \in Kinds : pool[kind] + Need[e][kind] <= Limit[kind]
      /\ pool' = [kind \in Kinds |-> pool[kind] + Need[e][kind]]
      /\ held' = held \cup {e}
      /\ UNCHANGED <<status, result, account, ledger, charged>>
  BY DEF Reserve, Running
<1>2. ASSUME NEW kind \in Kinds
      PROVE  /\ pool'[kind] \in Nat /\ pool'[kind] = Total(NeedOf(kind), held')
             /\ pool'[kind] <= Limit[kind]
  <2>1. IsFiniteSet(held) /\ \A c \in held \cup {e} : NeedOf(kind)[c] \in Nat
    BY CallsFinite, KernelAmounts DEF KernelShapes
  <2>2. Total(NeedOf(kind), held \cup {e}) = Total(NeedOf(kind), held) + NeedOf(kind)[e]
    BY <1>1, <2>1, TotalAdd
  <2>3. pool[kind] = Total(NeedOf(kind), held) /\ pool[kind] \in Nat
    BY DEF PoolHeld, KernelShapes
  <2>4. NeedOf(kind)[e] = Need[e][kind] /\ Need[e][kind] \in Nat
    BY KernelAmounts
  <2> QED
    BY <1>1, <2>2, <2>3, <2>4
<1>3. pool' \in [Kinds -> Nat]
  BY <1>1, <1>2
<1>4. KernelShapes'
  BY <1>1, <1>3 DEF KernelShapes
<1>5. PoolHeld'
  BY <1>1, <1>2 DEF PoolHeld
<1>6. UnitsHeld'
  BY <1>1 DEF UnitsHeld, Holding
<1> QED
  BY <1>4, <1>5, <1>6

\* The call's units join the account, and the call those that hold some.
LEMMA KernelReserveBudget ==
    ASSUME KernelInv, NEW e \in Execs, ReserveBudget(e)
    PROVE  KernelInv'
<1> USE DEF KernelInv
<1>1. /\ result[e] = "running" /\ status[e] = "Enforcing"
      /\ account' = [account EXCEPT !.reserved = account.reserved + Units[e]]
      /\ status' = [status EXCEPT ![e] = "Executing"]
      /\ UNCHANGED <<result, pool, ledger, held, charged>>
  BY DEF ReserveBudget, Running, Transit
<1>2. status' \in [Execs -> Status] /\ status'[e] = "Executing" /\ Elsewhere(e)
  BY <1>1 DEF KernelShapes, Elsewhere, Status
<1>3. /\ account' \in [reserved : Nat, consumed : Nat] /\ account.reserved \in Nat
      /\ account'.reserved = account.reserved + Units[e] /\ Units[e] \in Nat
  BY <1>1, KernelAmounts DEF KernelShapes
<1>4. KernelShapes'
  BY <1>1, <1>2, <1>3 DEF KernelShapes
<1>5. PoolHeld'
  BY <1>1 DEF PoolHeld
<1>6. UnitsHeld'
  <2>1. e \notin Holding /\ Holding' = Holding \cup {e}
    BY <1>1, <1>2, HoldingMoves DEF Holding
  <2>2. IsFiniteSet(Holding) /\ \A c \in Holding \cup {e} : Units[c] \in Nat
    BY CallsFinite, KernelAmounts DEF Holding
  <2>3. Total(Units, Holding \cup {e}) = Total(Units, Holding) + Units[e]
    BY <2>1, <2>2, TotalAdd
  <2>4. Total(Units, Holding) \in Nat
    BY <2>2, TotalNat
  <2> SUFFICES ASSUME \A c \in charged : Cost[c] <= Units[c]
               PROVE  account'.reserved >= Total(Units, Holding')
    BY <1>1 DEF UnitsHeld
  <2>5. account.reserved >= Total(Units, Holding)
    BY DEF UnitsHeld
  <2> QED
    BY <1>3, <2>1, <2>3, <2>4, <2>5
<1> QED
  BY <1>4, <1>5, <1>6

\* An append writes one record and touches no account.
LEMMA KernelAppend ==
    ASSUME KernelInv, NEW e \in Execs, AppendEvidence(e)
    PROVE  KernelInv'
<1> USE DEF KernelInv
<1>1. PICK r : ledger' = Append(ledger, r) /\ r.out = e
  BY DEF AppendEvidence
<1>2. UNCHANGED <<status, result, pool, account, held, charged>>
  BY DEF AppendEvidence
<1>3. /\ Len(ledger) \in Nat /\ ledger \in Seq(ToSet(ledger) \cup {r})
      /\ \A i \in 1 .. Len(ledger) : ledger[i].out \in Execs
  BY DEF KernelShapes
<1>4. /\ ledger' \in Seq(ToSet(ledger) \cup {r}) /\ Len(ledger') = Len(ledger) + 1
      /\ \A i \in 1 .. Len(ledger) : ledger'[i] = ledger[i]
      /\ ledger'[Len(ledger) + 1] = r
  BY <1>1, <1>3, AppendProperties
<1>5. ledger' \in Seq(ToSet(ledger'))
  BY <1>4 DEF ToSet
<1>6. \A i \in 1 .. Len(ledger') : ledger'[i].out \in Execs
  <2> SUFFICES ASSUME NEW i \in 1 .. Len(ledger') PROVE ledger'[i].out \in Execs
    OBVIOUS
  <2>1. i \in 1 .. Len(ledger) \/ i = Len(ledger) + 1
    BY <1>3, <1>4
  <2> QED
    BY <1>1, <1>3, <1>4, <2>1
<1>7. Len(ledger') \in Nat
  BY <1>3, <1>4
<1>8. KernelShapes'
  BY <1>2, <1>5, <1>6, <1>7 DEF KernelShapes
<1>9. PoolHeld' /\ UnitsHeld'
  BY <1>2 DEF PoolHeld, UnitsHeld, Holding
<1> QED
  BY <1>8, <1>9

\* A call that consumes its cost stops holding units; at most as many leave the
\* account if the cost is within them.
LEMMA KernelConsume ==
    ASSUME KernelInv, NEW e \in Execs, Consume(e)
    PROVE  KernelInv'
<1> USE DEF KernelInv
<1>1. /\ result[e] = "running" /\ status[e] = "RecordingEvidence"
      /\ account.reserved >= Cost[e]
      /\ account' = [reserved |-> account.reserved - Cost[e],
                     consumed |-> account.consumed + Cost[e]]
      /\ charged' = charged \cup {e}
      /\ status' = [status EXCEPT ![e] = "Verifying"]
      /\ UNCHANGED <<result, pool, ledger, held>>
  BY DEF Consume, Running, Transit
<1>2. status' \in [Execs -> Status] /\ status'[e] = "Verifying" /\ Elsewhere(e)
  BY <1>1 DEF KernelShapes, Elsewhere, Status
<1>3. /\ account' \in [reserved : Nat, consumed : Nat] /\ account.reserved \in Nat
      /\ account'.reserved = account.reserved - Cost[e] /\ Cost[e] \in Nat /\ Units[e] \in Nat
  BY <1>1, KernelAmounts DEF KernelShapes
<1>4. KernelShapes'
  BY <1>1, <1>2, <1>3 DEF KernelShapes
<1>5. PoolHeld'
  BY <1>1 DEF PoolHeld
<1>6. UnitsHeld'
  <2> SUFFICES ASSUME \A c \in charged \cup {e} : Cost[c] <= Units[c]
               PROVE  account'.reserved >= Total(Units, Holding')
    BY <1>1 DEF UnitsHeld
  <2>1. e \in Holding /\ Holding' = Holding \ {e}
    BY <1>1, <1>2, HoldingMoves DEF Holding
  <2>2. IsFiniteSet(Holding) /\ \A c \in Holding : Units[c] \in Nat
    BY CallsFinite, KernelAmounts DEF Holding
  <2>3. Total(Units, Holding \ {e}) = Total(Units, Holding) - Units[e]
    BY <2>1, <2>2, TotalRemove
  <2>4. Total(Units, Holding) \in Nat
    BY <2>2, TotalNat
  <2>5. account.reserved >= Total(Units, Holding) /\ Cost[e] <= Units[e]
    BY DEF UnitsHeld
  <2> QED
    BY <1>3, <2>1, <2>3, <2>4, <2>5
<1> QED
  BY <1>4, <1>5, <1>6

\* Every critical section of execute preserves the invariant.
LEMMA KernelStepInv ==
    ASSUME KernelInv, [KernelNext]_kernelVars
    PROVE  KernelInv'
<1>1. ASSUME NEW e \in Execs, Step(e) PROVE KernelInv'
  <2>1. CASE \/ RejectAdmission(e) \/ RejectEnforcing(e) \/ RejectBudget(e) \/ RunFails(e)
             \/ AppendFails(e) \/ ConsumeFails(e) \/ Complete(e) \/ RollBack(e)
    <3>1. KernelShapes
      BY DEF KernelInv
    <3> QED
      BY <2>1, <3>1, StepExits, KernelExits
  <2>2. CASE \/ Admit(e) \/ RunPlan(e) \/ Reserve(e) \/ ReserveBudget(e)
             \/ AppendEvidence(e) \/ Consume(e)
    BY <2>2, KernelGoesOn, KernelReserve, KernelReserveBudget, KernelAppend, KernelConsume
  <2> QED
    BY <1>1, <2>1, <2>2 DEF Step
<1>2. CASE UNCHANGED kernelVars
  BY <1>2 DEF kernelVars, KernelInv, KernelShapes, PoolHeld, UnitsHeld, Holding
<1> QED
  BY <1>1, <1>2 DEF KernelNext

\* The inductive invariant holds of every run of the kernel.
THEOREM KernelInvariant == KernelSpec => []KernelInv
  BY KernelInitInv, KernelStepInv, PTL DEF KernelSpec

\* The invariant implies the types.
LEMMA KernelInvTypes == KernelInv => KernelTypeOK
<1> SUFFICES ASSUME KernelInv PROVE KernelTypeOK
  OBVIOUS
<1>1. DOMAIN ledger = 1 .. Len(ledger)
  BY DEF KernelInv, KernelShapes
<1> QED
  BY <1>1 DEF KernelInv, KernelShapes, KernelTypeOK

\* Machines, results, amounts and records of the kernel keep their types; no amount
\* goes below zero.
THEOREM KernelTypes == KernelSpec => []KernelTypeOK
  BY KernelInvariant, KernelInvTypes, PTL

\* For any calls, plans and limits: the resource pool is exactly what the running calls
\* hold and within its limit, and unless a call was charged more than its units each call
\* that has recorded its evidence finds its units on the account (KernelAccountsHeld).
THEOREM AccountsHeld == KernelSpec => []KernelAccountsHeld
<1>1. KernelInv => KernelAccountsHeld
  <2> SUFFICES ASSUME KernelInv PROVE KernelAccountsHeld
    OBVIOUS
  <2>1. PoolIsHeld
    BY DEF KernelInv, PoolHeld, PoolIsHeld, NeedOf
  <2>2. UnitsAreThere
    <3> SUFFICES ASSUME \A c \in charged : Cost[c] <= Units[c], NEW e \in Execs,
                        result[e] = "running", status[e] = "RecordingEvidence",
                        Cost[e] <= Units[e]
                 PROVE  account.reserved >= Cost[e]
      BY DEF UnitsAreThere
    <3>1. e \in Holding
      BY DEF Holding
    <3>2. IsFiniteSet(Holding) /\ \A c \in Holding : Units[c] \in Nat
      BY CallsFinite, KernelAmounts DEF Holding
    <3>3. Units[e] <= Total(Units, Holding)
      BY <3>1, <3>2, TotalRemove
    <3>4. /\ Total(Units, Holding) \in Nat /\ account.reserved \in Nat
          /\ Cost[e] \in Nat /\ Units[e] \in Nat
      BY <3>2, TotalNat, KernelAmounts DEF KernelInv, KernelShapes
    <3>5. account.reserved >= Total(Units, Holding)
      BY DEF KernelInv, UnitsHeld
    <3> QED
      BY <3>3, <3>4, <3>5
  <2> QED
    BY <2>1, <2>2 DEF KernelAccountsHeld
<1> QED
  BY <1>1, KernelInvariant, PTL

-----------------------------------------------------------------------------
(* The order of the drain *)

\* Of the steps in `left`, i is the one with the highest priority and of those the oldest.
IsNext(prio, left, i) ==
    \A j \in left : prio[i] > prio[j] \/ (prio[i] = prio[j] /\ i <= j)

\* Every choice among the first n steps has one.
NextUpTo(prio, n) ==
    \A L \in SUBSET DOMAIN prio :
        L # {} /\ (\A j \in L : j <= n) => \E i \in L : IsNext(prio, L, i)

\* The priorities of a plan's steps.
Prio(plan) == [i \in DOMAIN plan |-> plan[i].prio]

\* There is one as long as a step is left: the best of those before the last, or the last.
LEMMA NextExists ==
    ASSUME NEW N \in Nat, NEW prio \in [1 .. N -> Nat], NEW left \in SUBSET (1 .. N), left # {}
    PROVE  \E i \in left : IsNext(prio, left, i)
<1> DEFINE P == {n \in Nat : NextUpTo(prio, n)}
<1>1. NextUpTo(prio, 0)
  <2>1. \A j \in DOMAIN prio : ~(j <= 0)
    OBVIOUS
  <2> QED
    BY <2>1 DEF NextUpTo
<1>2. ASSUME NEW n \in Nat, NextUpTo(prio, n) PROVE NextUpTo(prio, n + 1)
  <2> SUFFICES ASSUME NEW L \in SUBSET (1 .. N), L # {}, \A j \in L : j <= n + 1
               PROVE  \E i \in L : IsNext(prio, L, i)
    BY DEF NextUpTo
  <2>m. PICK M : M = L \ {n + 1}
    OBVIOUS
  <2>1. M \in SUBSET DOMAIN prio /\ \A j \in M : j <= n /\ prio[j] \in Nat
    BY <2>m
  <2>2. CASE n + 1 \notin L
    BY <1>2, <2>1, <2>2, <2>m DEF NextUpTo
  <2>3. CASE L = {n + 1}
    BY <2>3 DEF IsNext
  <2>4. CASE n + 1 \in L /\ M # {}
    <3>1. PICK b \in M : IsNext(prio, M, b)
      BY <1>2, <2>1, <2>4 DEF NextUpTo
    <3>2. b \in L /\ b <= n /\ b \in Nat /\ prio[b] \in Nat /\ prio[n + 1] \in Nat
      BY <2>1, <2>4, <2>m
    <3>3. \A j \in M : prio[j] \in Nat /\ j \in Nat /\ j <= n
      BY <2>1, <2>m
    <3>4. CASE prio[b] >= prio[n + 1]
      <4>1. IsNext(prio, L, b)
        BY <2>m, <3>1, <3>2, <3>3, <3>4 DEF IsNext
      <4> QED
        BY <3>2, <4>1
    <3>5. CASE prio[b] < prio[n + 1]
      <4>1. IsNext(prio, L, n + 1)
        <5>1. \A j \in M : prio[b] >= prio[j]
          BY <3>1, <3>2, <3>3 DEF IsNext
        <5>2. \A j \in M : prio[n + 1] > prio[j]
          BY <3>2, <3>3, <3>5, <5>1
        <5> QED
          BY <2>m, <3>2, <5>2 DEF IsNext
      <4> QED
        BY <2>4, <4>1
    <3> QED
      BY <3>2, <3>4, <3>5
  <2> QED
    BY <2>2, <2>3, <2>4, <2>m
<1>3. \A n \in Nat : n \in P
  <2>1. 0 \in P /\ \A n \in Nat : n \in P => n + 1 \in P
    BY <1>1, <1>2
  <2> HIDE DEF P
  <2> QED
    BY <2>1, SetInduction
<1>4. NextUpTo(prio, N)
  BY <1>3
<1> QED
  BY <1>4 DEF NextUpTo

\* `dequeue` takes a step that is left, and the one whose turn it is.
LEMMA DequeueNext ==
    ASSUME NEW plan \in Seq([cost : Nat, prio : Nat]), NEW left \in SUBSET DOMAIN plan, left # {}
    PROVE  Dequeue(plan, left) \in left /\ IsNext(Prio(plan), left, Dequeue(plan, left))
<1>1. DOMAIN plan = 1 .. Len(plan) /\ Len(plan) \in Nat
  OBVIOUS
<1>2. \A i \in 1 .. Len(plan) : plan[i] \in [cost : Nat, prio : Nat]
  BY <1>1, ElementOfSeq
<1>3. Prio(plan) \in [1 .. Len(plan) -> Nat]
  BY <1>1, <1>2 DEF Prio
<1>4. PICK b \in left : IsNext(Prio(plan), left, b)
  BY <1>1, <1>3, NextExists
<1>5. \A i, j \in left :
        (\/ plan[i].prio > plan[j].prio
         \/ plan[i].prio = plan[j].prio /\ i <= j)
        <=> (Prio(plan)[i] > Prio(plan)[j] \/ (Prio(plan)[i] = Prio(plan)[j] /\ i <= j))
  BY DEF Prio
<1> QED
  BY <1>4, <1>5 DEF Dequeue, IsNext

\* f lists what is drained after each of the first n steps.
DrainTo(plan, n, f) ==
    f = [k \in 0 .. n |->
            IF k = 0 THEN <<>>
            ELSE Append(f[k - 1], Dequeue(plan, DOMAIN plan \ ToSet(f[k - 1])))]

\* The drain of a plan is the last of such a list.
LEMMA OrderDef ==
    ASSUME NEW plan
    PROVE  Order(plan) = (CHOOSE f : DrainTo(plan, Len(plan), f))[Len(plan)]
  BY DEF Order, DrainTo

\* There is one, for every number of steps.
LEMMA DrainExists == ASSUME NEW plan PROVE \A n \in Nat : \E f : DrainTo(plan, n, f)
<1> DEFINE P == {n \in Nat : \E f : DrainTo(plan, n, f)}
<1>1. 0 \in P
  <2>1. DrainTo(plan, 0, [k \in 0 .. 0 |-> <<>>])
    BY DEF DrainTo
  <2> QED
    BY <2>1
<1>2. ASSUME NEW n \in Nat, n \in P PROVE n + 1 \in P
  <2>1. PICK f : DrainTo(plan, n, f)
    BY <1>2
  <2>2. PICK x : x = Append(f[n], Dequeue(plan, DOMAIN plan \ ToSet(f[n])))
    OBVIOUS
  <2>3. PICK g : g = [k \in 0 .. n + 1 |-> IF k <= n THEN f[k] ELSE x]
    OBVIOUS
  <2>4. g[n] = f[n] /\ g[n + 1] = x /\ \A k \in 0 .. n : g[k] = f[k]
    BY <2>3
  <2>5. \A k \in 0 .. n : k # 0 => g[k - 1] = f[k - 1]
    BY <2>4
  <2>6. \A k \in 0 .. n :
          g[k] = IF k = 0 THEN <<>>
                 ELSE Append(g[k - 1], Dequeue(plan, DOMAIN plan \ ToSet(g[k - 1])))
    BY <2>1, <2>4, <2>5 DEF DrainTo
  <2>7. \A k \in 0 .. n + 1 :
          g[k] = IF k = 0 THEN <<>>
                 ELSE Append(g[k - 1], Dequeue(plan, DOMAIN plan \ ToSet(g[k - 1])))
    <3> SUFFICES ASSUME NEW k \in 0 .. n + 1
                 PROVE  g[k] = IF k = 0 THEN <<>>
                               ELSE Append(g[k - 1], Dequeue(plan, DOMAIN plan \ ToSet(g[k - 1])))
      OBVIOUS
    <3>1. k \in 0 .. n \/ (k = n + 1 /\ k # 0 /\ k - 1 = n)
      OBVIOUS
    <3> QED
      BY <2>2, <2>4, <2>6, <3>1
  <2>8. DrainTo(plan, n + 1, g)
    BY <2>3, <2>7 DEF DrainTo
  <2> QED
    BY <2>8
<1> HIDE DEF P
<1>3. \A n \in Nat : n \in P
  BY <1>1, <1>2, SetInduction
<1> QED
  BY <1>3 DEF P

\* s drains k steps of the plan: no step twice, and each the next of those left.
Drains(plan, k, s) ==
    /\ s \in Seq(DOMAIN plan) /\ Len(s) = k
    /\ \A i, j \in 1 .. k : s[i] = s[j] => i = j
    /\ \A i \in 1 .. k : IsNext(Prio(plan), DOMAIN plan \ {s[j] : j \in 1 .. i - 1}, s[i])

\* As long as fewer than all are drained, one more is.
LEMMA DrainsOneMore ==
    ASSUME NEW plan \in Seq([cost : Nat, prio : Nat]), NEW k \in Nat, k < Len(plan),
           NEW s, Drains(plan, k, s)
    PROVE  Drains(plan, k + 1, Append(s, Dequeue(plan, DOMAIN plan \ ToSet(s))))
<1> DEFINE left == DOMAIN plan \ ToSet(s)
<1>1. DOMAIN plan = 1 .. Len(plan) /\ Len(plan) \in Nat
  OBVIOUS
<1>a. s \in Seq(DOMAIN plan) /\ Len(s) = k
  BY DEF Drains
<1>b. PICK D : D = DOMAIN plan
  OBVIOUS
<1>c. s \in Seq(D)
  BY <1>a, <1>b
<1>e. DOMAIN s = 1 .. k /\ s \in [1 .. k -> D]
  BY <1>a, <1>c
<1>2. s \in [1 .. k -> 1 .. Len(plan)] /\ DOMAIN s = 1 .. k
  BY <1>1, <1>b, <1>e
<1>3. left # {}
  <2> SUFFICES ASSUME left = {} PROVE FALSE
    OBVIOUS
  <2>1. \A i \in 1 .. Len(plan) : \E j \in 1 .. k : s[j] = i
    BY <1>1, <1>2 DEF ToSet
  <2>2. s \in Surjection(1 .. k, 1 .. Len(plan))
    BY <1>2, <2>1 DEF Surjection
  <2>3. 1 \in Int /\ k \in Int /\ Len(plan) \in Int /\ 1 <= Len(plan)
    BY <1>1
  <2>4. /\ IsFiniteSet(1 .. k) /\ Cardinality(1 .. k) = k
        /\ Cardinality(1 .. Len(plan)) = Len(plan)
    <3>1. Cardinality(1 .. k) = IF 1 > k THEN 0 ELSE k - 1 + 1
      BY <2>3, FS_Interval
    <3>2. Cardinality(1 .. Len(plan)) = IF 1 > Len(plan) THEN 0 ELSE Len(plan) - 1 + 1
      BY <2>3, FS_Interval
    <3>3. IsFiniteSet(1 .. k)
      BY <2>3, FS_Interval
    <3> QED
      BY <2>3, <3>1, <3>2, <3>3
  <2>5. Cardinality(1 .. Len(plan)) <= Cardinality(1 .. k)
    BY <2>2, <2>4, FS_Surjection
  <2> QED
    BY <1>1, <2>4, <2>5
<1>4. PICK d : d = Dequeue(plan, left)
  OBVIOUS
<1>5. d \in left /\ IsNext(Prio(plan), left, d)
  BY <1>3, <1>4, DequeueNext
<1>6. PICK t : t = Append(s, d)
  OBVIOUS
<1>7. /\ t \in Seq(DOMAIN plan) /\ Len(t) = k + 1
      /\ \A i \in 1 .. k : t[i] = s[i]
      /\ t[k + 1] = d
  <2>1. s \in Seq(D) /\ Len(s) = k /\ d \in D
    BY <1>a, <1>b, <1>c, <1>5
  <2>2. t \in Seq(D) /\ Len(t) = k + 1 /\ (\A i \in 1 .. k : t[i] = s[i]) /\ t[k + 1] = d
    BY <1>6, <2>1, AppendProperties
  <2> QED
    BY <1>b, <2>2
<1>8. \A i \in 1 .. k + 1 : i \in 1 .. k \/ i = k + 1
  OBVIOUS
<1>9. \A i \in 1 .. k : s[i] # d
  BY <1>2, <1>5 DEF ToSet
<1>n. \A i, j \in 1 .. k : s[i] = s[j] => i = j
  BY DEF Drains
<1>10. \A i, j \in 1 .. k + 1 : t[i] = t[j] => i = j
  BY <1>7, <1>8, <1>9, <1>n
<1>11. ASSUME NEW i \in 1 .. k + 1
       PROVE  IsNext(Prio(plan), DOMAIN plan \ {t[j] : j \in 1 .. i - 1}, t[i])
  <2>1. \A j \in 1 .. i - 1 : j \in 1 .. k
    OBVIOUS
  <2>2. {t[j] : j \in 1 .. i - 1} = {s[j] : j \in 1 .. i - 1}
    BY <1>7, <2>1
  <2>3. CASE i \in 1 .. k
    BY <1>7, <2>2, <2>3 DEF Drains
  <2>4. CASE i = k + 1
    <3>1. {s[j] : j \in 1 .. i - 1} = ToSet(s)
      <4>1. i - 1 = k
        BY <2>4
      <4> QED
        BY <1>2, <4>1 DEF ToSet
    <3> QED
      BY <1>5, <1>7, <2>2, <2>4, <3>1
  <2> QED
    BY <1>8, <2>3, <2>4
<1> HIDE DEF left
<1>12. Drains(plan, k + 1, t)
  BY <1>7, <1>10, <1>11 DEF Drains
<1> QED
  BY <1>4, <1>6, <1>12 DEF left

\* The order of a plan drains all of it.
LEMMA OrderDrains ==
    ASSUME NEW plan \in Seq([cost : Nat, prio : Nat])
    PROVE  Drains(plan, Len(plan), Order(plan))
<1>1. Len(plan) \in Nat
  OBVIOUS
<1>2. PICK f : f = CHOOSE h : DrainTo(plan, Len(plan), h)
  OBVIOUS
<1>3. DrainTo(plan, Len(plan), f) /\ Order(plan) = f[Len(plan)]
  BY <1>1, <1>2, DrainExists, OrderDef
<1> DEFINE P == {k \in Nat : k <= Len(plan) => Drains(plan, k, f[k])}
<1>4. 0 \in P
  <2>1. f[0] = <<>>
    BY <1>1, <1>3 DEF DrainTo
  <2>2. <<>> \in Seq(DOMAIN plan) /\ Len(<<>>) = 0
    OBVIOUS
  <2>3. 1 .. 0 = {}
    OBVIOUS
  <2>4. Drains(plan, 0, <<>>)
    BY <2>2, <2>3, Zenon DEF Drains
  <2> QED
    BY <2>1, <2>4
<1>5. ASSUME NEW k \in Nat, k \in P PROVE k + 1 \in P
  <2> SUFFICES ASSUME k + 1 <= Len(plan) PROVE Drains(plan, k + 1, f[k + 1])
    OBVIOUS
  <2>1. k < Len(plan) /\ Drains(plan, k, f[k])
    BY <1>1, <1>5
  <2>2. k + 1 \in 0 .. Len(plan) /\ k + 1 # 0 /\ (k + 1) - 1 = k
    BY <1>1
  <2>3. f[k + 1] = Append(f[(k + 1) - 1], Dequeue(plan, DOMAIN plan \ ToSet(f[(k + 1) - 1])))
    BY <1>3, <2>2 DEF DrainTo
  <2>4. f[k + 1] = Append(f[k], Dequeue(plan, DOMAIN plan \ ToSet(f[k])))
    BY <2>2, <2>3
  <2> QED
    BY <2>1, <2>4, DrainsOneMore
<1> HIDE DEF P
<1>6. \A k \in Nat : k \in P
  BY <1>4, <1>5, SetInduction
<1> QED
  BY <1>1, <1>3, <1>6 DEF P

\* For every plan: the drain executes each step exactly once, higher priorities first and
\* steps of one priority in the order of the plan.
THEOREM DrainByPriority ==
    ASSUME NEW plan \in Seq([cost : Nat, prio : Nat])
    PROVE  /\ Order(plan) \in Seq(DOMAIN plan) /\ Len(Order(plan)) = Len(plan)
           /\ \A i \in DOMAIN plan : \E k \in 1 .. Len(plan) : Order(plan)[k] = i
           /\ \A j, k \in 1 .. Len(plan) :
                j < k => LET a == Order(plan)[j]
                             b == Order(plan)[k]
                         IN \/ plan[a].prio > plan[b].prio
                            \/ plan[a].prio = plan[b].prio /\ a < b
<1>1. DOMAIN plan = 1 .. Len(plan) /\ Len(plan) \in Nat
  OBVIOUS
<1>2. PICK o : o = Order(plan)
  OBVIOUS
<1>3. Drains(plan, Len(plan), o)
  BY <1>2, OrderDrains
<1>4. o \in Seq(DOMAIN plan) /\ Len(o) = Len(plan) /\ o \in [1 .. Len(plan) -> 1 .. Len(plan)]
  <2>1. o \in Seq(DOMAIN plan) /\ Len(o) = Len(plan)
    BY <1>3 DEF Drains
  <2> QED
    BY <1>1, <2>1
<1>5. \A i \in DOMAIN plan : \E k \in 1 .. Len(plan) : o[k] = i
  <2>1. o \in Injection(1 .. Len(plan), 1 .. Len(plan))
    BY <1>3, <1>4 DEF Drains, Injection, IsInjective
  <2>2. IsFiniteSet(1 .. Len(plan))
    BY <1>1, FS_Interval
  <2>3. o \in Surjection(1 .. Len(plan), 1 .. Len(plan))
    BY <2>1, <2>2, FS_Injection
  <2> QED
    BY <1>1, <2>3 DEF Surjection
<1>6. ASSUME NEW j \in 1 .. Len(plan), NEW k \in 1 .. Len(plan), j < k
      PROVE  \/ plan[o[j]].prio > plan[o[k]].prio
             \/ plan[o[j]].prio = plan[o[k]].prio /\ o[j] < o[k]
  <2>1. o[j] \in DOMAIN plan /\ o[k] \in DOMAIN plan /\ o[j] # o[k] /\ o[j] \in Nat /\ o[k] \in Nat
    <3>1. \A i, l \in 1 .. Len(plan) : o[i] = o[l] => i = l
      BY <1>3 DEF Drains
    <3>2. o[j] \in 1 .. Len(plan) /\ o[k] \in 1 .. Len(plan)
      BY <1>4
    <3>3. j # k
      BY <1>6
    <3>4. o[j] # o[k]
      BY <3>1, <3>3
    <3> QED
      BY <1>1, <3>2, <3>4
  <2>2. \A i \in 1 .. j - 1 : i \in 1 .. Len(plan) /\ i # k
    BY <1>1, <1>6
  <2>3. o[k] \in DOMAIN plan \ {o[i] : i \in 1 .. j - 1}
    <3>1. \A i \in 1 .. Len(plan) : o[i] = o[k] => i = k
      BY <1>3 DEF Drains
    <3> QED
      BY <2>1, <2>2, <3>1
  <2>4. \/ Prio(plan)[o[j]] > Prio(plan)[o[k]]
        \/ Prio(plan)[o[j]] = Prio(plan)[o[k]] /\ o[j] <= o[k]
    <3>1. IsNext(Prio(plan), DOMAIN plan \ {o[i] : i \in 1 .. j - 1}, o[j])
      BY <1>3 DEF Drains
    <3> QED
      BY <2>3, <3>1 DEF IsNext
  <2>5. Prio(plan)[o[j]] = plan[o[j]].prio /\ Prio(plan)[o[k]] = plan[o[k]].prio
    BY <2>1 DEF Prio
  <2> QED
    BY <2>1, <2>4, <2>5
<1> QED
  BY <1>2, <1>4, <1>5, <1>6

-----------------------------------------------------------------------------
(* Selecting from a sequence *)

\* p lists the m positions `at`, in their order.
Lists(p, m, at) ==
    /\ p \in [1 .. m -> at]
    /\ \A i, j \in 1 .. m : i < j => p[i] < p[j]
    /\ \A x \in at : \E i \in 1 .. m : p[i] = x

\* What is at the positions p lists.
Picked(s, p, m) == [k \in 1 .. m |-> s[p[k]]]

\* What Kept selects at the values of an increasing p is what p lists.
LEMMA KeptIs ==
    ASSUME NEW N \in Nat, NEW at \in SUBSET (1 .. N), NEW m \in Nat, NEW p, Lists(p, m, at),
           NEW s
    PROVE  Kept(s, at) = Picked(s, p, m)
<1> DEFINE upTo(x) == {y \in at : y <= x}
<1>a. p \in [1 .. m -> at]
  BY DEF Lists
<1>b. \A i, j \in 1 .. m : i < j => p[i] < p[j]
  BY DEF Lists
<1>c. \A x \in at : \E i \in 1 .. m : p[i] = x
  BY DEF Lists
<1>0. \A i \in 1 .. m : p[i] \in at /\ p[i] \in Nat
  <2>1. at \subseteq Nat
    OBVIOUS
  <2> QED
    BY <1>a, <2>1
<1>1. ASSUME NEW k \in 0 .. m, NEW T, \A x : x \in T <=> \E i \in 1 .. k : x = p[i]
      PROVE  Cardinality(T) = k
  <2>1. PICK f : f = [i \in 1 .. k |-> p[i]]
    OBVIOUS
  <2>2. f \in [1 .. k -> T] /\ \A i \in 1 .. k : f[i] = p[i]
    BY <1>1, <2>1
  <2>3. \A i, j \in 1 .. k : f[i] = f[j] => i = j
    <3> SUFFICES ASSUME NEW i \in 1 .. k, NEW j \in 1 .. k, f[i] = f[j], i # j PROVE FALSE
      OBVIOUS
    <3>1. p[i] = p[j] /\ i \in 1 .. m /\ j \in 1 .. m /\ (i < j \/ j < i)
      BY <2>2
    <3> QED
      BY <1>0, <1>b, <3>1
  <2>4. f \in Bijection(1 .. k, T)
    <3>1. \A t \in T : \E i \in 1 .. k : f[i] = t
      BY <1>1, <2>2
    <3> QED
      BY <2>2, <2>3, <3>1 DEF Bijection, Injection, Surjection, IsInjective
  <2>5. IsFiniteSet(1 .. k) /\ Cardinality(1 .. k) = k
    <3>1. 1 \in Int /\ k \in Int
      OBVIOUS
    <3>2. Cardinality(1 .. k) = IF 1 > k THEN 0 ELSE k - 1 + 1
      BY <3>1, FS_Interval
    <3> QED
      BY <3>1, <3>2, FS_Interval
  <2> QED
    BY <2>4, <2>5, FS_Bijection DEF ExistsBijection
<1>2. Cardinality(at) = m
  <2>1. \A x : x \in at <=> \E i \in 1 .. m : x = p[i]
    BY <1>0, <1>c
  <2> QED
    BY <1>1, <2>1
<1>3. ASSUME NEW k \in 1 .. m PROVE Cardinality(upTo(p[k])) = k
  <2>1. \A i \in 1 .. m : p[i] <= p[k] <=> i <= k
    <3> SUFFICES ASSUME NEW i \in 1 .. m PROVE p[i] <= p[k] <=> i <= k
      OBVIOUS
    <3>1. i < k \/ i = k \/ k < i
      OBVIOUS
    <3> QED
      BY <1>0, <1>b, <3>1
  <2>2. \A x : x \in upTo(p[k]) <=> \E i \in 1 .. k : x = p[i]
    <3> SUFFICES ASSUME NEW x PROVE x \in upTo(p[k]) <=> \E i \in 1 .. k : x = p[i]
      OBVIOUS
    <3>1. \A i \in 1 .. k : i \in 1 .. m /\ i <= k
      OBVIOUS
    <3>2. \A i \in 1 .. m : i <= k => i \in 1 .. k
      OBVIOUS
    <3> QED
      BY <1>0, <1>c, <2>1, <3>1, <3>2
  <2> HIDE DEF upTo
  <2> QED
    BY <1>1, <2>2
<1>4. ASSUME NEW k \in 1 .. m
      PROVE  (CHOOSE i \in at : Cardinality({j \in at : j <= i}) = k) = p[k]
  <2>1. p[k] \in at /\ Cardinality(upTo(p[k])) = k
    BY <1>0, <1>3
  <2>2. ASSUME NEW i \in at, Cardinality(upTo(i)) = k PROVE i = p[k]
    <3>1. PICK l \in 1 .. m : p[l] = i
      BY <1>c
    <3>2. Cardinality(upTo(p[l])) = l
      BY <1>3
    <3> QED
      BY <2>2, <3>1, <3>2
  <2> QED
    BY <2>1, <2>2
<1>5. Kept(s, at) = [k \in 1 .. m |-> s[CHOOSE i \in at : Cardinality({j \in at : j <= i}) = k]]
  BY <1>2 DEF Kept
<1> QED
  BY <1>4, <1>5 DEF Picked

-----------------------------------------------------------------------------
(* The records of a call, and their replay *)

\* What a call records: the admission context, then its steps in the order of the drain.
Recorded(e) == <<0>> \o Order(Plan[e])

\* The hash after the first k of them.
Chain(e, k) == [i \in 1 .. k |-> <<Recorded(e)[i], e>>]

\* The k-th record of a call.
Record(e, k) ==
    [id |-> ExecId[e], step |-> Recorded(e)[k], out |-> e,
     prev |-> Chain(e, k - 1), hash |-> Chain(e, k)]

\* The step 0 is the context only.
LEMMA RecordedSteps ==
    ASSUME NEW e \in Execs
    PROVE  /\ Recorded(e) \in Seq(Nat) /\ Len(Recorded(e)) = Len(Order(Plan[e])) + 1
           /\ Len(Order(Plan[e])) \in Nat /\ Order(Plan[e]) \in Seq(Nat)
           /\ Recorded(e)[1] = 0
           /\ \A i \in 1 .. Len(Order(Plan[e])) :
                Recorded(e)[i + 1] = Order(Plan[e])[i] /\ Order(Plan[e])[i] # 0
<1>1. Plan[e] \in Seq([cost : Nat, prio : Nat])
  BY KernelConstants
<1>2. DOMAIN Plan[e] = 1 .. Len(Plan[e]) /\ Len(Plan[e]) \in Nat
  BY <1>1
<1>3. PICK o : o = Order(Plan[e])
  OBVIOUS
<1>4. o \in Seq(1 .. Len(Plan[e]))
  BY <1>1, <1>2, <1>3, DrainByPriority
<1>5. /\ o \in Seq(Nat) /\ Len(o) \in Nat
      /\ \A i \in 1 .. Len(o) : o[i] \in 1 .. Len(Plan[e])
  BY <1>4, ElementOfSeq
<1>6. <<0>> \in Seq(Nat) /\ Len(<<0>>) = 1 /\ <<0>>[1] = 0
  OBVIOUS
<1>7. /\ <<0>> \o o \in Seq(Nat) /\ Len(<<0>> \o o) = Len(o) + 1
      /\ (<<0>> \o o)[1] = 0
      /\ \A i \in 1 .. Len(o) : (<<0>> \o o)[i + 1] = o[i]
  BY <1>5, <1>6
<1>8. \A i \in 1 .. Len(o) : o[i] # 0
  BY <1>5
<1> QED
  BY <1>3, <1>5, <1>7, <1>8 DEF Recorded

\* Chains of different lengths are different hashes; the empty one is "genesis".
LEMMA ChainsDiffer ==
    ASSUME NEW e
    PROVE  /\ Chain(e, 0) = Genesis
           /\ \A a, b \in Nat : Chain(e, a) = Chain(e, b) => a = b
<1>1. Chain(e, 0) = Genesis
  <2>1. 1 .. 0 = {}
    OBVIOUS
  <2>2. Chain(e, 0) = [i \in {} |-> <<Recorded(e)[i], e>>]
    BY <2>1 DEF Chain
  <2>3. <<>> = [i \in {} |-> <<Recorded(e)[i], e>>]
    OBVIOUS
  <2> QED
    BY <2>2, <2>3 DEF Genesis
<1>2. ASSUME NEW a \in Nat, NEW b \in Nat, Chain(e, a) = Chain(e, b) PROVE a = b
  <2>1. DOMAIN Chain(e, a) = 1 .. a /\ DOMAIN Chain(e, b) = 1 .. b
    BY DEF Chain
  <2>2. 1 .. a = 1 .. b
    BY <1>2, <2>1
  <2> QED
    BY <2>2
<1> QED
  BY <1>1, <1>2

\* Where the walk is after n records, when f lists where it was before.
WalkStep(events, f, n) ==
    IF n = 0 THEN [at |-> Genesis, seen |-> <<>>]
    ELSE LET s == f[n - 1]
             next == ByPrevHash(events, s.at)
         IN IF next = {} THEN s
            ELSE LET i == CHOOSE i \in next : TRUE
                 IN [at |-> events[i].hash, seen |-> Append(s.seen, events[i])]

\* f lists the states of the walk.
WalkTo(events, f) == f = [n \in 0 .. Len(events) |-> WalkStep(events, f, n)]

\* The walk is what the last of them has seen.
LEMMA WalkDef ==
    ASSUME NEW events
    PROVE  Walk(events) = (CHOOSE f : WalkTo(events, f))[Len(events)].seen
  BY DEF Walk, WalkTo, WalkStep

\* The records of a call, one after the other and nothing else.
IsEvidence(e, n, events) ==
    events \in Seq(ToSet(events)) /\ Len(events) = n /\ \A k \in 1 .. n : events[k] = Record(e, k)

\* A record's successor is found by its prev_hash, and it is the only one.
LEMMA NextRecord ==
    ASSUME NEW e \in Execs, NEW n \in Nat, NEW events, IsEvidence(e, n, events), NEW k \in 0 .. n
    PROVE  ByPrevHash(events, Chain(e, k)) = IF k = n THEN {} ELSE {k + 1}
<1>1. DOMAIN events = 1 .. n
  BY DEF IsEvidence
<1>2. \A i \in 1 .. n : events[i].prev = Chain(e, i - 1)
  BY DEF IsEvidence, Record
<1>3. \A i \in 1 .. n : events[i].prev = Chain(e, k) <=> i = k + 1
  <2> SUFFICES ASSUME NEW i \in 1 .. n PROVE events[i].prev = Chain(e, k) <=> i = k + 1
    OBVIOUS
  <2>1. i - 1 \in Nat /\ k \in Nat
    OBVIOUS
  <2>2. Chain(e, i - 1) = Chain(e, k) => i - 1 = k
    BY <2>1, ChainsDiffer
  <2>3. i = k + 1 => i - 1 = k
    OBVIOUS
  <2> QED
    BY <1>2, <2>1, <2>2, <2>3
<1>4. ByPrevHash(events, Chain(e, k)) = {i \in 1 .. n : i = k + 1}
  BY <1>1, <1>3 DEF ByPrevHash
<1> QED
  BY <1>4

\* The hash of a record is the chain that ends with it.
LEMMA ChainGrows ==
    ASSUME NEW e, NEW k \in Nat
    PROVE  Hash(Recorded(e)[k + 1], e, Chain(e, k)) = Chain(e, k + 1)
<1>1. PICK h : h = [i \in 1 .. k + 1 |-> <<Recorded(e)[i], e>>]
  OBVIOUS
<1>2. Chain(e, k) = [i \in 1 .. k |-> h[i]] /\ h[k + 1] = <<Recorded(e)[k + 1], e>>
  BY <1>1 DEF Chain
<1>3. Append([i \in 1 .. k |-> h[i]], h[k + 1]) = [i \in 1 .. k + 1 |-> h[i]]
  OBVIOUS
<1> QED
  BY <1>1, <1>2, <1>3 DEF Hash, Chain

\* A list of the walk's states exists for every length: it walks the records in order.
LEMMA WalkExists ==
    ASSUME NEW e \in Execs, NEW n \in Nat, NEW events, IsEvidence(e, n, events)
    PROVE  WalkTo(events, [k \in 0 .. n |-> [at |-> Chain(e, k), seen |-> [i \in 1 .. k |-> events[i]]]])
<1>1. PICK g : g = [k \in 0 .. n |-> [at |-> Chain(e, k), seen |-> [i \in 1 .. k |-> events[i]]]]
  OBVIOUS
<1>2. Len(events) = n
  BY DEF IsEvidence
<1>3. ASSUME NEW k \in 0 .. n PROVE g[k] = WalkStep(events, g, k)
  <2>1. CASE k = 0
    <3>1. [i \in 1 .. 0 |-> events[i]] = <<>>
      OBVIOUS
    <3> QED
      BY <1>1, <2>1, <3>1, ChainsDiffer DEF WalkStep
  <2>2. CASE k # 0
    <3>1. k - 1 \in 0 .. n /\ k - 1 # n /\ (k - 1) + 1 = k /\ k \in 1 .. n
      BY <2>2
    <3>2. g[k - 1].at = Chain(e, k - 1) /\ g[k - 1].seen = [i \in 1 .. k - 1 |-> events[i]]
      BY <1>1, <3>1
    <3>3. ByPrevHash(events, g[k - 1].at) = {k}
      BY <3>1, <3>2, NextRecord
    <3>4. (CHOOSE i \in {k} : TRUE) = k
      OBVIOUS
    <3>5. events[k].hash = Chain(e, k)
      BY <3>1 DEF IsEvidence, Record
    <3>6. Append([i \in 1 .. k - 1 |-> events[i]], events[k]) = [i \in 1 .. k |-> events[i]]
      BY <3>1
    <3>7. g[k] = [at |-> Chain(e, k), seen |-> [i \in 1 .. k |-> events[i]]]
      BY <1>1
    <3> QED
      BY <2>2, <3>2, <3>3, <3>4, <3>5, <3>6, <3>7 DEF WalkStep
  <2> QED
    BY <2>1, <2>2
<1>4. g = [k \in 0 .. n |-> g[k]]
  BY <1>1
<1>5. g = [k \in 0 .. n |-> WalkStep(events, g, k)]
  BY <1>3, <1>4
<1> QED
  BY <1>1, <1>2, <1>5 DEF WalkTo

\* It is the only one.
LEMMA WalkUnique ==
    ASSUME NEW events, Len(events) \in Nat, NEW f, WalkTo(events, f), NEW g, WalkTo(events, g)
    PROVE  f = g
<1> DEFINE P == {k \in Nat : k <= Len(events) => f[k] = g[k]}
<1>1. 0 \in P
  <2>1. f[0] = [at |-> Genesis, seen |-> <<>>] /\ g[0] = [at |-> Genesis, seen |-> <<>>]
    BY DEF WalkTo
  <2> QED
    BY <2>1
<1>2. ASSUME NEW k \in Nat, k \in P PROVE k + 1 \in P
  <2> SUFFICES ASSUME k + 1 <= Len(events) PROVE f[k + 1] = g[k + 1]
    OBVIOUS
  <2>1. f[k] = g[k]
    BY <1>2
  <2>2. k + 1 \in 0 .. Len(events) /\ k + 1 # 0 /\ (k + 1) - 1 = k
    OBVIOUS
  <2>3. f[k + 1] = WalkStep(events, f, k + 1) /\ g[k + 1] = WalkStep(events, g, k + 1)
    BY <2>2 DEF WalkTo
  <2>4. WalkStep(events, f, k + 1) = WalkStep(events, g, k + 1)
    BY <2>1, <2>2 DEF WalkStep
  <2> QED
    BY <2>3, <2>4
<1> HIDE DEF P
<1>3. \A k \in Nat : k \in P
  BY <1>1, <1>2, SetInduction
<1>4. \A k \in 0 .. Len(events) : f[k] = g[k]
  BY <1>3 DEF P
<1>5. f = [k \in 0 .. Len(events) |-> f[k]] /\ g = [k \in 0 .. Len(events) |-> g[k]]
  BY DEF WalkTo
<1> QED
  BY <1>4, <1>5

\* The walk of a call's records visits all of them, in the order they were written.
LEMMA WalkVisitsAll ==
    ASSUME NEW e \in Execs, NEW n \in Nat, NEW events, IsEvidence(e, n, events)
    PROVE  Walk(events) = events
<1>1. PICK g : g = [k \in 0 .. n |-> [at |-> Chain(e, k), seen |-> [i \in 1 .. k |-> events[i]]]]
  OBVIOUS
<1>2. WalkTo(events, g)
  BY <1>1, WalkExists
<1>3. PICK f : f = CHOOSE h : WalkTo(events, h)
  OBVIOUS
<1>4. WalkTo(events, f)
  BY <1>2, <1>3
<1>5. Len(events) = n /\ events = [i \in 1 .. n |-> events[i]]
  BY DEF IsEvidence
<1>6. f = g
  BY <1>2, <1>4, <1>5, WalkUnique
<1>7. Walk(events) = g[n].seen
  BY <1>3, <1>5, <1>6, WalkDef
<1>8. g[n].seen = [i \in 1 .. n |-> events[i]]
  <2>1. n \in 0 .. n
    OBVIOUS
  <2> QED
    BY <1>1, <2>1
<1> QED
  BY <1>5, <1>7, <1>8

\* The outputs in a call's complete evidence are those its record lists.
LEMMA OutputsAreRecorded ==
    ASSUME NEW e \in Execs, NEW events, IsEvidence(e, Len(Recorded(e)), events)
    PROVE  Outputs(events) = RecordedOutputs(e)
<1>1. PICK m \in Nat : m = Len(Order(Plan[e])) /\ Len(Recorded(e)) = m + 1
  BY RecordedSteps
<1>2. DOMAIN events = 1 .. m + 1 /\ \A k \in 1 .. m + 1 : events[k] = Record(e, k)
  BY <1>1 DEF IsEvidence
<1>3. \A k \in 1 .. m + 1 : events[k].step = Recorded(e)[k] /\ events[k].out = e
  BY <1>2 DEF Record
<1>4. PICK at : at = {i \in 1 .. m + 1 : events[i].step # 0}
  OBVIOUS
<1>5. /\ Recorded(e)[1] = 0
      /\ \A i \in 1 .. m : Recorded(e)[i + 1] = Order(Plan[e])[i] /\ Recorded(e)[i + 1] # 0
  BY <1>1, RecordedSteps
<1>6. at = 2 .. m + 1
  <2>1. \A i \in 2 .. m + 1 : i - 1 \in 1 .. m /\ (i - 1) + 1 = i
    OBVIOUS
  <2>2. \A i \in 2 .. m + 1 : Recorded(e)[i] # 0
    BY <1>5, <2>1
  <2>3. \A i \in 1 .. m + 1 : i = 1 \/ i \in 2 .. m + 1
    OBVIOUS
  <2> QED
    BY <1>3, <1>4, <1>5, <2>2, <2>3
<1>7. PICK p : p = [i \in 1 .. m |-> i + 1]
  OBVIOUS
<1>8. Lists(p, m, at) /\ at \in SUBSET (1 .. m + 1)
  <2>1. \A x \in at : x - 1 \in 1 .. m /\ p[x - 1] = x
    BY <1>6, <1>7
  <2> QED
    BY <1>6, <1>7, <2>1 DEF Lists
<1>9. Kept(events, at) = [k \in 1 .. m |-> events[p[k]]]
  <2>1. m + 1 \in Nat
    OBVIOUS
  <2>2. Kept(events, at) = Picked(events, p, m)
    BY <1>8, <2>1, KeptIs
  <2> QED
    BY <2>2 DEF Picked
<1>10. \A k \in 1 .. m : events[p[k]].step = Order(Plan[e])[k] /\ events[p[k]].out = e
  BY <1>3, <1>5, <1>7
<1>11. Outputs(events) = [k \in 1 .. m |-> <<events[p[k]].step, events[p[k]].out>>]
  BY <1>2, <1>4, <1>9 DEF Outputs
<1>12. RecordedOutputs(e) = [k \in 1 .. m |-> <<Order(Plan[e])[k], e>>]
  <2>1. DOMAIN Order(Plan[e]) = 1 .. m
    BY <1>1, RecordedSteps
  <2> QED
    BY <2>1 DEF RecordedOutputs
<1> QED
  BY <1>10, <1>11, <1>12

-----------------------------------------------------------------------------
(* The records in the ledger *)

\* What a call has still to record after n records.
Rest(e, n) == [k \in 1 .. Len(Recorded(e)) - n |-> Recorded(e)[k + n]]

\* The records of a call are its first n, at the positions p of the ledger.
RecordsAt(e, n, p) ==
    /\ p \in [1 .. n -> 1 .. Len(ledger)]
    /\ \A i, j \in 1 .. n : i < j => p[i] < p[j]
    /\ \A k \in 1 .. n : ledger[p[k]] = Record(e, k)
    /\ \A i \in 1 .. Len(ledger) : ledger[i].out = e => \E k \in 1 .. n : p[k] = i

\* How many those are, by where the call is on its state machine.
Reached(e, n) ==
    /\ status[e] \in {"PendingAdmission", "Admitted", "Enforcing", "Executing", "Rejected"} => n = 0
    /\ status[e] = "RecordingEvidence" => todo[e] = Rest(e, n)
    /\ status[e] \in {"Verifying", "Completed"} => n = Len(Recorded(e))
    /\ status[e] \in {"Failed", "RolledBack"} => n \in {0, Len(Recorded(e))}

\* A call that returned a record is where it says.
Returned(e) ==
    /\ result[e] = "completed" => status[e] = "Completed"
    /\ result[e] = "rolledBack" => status[e] = "RolledBack"

\* The inductive invariant of the evidence.
ReplayInv ==
    /\ todo \in [Execs -> Seq(Nat)]
    /\ \A e \in Execs :
        /\ Returned(e)
        /\ \E n \in 0 .. Len(Recorded(e)) : Reached(e, n) /\ \E p : RecordsAt(e, n, p)

\* What is left is the rest of what is recorded.
LEMMA RestOf ==
    ASSUME NEW e \in Execs, NEW n \in 0 .. Len(Recorded(e))
    PROVE  /\ Rest(e, n) \in Seq(Nat) /\ Len(Rest(e, n)) = Len(Recorded(e)) - n
           /\ Rest(e, 0) = Recorded(e)
           /\ Rest(e, n) = <<>> => n = Len(Recorded(e))
           /\ Rest(e, n) # <<>> =>
                /\ n + 1 \in 0 .. Len(Recorded(e))
                /\ Head(Rest(e, n)) = Recorded(e)[n + 1]
                /\ Tail(Rest(e, n)) = Rest(e, n + 1)
<1>1. PICK m \in Nat : m = Len(Recorded(e))
  BY RecordedSteps
<1>2. PICK r : r = Recorded(e)
  OBVIOUS
<1>3. r \in Seq(Nat) /\ Len(r) = m
  BY <1>1, <1>2, RecordedSteps
<1>4. n \in 0 .. m
  BY <1>1
<1>5. PICK t : t = [k \in 1 .. m - n |-> r[k + n]]
  OBVIOUS
<1>6. \A k \in 1 .. m - n : r[k + n] \in Nat
  BY <1>3, <1>4
<1>7. t \in Seq(Nat) /\ Len(t) = m - n /\ Rest(e, n) = t
  BY <1>1, <1>2, <1>4, <1>5, <1>6 DEF Rest
<1>8. Rest(e, 0) = r
  <2>1. r = [k \in 1 .. m |-> r[k]]
    BY <1>3
  <2>2. Rest(e, 0) = [k \in 1 .. m - 0 |-> r[k + 0]]
    BY <1>1, <1>2 DEF Rest
  <2>3. m - 0 = m /\ \A k \in 1 .. m : k + 0 = k
    OBVIOUS
  <2>4. [k \in 1 .. m - 0 |-> r[k + 0]] = [k \in 1 .. m |-> r[k]]
    BY <2>3
  <2> QED
    BY <2>1, <2>2, <2>4
<1>9. t = <<>> => n = m
  BY <1>4, <1>7
<1>10. ASSUME t # <<>>
       PROVE  n + 1 \in 0 .. m /\ Head(t) = r[n + 1] /\ Tail(t) = Rest(e, n + 1)
  <2>1. m - n # 0
    BY <1>7, <1>10
  <2>2. n + 1 \in 0 .. m /\ 1 \in 1 .. m - n
    BY <1>4, <2>1
  <2>3. Head(t) = r[n + 1]
    BY <1>5, <1>7, <2>2
  <2>4. Tail(t) = [k \in 1 .. (m - n) - 1 |-> t[k + 1]]
    <3>1. PICK u : u = Tail(t)
      OBVIOUS
    <3>2. /\ u \in Seq(Nat) /\ Len(u) = Len(t) - 1
          /\ \A k \in 1 .. Len(u) : u[k] = t[k + 1]
      BY <1>7, <1>10, <3>1, HeadTailProperties
    <3>3. Len(u) = (m - n) - 1
      BY <1>7, <3>2
    <3>4. u = [k \in 1 .. Len(u) |-> u[k]]
      BY <3>2
    <3>5. u = [k \in 1 .. (m - n) - 1 |-> t[k + 1]]
      BY <3>2, <3>3, <3>4
    <3> QED
      BY <3>1, <3>5
  <2>5. Rest(e, n + 1) = [k \in 1 .. m - (n + 1) |-> r[k + (n + 1)]]
    BY <1>1, <1>2 DEF Rest
  <2>6. (m - n) - 1 = m - (n + 1)
    BY <1>4
  <2>7. \A k \in 1 .. (m - n) - 1 : t[k + 1] = r[k + (n + 1)]
    BY <1>4, <1>5
  <2> QED
    BY <2>2, <2>3, <2>4, <2>5, <2>6, <2>7
<1> QED
  BY <1>1, <1>2, <1>7, <1>8, <1>9, <1>10

\* A record appended is the last of the ledger.
LEMMA LedgerGrows ==
    ASSUME KernelShapes, NEW r, ledger' = Append(ledger, r)
    PROVE  /\ Len(ledger) \in Nat /\ Len(ledger') = Len(ledger) + 1
           /\ \A i \in 1 .. Len(ledger) : ledger'[i] = ledger[i]
           /\ ledger'[Len(ledger) + 1] = r
<1>1. Len(ledger) \in Nat /\ ledger \in Seq(ToSet(ledger) \cup {r})
  BY DEF KernelShapes
<1> QED
  BY <1>1, AppendProperties

\* Records of other calls do not move.
LEMMA OthersStay ==
    ASSUME KernelShapes, NEW d, NEW n, NEW p, RecordsAt(d, n, p),
           NEW r, r.out # d, ledger' = Append(ledger, r)
    PROVE  RecordsAt(d, n, p)'
<1>1. /\ Len(ledger) \in Nat /\ Len(ledger') = Len(ledger) + 1
      /\ \A i \in 1 .. Len(ledger) : ledger'[i] = ledger[i]
      /\ ledger'[Len(ledger) + 1] = r
  BY LedgerGrows
<1>2. p \in [1 .. n -> 1 .. Len(ledger)] /\ p \in [1 .. n -> 1 .. Len(ledger')]
  <2>1. p \in [1 .. n -> 1 .. Len(ledger)]
    BY DEF RecordsAt
  <2>2. 1 .. Len(ledger) \subseteq 1 .. Len(ledger')
    BY <1>1
  <2> QED
    BY <2>1, <2>2
<1>3. \A k \in 1 .. n : ledger'[p[k]] = Record(d, k)
  BY <1>1, <1>2 DEF RecordsAt
<1>4. ASSUME NEW i \in 1 .. Len(ledger'), ledger'[i].out = d
      PROVE  \E k \in 1 .. n : p[k] = i
  <2>1. i \in 1 .. Len(ledger) \/ i = Len(ledger) + 1
    BY <1>1
  <2>2. i \in 1 .. Len(ledger)
    BY <1>1, <1>4, <2>1
  <2> QED
    BY <1>1, <1>4, <2>2 DEF RecordsAt
<1>5. \A i, j \in 1 .. n : i < j => p[i] < p[j]
  BY DEF RecordsAt
<1> QED
  BY <1>2, <1>3, <1>4, <1>5 DEF RecordsAt

\* A call's next record comes after its others.
LEMMA RecordsGrow ==
    ASSUME KernelShapes, NEW e \in Execs, NEW n \in Nat, NEW p, RecordsAt(e, n, p),
           ledger' = Append(ledger, Record(e, n + 1))
    PROVE  \E q : RecordsAt(e, n + 1, q)'
<1>1. /\ Len(ledger) \in Nat /\ Len(ledger') = Len(ledger) + 1
      /\ \A i \in 1 .. Len(ledger) : ledger'[i] = ledger[i]
      /\ ledger'[Len(ledger) + 1] = Record(e, n + 1)
  BY LedgerGrows
<1>2. PICK q : q = [k \in 1 .. n + 1 |-> IF k = n + 1 THEN Len(ledger) + 1 ELSE p[k]]
  OBVIOUS
<1>3. p \in [1 .. n -> 1 .. Len(ledger)]
  BY DEF RecordsAt
<1>4. \A k \in 1 .. n + 1 : k \in 1 .. n \/ k = n + 1
  OBVIOUS
<1>5. (\A k \in 1 .. n : q[k] = p[k] /\ q[k] \in 1 .. Len(ledger)) /\ q[n + 1] = Len(ledger) + 1
  BY <1>2, <1>3
<1>6. q \in [1 .. n + 1 -> 1 .. Len(ledger')]
  <2>1. \A k \in 1 .. n + 1 : q[k] \in 1 .. Len(ledger')
    BY <1>1, <1>4, <1>5
  <2> QED
    BY <1>2, <2>1
<1>7. ASSUME NEW i \in 1 .. n + 1, NEW j \in 1 .. n + 1, i < j PROVE q[i] < q[j]
  <2>1. i \in 1 .. n
    BY <1>7
  <2>2. CASE j \in 1 .. n
    <3>1. p[i] < p[j]
      BY <1>7, <2>1, <2>2 DEF RecordsAt
    <3> QED
      BY <1>5, <2>1, <2>2, <3>1
  <2>3. CASE j = n + 1
    BY <1>1, <1>5, <2>1, <2>3
  <2> QED
    BY <1>4, <2>2, <2>3
<1>8. \A k \in 1 .. n + 1 : ledger'[q[k]] = Record(e, k)
  <2>1. \A k \in 1 .. n : ledger[p[k]] = Record(e, k)
    BY DEF RecordsAt
  <2> QED
    BY <1>1, <1>4, <1>5, <2>1
<1>9. ASSUME NEW i \in 1 .. Len(ledger'), ledger'[i].out = e
      PROVE  \E k \in 1 .. n + 1 : q[k] = i
  <2>1. i \in 1 .. Len(ledger) \/ i = Len(ledger) + 1
    BY <1>1
  <2>2. CASE i \in 1 .. Len(ledger)
    <3>1. PICK k \in 1 .. n : p[k] = i
      BY <1>1, <1>9, <2>2 DEF RecordsAt
    <3> QED
      BY <1>5, <3>1
  <2>3. CASE i = Len(ledger) + 1
    BY <1>5, <2>3
  <2> QED
    BY <2>1, <2>2, <2>3
<1>10. RecordsAt(e, n + 1, q)'
  BY <1>6, <1>7, <1>8, <1>9 DEF RecordsAt
<1> QED
  BY <1>10

\* A step of e that appends nothing leaves the others alone, and e with as many records as
\* its state machine says.
LEMMA StepsOnRecords ==
    ASSUME KernelShapes, ReplayInv, NEW e \in Execs, Step(e), ~AppendEvidence(e)
    PROVE  /\ ledger' = ledger /\ todo' \in [Execs -> Seq(Nat)]
           /\ \A d \in Execs \ {e} : status'[d] = status[d] /\ result'[d] = result[d] /\ todo'[d] = todo[d]
           /\ Returned(e)'
           /\ \A n \in 0 .. Len(Recorded(e)) : Reached(e, n) => Reached(e, n)'
<1> DEFINE Goal ==
        /\ ledger' = ledger /\ todo' \in [Execs -> Seq(Nat)]
        /\ \A d \in Execs \ {e} : status'[d] = status[d] /\ result'[d] = result[d] /\ todo'[d] = todo[d]
        /\ Returned(e)'
        /\ \A n \in 0 .. Len(Recorded(e)) : Reached(e, n) => Reached(e, n)'
<1>1. /\ status \in [Execs -> Status] /\ todo \in [Execs -> Seq(Nat)]
      /\ result \in [Execs -> {"running", "completed", "rolledBack", "rejected", "error"}]
  BY DEF KernelShapes, ReplayInv
<1>2. Returned(e)
  BY DEF ReplayInv
<1>3. CASE RejectAdmission(e) \/ RejectEnforcing(e) \/ RejectBudget(e)
  BY <1>1, <1>3 DEF RejectAdmission, RejectEnforcing, RejectBudget, Running, Transit, Return,
                    Returned, Reached
<1>4. CASE Admit(e) \/ Reserve(e) \/ ReserveBudget(e)
  BY <1>1, <1>4 DEF Admit, Reserve, ReserveBudget, Running, Transit, Returned, Reached
<1>5. CASE RunPlan(e)
  <2>1. /\ status[e] = "Executing" /\ result[e] = "running"
        /\ status' = [status EXCEPT ![e] = "RecordingEvidence"]
        /\ todo' = [todo EXCEPT ![e] = Recorded(e)]
        /\ UNCHANGED <<result, ledger>>
    BY <1>5 DEF RunPlan, Running, Transit, Recorded
  <2>2. Recorded(e) \in Seq(Nat) /\ Recorded(e) = Rest(e, 0)
    <3>1. 0 \in 0 .. Len(Recorded(e))
      BY RecordedSteps
    <3> QED
      BY <3>1, RecordedSteps, RestOf
  <2> QED
    BY <1>1, <2>1, <2>2 DEF Returned, Reached
<1>6. CASE RunFails(e)
  BY <1>1, <1>6 DEF RunFails, Running, Transit, Return, Returned, Reached
<1>7. CASE AppendFails(e) \/ ConsumeFails(e)
  BY <1>1, <1>7 DEF AppendFails, ConsumeFails, Running, Return, Returned, Reached
<1>8. CASE Consume(e)
  <2>1. /\ status[e] = "RecordingEvidence" /\ todo[e] = <<>> /\ result[e] = "running"
        /\ status' = [status EXCEPT ![e] = "Verifying"]
        /\ UNCHANGED <<result, todo, ledger>>
    BY <1>8 DEF Consume, Running, Transit
  <2>2. \A n \in 0 .. Len(Recorded(e)) : Rest(e, n) = <<>> => n = Len(Recorded(e))
    BY RestOf
  <2> QED
    BY <1>1, <2>1, <2>2 DEF Returned, Reached
<1>9. CASE Complete(e)
  BY <1>1, <1>9 DEF Complete, Running, Transit, Return, Returned, Reached
<1>10. CASE RollBack(e)
  BY <1>1, <1>10 DEF RollBack, Running, Transit, Return, Returned, Reached
<1> QED
  BY <1>3, <1>4, <1>5, <1>6, <1>7, <1>8, <1>9, <1>10 DEF Step

\* An append writes the record whose turn it is.
LEMMA AppendsRecord ==
    ASSUME KernelShapes, ReplayInv, NEW e \in Execs, AppendEvidence(e),
           NEW n \in 0 .. Len(Recorded(e)), Reached(e, n)
    PROVE  /\ n + 1 \in 0 .. Len(Recorded(e)) /\ ledger' = Append(ledger, Record(e, n + 1))
           /\ todo' = [todo EXCEPT ![e] = Rest(e, n + 1)]
           /\ UNCHANGED <<status, result>> /\ status[e] = "RecordingEvidence"
<1>1. /\ status[e] = "RecordingEvidence" /\ todo[e] # <<>>
      /\ ledger' = Append(ledger, [id |-> ExecId[e], step |-> Head(todo[e]), out |-> e,
                                   prev |-> PrevHash(e),
                                   hash |-> Hash(Head(todo[e]), e, PrevHash(e))])
      /\ todo' = [todo EXCEPT ![e] = Tail(todo[e])]
      /\ UNCHANGED <<status, result>>
  BY DEF AppendEvidence, Running
<1>2. todo[e] = Rest(e, n)
  BY <1>1 DEF Reached
<1>3. /\ Len(Rest(e, n)) = Len(Recorded(e)) - n
      /\ n + 1 \in 0 .. Len(Recorded(e))
      /\ Head(Rest(e, n)) = Recorded(e)[n + 1]
      /\ Tail(Rest(e, n)) = Rest(e, n + 1)
  BY <1>1, <1>2, RestOf
<1>4. PrevHash(e) = Chain(e, n)
  <2>1. Len(Recorded(e)) - Len(todo[e]) = n
    <3>1. Len(Recorded(e)) \in Nat
      BY RecordedSteps
    <3> QED
      BY <1>2, <1>3, <3>1
  <2>2. PrevHash(e) = [i \in 1 .. Len(Recorded(e)) - Len(todo[e]) |-> <<Recorded(e)[i], e>>]
    BY DEF PrevHash, Recorded
  <2> QED
    BY <2>1, <2>2 DEF Chain
<1>5. Hash(Head(todo[e]), e, PrevHash(e)) = Chain(e, n + 1)
  BY <1>2, <1>3, <1>4, ChainGrows
<1>6. (n + 1) - 1 = n
  OBVIOUS
<1> QED
  BY <1>1, <1>2, <1>3, <1>4, <1>5, <1>6 DEF Record

\* Every step of the kernel keeps each call's records in their order.
LEMMA ReplayStepInv ==
    ASSUME KernelShapes, ReplayInv, [KernelNext]_kernelVars
    PROVE  ReplayInv'
<1>1. ASSUME NEW e \in Execs, Step(e), ~AppendEvidence(e) PROVE ReplayInv'
  <2>1. /\ ledger' = ledger /\ todo' \in [Execs -> Seq(Nat)]
        /\ \A d \in Execs \ {e} : status'[d] = status[d] /\ result'[d] = result[d] /\ todo'[d] = todo[d]
        /\ Returned(e)'
        /\ \A n \in 0 .. Len(Recorded(e)) : Reached(e, n) => Reached(e, n)'
    BY <1>1, StepsOnRecords
  <2>2. ASSUME NEW d \in Execs
        PROVE  Returned(d)' /\ \E n \in 0 .. Len(Recorded(d)) : Reached(d, n)' /\ \E p : RecordsAt(d, n, p)'
    <3>1. PICK n \in 0 .. Len(Recorded(d)) : Reached(d, n) /\ \E p : RecordsAt(d, n, p)
      BY DEF ReplayInv
    <3>2. PICK p : RecordsAt(d, n, p)
      BY <3>1
    <3>3. RecordsAt(d, n, p)'
      BY <2>1, <3>2 DEF RecordsAt
    <3>4. Reached(d, n)' /\ Returned(d)'
      <4>1. CASE d = e
        BY <2>1, <3>1, <4>1
      <4>2. CASE d # e
        BY <2>1, <3>1, <4>2 DEF Reached, Returned, ReplayInv
      <4> QED
        BY <4>1, <4>2
    <3> QED
      BY <3>3, <3>4
  <2> QED
    BY <2>1, <2>2 DEF ReplayInv
<1>2. ASSUME NEW e \in Execs, AppendEvidence(e) PROVE ReplayInv'
  <2>1. PICK n \in 0 .. Len(Recorded(e)) : Reached(e, n) /\ \E p : RecordsAt(e, n, p)
    BY DEF ReplayInv
  <2>2. PICK p : RecordsAt(e, n, p)
    BY <2>1
  <2>3. /\ n + 1 \in 0 .. Len(Recorded(e)) /\ ledger' = Append(ledger, Record(e, n + 1))
        /\ todo' = [todo EXCEPT ![e] = Rest(e, n + 1)]
        /\ UNCHANGED <<status, result>> /\ status[e] = "RecordingEvidence"
    BY <1>2, <2>1, AppendsRecord
  <2>4. todo \in [Execs -> Seq(Nat)] /\ Rest(e, n + 1) \in Seq(Nat)
    BY <2>3, RestOf DEF ReplayInv
  <2>5. todo' \in [Execs -> Seq(Nat)] /\ todo'[e] = Rest(e, n + 1)
        /\ \A d \in Execs \ {e} : todo'[d] = todo[d]
    BY <2>3, <2>4
  <2>6. ASSUME NEW d \in Execs
        PROVE  Returned(d)' /\ \E m \in 0 .. Len(Recorded(d)) : Reached(d, m)' /\ \E q : RecordsAt(d, m, q)'
    <3>0. Returned(d)'
      BY <2>3 DEF Returned, ReplayInv
    <3>1. CASE d = e
      <4>1. \E q : RecordsAt(e, n + 1, q)'
        <5>1. n \in Nat
          OBVIOUS
        <5> QED
          BY <2>2, <2>3, <5>1, RecordsGrow
      <4>2. Reached(e, n + 1)'
        BY <2>3, <2>5 DEF Reached
      <4> QED
        BY <2>3, <3>0, <3>1, <4>1, <4>2
    <3>2. CASE d # e
      <4>1. PICK m \in 0 .. Len(Recorded(d)) : Reached(d, m) /\ \E q : RecordsAt(d, m, q)
        BY DEF ReplayInv
      <4>2. PICK q : RecordsAt(d, m, q)
        BY <4>1
      <4>3. Record(e, n + 1).out # d
        BY <3>2 DEF Record
      <4>4. RecordsAt(d, m, q)'
        BY <2>3, <4>2, <4>3, OthersStay
      <4>5. Reached(d, m)'
        BY <2>3, <2>5, <3>2, <4>1 DEF Reached
      <4> QED
        BY <3>0, <4>4, <4>5
    <3> QED
      BY <3>1, <3>2
  <2> QED
    BY <2>5, <2>6 DEF ReplayInv
<1>3. CASE UNCHANGED kernelVars
  <2>1. UNCHANGED <<status, result, ledger, todo>>
    BY <1>3 DEF kernelVars
  <2>2. ASSUME NEW e \in Execs
        PROVE  Returned(e)' /\ \E n \in 0 .. Len(Recorded(e)) : Reached(e, n)' /\ \E p : RecordsAt(e, n, p)'
    <3>1. PICK n \in 0 .. Len(Recorded(e)) : Reached(e, n) /\ \E p : RecordsAt(e, n, p)
      BY DEF ReplayInv
    <3>2. PICK p : RecordsAt(e, n, p)
      BY <3>1
    <3>3. RecordsAt(e, n, p)' /\ Reached(e, n)' /\ Returned(e)'
      BY <2>1, <3>1, <3>2 DEF RecordsAt, Reached, Returned, ReplayInv
    <3> QED
      BY <3>3
  <2> QED
    BY <2>1, <2>2 DEF ReplayInv
<1> QED
  BY <1>1, <1>2, <1>3 DEF KernelNext

\* No call has recorded anything at the start.
LEMMA ReplayInit == KernelInit => ReplayInv
<1> SUFFICES ASSUME KernelInit PROVE ReplayInv
  OBVIOUS
<1>1. todo \in [Execs -> Seq(Nat)]
  BY DEF KernelInit
<1>2. ASSUME NEW e \in Execs
      PROVE  Returned(e) /\ \E n \in 0 .. Len(Recorded(e)) : Reached(e, n) /\ \E p : RecordsAt(e, n, p)
  <2>1. Returned(e) /\ Reached(e, 0)
    BY DEF KernelInit, Returned, Reached
  <2>2. 0 \in 0 .. Len(Recorded(e))
    BY RecordedSteps
  <2>3. PICK p : p = [k \in 1 .. 0 |-> k]
    OBVIOUS
  <2>4. Len(ledger) = 0 /\ 1 .. 0 = {}
    BY DEF KernelInit
  <2>5. RecordsAt(e, 0, p)
    BY <2>3, <2>4 DEF RecordsAt
  <2> QED
    BY <2>1, <2>2, <2>5
<1> QED
  BY <1>1, <1>2 DEF ReplayInv

\* The evidence of a call whose execution_id no other call has used is its records.
LEMMA EvidenceIsOwn ==
    ASSUME KernelShapes, NEW e \in Execs, NEW n \in Nat, NEW p, RecordsAt(e, n, p),
           \A i \in 1 .. Len(ledger) : ledger[i].id = ExecId[e] => ledger[i].out = e
    PROVE  IsEvidence(e, n, Evidence(ExecId[e]))
<1>1. Len(ledger) \in Nat /\ DOMAIN ledger = 1 .. Len(ledger)
  BY DEF KernelShapes
<1>2. PICK at : at = {i \in 1 .. Len(ledger) : ledger[i].id = ExecId[e]}
  OBVIOUS
<1>3. p \in [1 .. n -> 1 .. Len(ledger)]
  BY DEF RecordsAt
<1>4. \A k \in 1 .. n : p[k] \in at /\ ledger[p[k]] = Record(e, k)
  <2>1. \A k \in 1 .. n : ledger[p[k]] = Record(e, k)
    BY DEF RecordsAt
  <2> QED
    BY <1>2, <1>3, <2>1 DEF Record
<1>5. \A x \in at : \E k \in 1 .. n : p[k] = x
  BY <1>2 DEF RecordsAt
<1>6. Lists(p, n, at)
  <2>1. \A i, j \in 1 .. n : i < j => p[i] < p[j]
    BY DEF RecordsAt
  <2>2. p \in [1 .. n -> at]
    BY <1>3, <1>4
  <2> QED
    BY <1>5, <2>1, <2>2 DEF Lists
<1>7. Kept(ledger, at) = Picked(ledger, p, n)
  <2>1. at \in SUBSET (1 .. Len(ledger))
    BY <1>2
  <2> QED
    BY <1>1, <1>6, <2>1, KeptIs
<1>8. Evidence(ExecId[e]) = [k \in 1 .. n |-> ledger[p[k]]]
  BY <1>1, <1>2, <1>7 DEF Evidence, Picked
<1>9. PICK ev : ev = Evidence(ExecId[e])
  OBVIOUS
<1>10. ev = [k \in 1 .. n |-> ev[k]] /\ \A k \in 1 .. n : ev[k] = Record(e, k)
  BY <1>4, <1>8, <1>9
<1>11. ev \in Seq(ToSet(ev)) /\ Len(ev) = n
  <2>1. DOMAIN ev = 1 .. n /\ \A k \in 1 .. n : ev[k] \in ToSet(ev)
    BY <1>10 DEF ToSet
  <2> QED
    BY <1>10, <2>1
<1> QED
  BY <1>9, <1>10, <1>11 DEF IsEvidence

\* For any calls, plans and interleavings: the evidence of a call that returned a record,
\* if no other call used its execution_id, replays to the outputs in that record
\* (RecordReplays, `replay_check`).
THEOREM EvidenceReplays == KernelSpec => []RecordReplays
<1>1. KernelShapes /\ ReplayInv => RecordReplays
  <2> SUFFICES ASSUME KernelShapes, ReplayInv, NEW e \in Execs,
                      result[e] \in {"completed", "rolledBack"}, Evidence(ExecId[e]) # <<>>,
                      \A i \in DOMAIN ledger : ledger[i].id = ExecId[e] => ledger[i].out = e
               PROVE  ReplayDigests(Evidence(ExecId[e])) = {RecordedOutputs(e)}
    BY DEF RecordReplays
  <2>1. PICK n \in 0 .. Len(Recorded(e)) : Reached(e, n) /\ \E p : RecordsAt(e, n, p)
    BY DEF ReplayInv
  <2>2. PICK p : RecordsAt(e, n, p)
    BY <2>1
  <2>3. PICK ev : ev = Evidence(ExecId[e])
    OBVIOUS
  <2>4. IsEvidence(e, n, ev)
    <3>1. DOMAIN ledger = 1 .. Len(ledger)
      BY DEF KernelShapes
    <3>2. n \in Nat
      OBVIOUS
    <3> QED
      BY <2>2, <2>3, <3>1, <3>2, EvidenceIsOwn
  <2>5. n # 0
    <3> SUFFICES ASSUME n = 0 PROVE FALSE
      OBVIOUS
    <3>1. ev \in Seq(ToSet(ev)) /\ Len(ev) = 0
      BY <2>4 DEF IsEvidence
    <3>2. ev = <<>>
      BY <3>1, EmptySeq
    <3> QED
      BY <2>3, <3>2
  <2>6. n = Len(Recorded(e))
    BY <2>1, <2>5 DEF Reached, ReplayInv, Returned
  <2>7. Walk(ev) = ev
    BY <2>4, WalkVisitsAll
  <2>8. Outputs(ev) = RecordedOutputs(e)
    BY <2>4, <2>6, OutputsAreRecorded
  <2> QED
    BY <2>3, <2>7, <2>8 DEF ReplayDigests
<1>2. KernelInv => KernelShapes
  BY DEF KernelInv
<1>3. KernelInit => ReplayInv
  BY ReplayInit
<1>4. KernelShapes /\ ReplayInv /\ [KernelNext]_kernelVars => ReplayInv'
  BY ReplayStepInv
<1> QED
  BY <1>1, <1>2, <1>3, <1>4, KernelInvariant, PTL DEF KernelSpec

-----------------------------------------------------------------------------
(* The signal pipeline *)

\* The queue, the batches and the records hold signals that were issued.
PipeShapes ==
    /\ issued \in 0 .. MaxSignals /\ bucket \in 0 .. RateLimit + 1
    /\ pending \in Seq(1 .. MaxSignals) /\ \A i \in 1 .. Len(pending) : pending[i] \in queued
    /\ queued \subseteq 1 .. issued
    /\ call \in [Callers -> Calls]
    /\ batch \in [Callers -> Seq(1 .. MaxSignals)]
    /\ \A f \in Callers : \A i \in 1 .. Len(batch[f]) : batch[f][i] <= issued
    /\ flushed \in [Callers -> Nat]
    /\ attempt \in [Callers -> 0 .. MaxRetries + 1]
    /\ ruling \in [Callers -> BOOLEAN]
    /\ accepted \subseteq 1 .. issued /\ sunk \subseteq 1 .. issued

\* A caller at rest has no locals, and only a signal in the sink has a ruling.
LocalsHeld ==
    \A f \in Callers :
        /\ call[f] = "none" => flushed[f] = 0 /\ attempt[f] = 0
        /\ ruling[f] => call[f] # "none" /\ batch[f] # <<>> /\ attempt[f] # 0

\* What the rate limit has let through: records, and rulings that may become one.
Claimed == accepted \cup { Head(batch[f]) : f \in { g \in Callers : ruling[g] } }

\* No more is claimed than the bucket has counted and the limit allows.
RateHeld == Cardinality(Claimed) <= bucket /\ Cardinality(Claimed) <= RateLimit

\* What a flush has sunk is at the front of the queue, and what it has still to sink
\* comes next.
FrontIsSunk(f) ==
    /\ flushed[f] + Len(batch[f]) <= Len(pending)
    /\ \A i \in 1 .. flushed[f] : pending[i] \in sunk
    /\ \A i \in 1 .. Len(batch[f]) : batch[f][i] = pending[flushed[f] + i]
    /\ call[f] = "shutdown" => flushed[f] + Len(batch[f]) = Len(pending)

\* Unless flushes raced: one flush at a time, which knows the front of the queue, and
\* what was enqueued is in the queue or through the sink.
FlushHeld ==
    ~raced => /\ \A f, g \in Flushing : f = g
              /\ \A f \in Flushing : FrontIsSunk(f)
              /\ \A n \in queued : n \in sunk \/ \E i \in 1 .. Len(pending) : pending[i] = n

\* The inductive invariant of the pipeline.
PipeInv == PipeShapes /\ LocalsHeld /\ RateHeld /\ FlushHeld

\* The locals of all callers but f are as they were.
CallersStay(f) ==
    \A g \in Callers \ {f} :
        /\ call'[g] = call[g] /\ batch'[g] = batch[g] /\ flushed'[g] = flushed[g]
        /\ attempt'[g] = attempt[g] /\ ruling'[g] = ruling[g]

\* Members of a batch are signals.
LEMMA BatchMembers ==
    ASSUME PipeShapes, NEW f \in Callers
    PROVE  /\ batch[f] \in Seq(1 .. MaxSignals) /\ Len(batch[f]) \in Nat
           /\ \A i \in 1 .. Len(batch[f]) : batch[f][i] \in 1 .. issued
           /\ batch[f] # <<>> => /\ Len(batch[f]) # 0 /\ Head(batch[f]) = batch[f][1]
                                 /\ Head(batch[f]) \in 1 .. issued
<1>1. batch[f] \in Seq(1 .. MaxSignals) /\ Len(batch[f]) \in Nat
  BY DEF PipeShapes
<1>2. \A i \in 1 .. Len(batch[f]) : batch[f][i] \in 1 .. MaxSignals
  BY <1>1, ElementOfSeq
<1>3. \A i \in 1 .. Len(batch[f]) : batch[f][i] \in 1 .. issued
  BY <1>2, PipelineConstants DEF PipeShapes
<1>4. batch[f] # <<>> => Len(batch[f]) # 0 /\ Head(batch[f]) = batch[f][1]
  BY <1>1
<1> QED
  BY <1>1, <1>3, <1>4

\* An empty pipeline satisfies the invariant.
LEMMA PipeInitInv == PipeInit => PipeInv
<1> SUFFICES ASSUME PipeInit PROVE PipeInv
  OBVIOUS
<1> USE PipelineConstants DEF PipeInit
<1>1. PipeShapes
  BY DEF PipeShapes, Calls
<1>2. LocalsHeld
  BY DEF LocalsHeld
<1>3. RateHeld
  <2>1. Claimed = {}
    BY DEF Claimed
  <2> QED
    BY <2>1, FS_EmptySet DEF RateHeld
<1>4. FlushHeld
  BY DEF FlushHeld, Flushing
<1> QED
  BY <1>1, <1>2, <1>3, <1>4 DEF PipeInv

\* A call that begins: a flush, a shutdown or an emit.
LEMMA BeginEffect ==
    ASSUME PipeShapes, LocalsHeld, NEW f \in Callers, NEW what \in Calls \ {"none"},
           NEW signals \in Seq(1 .. MaxSignals), Begin(f, what, signals),
           UNCHANGED <<flushed, attempt, ruling>>
    PROVE  /\ CallersStay(f) /\ call'[f] = what /\ batch'[f] = signals
           /\ call[f] = "none" /\ flushed'[f] = 0 /\ attempt'[f] = 0 /\ ~ruling'[f]
           /\ call' \in [Callers -> Calls] /\ batch' \in [Callers -> Seq(1 .. MaxSignals)]
<1>1. /\ call[f] = "none" /\ call' = [call EXCEPT ![f] = what]
      /\ batch' = [batch EXCEPT ![f] = signals]
  BY DEF Begin
<1>2. flushed[f] = 0 /\ attempt[f] = 0 /\ ~ruling[f]
  BY <1>1 DEF LocalsHeld
<1>3. CallersStay(f)
  BY <1>1 DEF CallersStay
<1> QED
  BY <1>1, <1>2, <1>3 DEF PipeShapes

\* A call that returns.
LEMMA EndEffect ==
    ASSUME PipeShapes, NEW f \in Callers, EndCall(f)
    PROVE  /\ CallersStay(f) /\ call'[f] = "none" /\ batch'[f] = <<>>
           /\ flushed'[f] = 0 /\ attempt'[f] = 0 /\ ~ruling'[f]
           /\ call' \in [Callers -> Calls] /\ batch' \in [Callers -> Seq(1 .. MaxSignals)]
           /\ flushed' \in [Callers -> Nat] /\ attempt' \in [Callers -> 0 .. MaxRetries + 1]
           /\ ruling' \in [Callers -> BOOLEAN]
<1> USE PipelineConstants DEF PipeShapes, EndCall
<1>1. call' \in [Callers -> Calls] /\ batch' \in [Callers -> Seq(1 .. MaxSignals)]
  BY DEF Calls
<1>2. flushed' \in [Callers -> Nat] /\ attempt' \in [Callers -> 0 .. MaxRetries + 1]
  OBVIOUS
<1>3. ruling' \in [Callers -> BOOLEAN]
  OBVIOUS
<1>4. CallersStay(f)
  BY DEF CallersStay
<1> QED
  BY <1>1, <1>2, <1>3, <1>4

\* The shapes and the locals after a step of the caller f that may issue a signal.
LEMMA PipeCallerShapes ==
    ASSUME PipeShapes, LocalsHeld, NEW f \in Callers, CallersStay(f),
           issued' \in {issued, issued + 1}, issued' <= MaxSignals,
           bucket' \in 0 .. RateLimit + 1,
           pending' \in Seq(1 .. MaxSignals),
           \A i \in 1 .. Len(pending') : pending'[i] \in queued, queued' = queued,
           call' \in [Callers -> Calls], batch' \in [Callers -> Seq(1 .. MaxSignals)],
           \A i \in 1 .. Len(batch'[f]) : batch'[f][i] <= issued',
           flushed' \in [Callers -> Nat], attempt' \in [Callers -> 0 .. MaxRetries + 1],
           ruling' \in [Callers -> BOOLEAN],
           accepted' \subseteq 1 .. issued, sunk' \subseteq 1 .. issued,
           call'[f] = "none" => flushed'[f] = 0 /\ attempt'[f] = 0,
           ruling'[f] => call'[f] # "none" /\ batch'[f] # <<>> /\ attempt'[f] # 0
    PROVE  PipeShapes' /\ LocalsHeld'
<1>1. issued \in Nat /\ issued' \in 0 .. MaxSignals /\ issued <= issued'
  BY PipelineConstants DEF PipeShapes
<1>2. ASSUME NEW g \in Callers, NEW i \in 1 .. Len(batch'[g]) PROVE batch'[g][i] <= issued'
  <2>1. CASE g = f
    BY <1>2, <2>1
  <2>2. CASE g # f
    <3>1. batch'[g] = batch[g] /\ batch[g][i] \in 1 .. issued
      BY <1>2, <2>2, BatchMembers DEF CallersStay
    <3> QED
      BY <1>1, <3>1
  <2> QED
    BY <2>1, <2>2
<1>3. 1 .. issued \subseteq 1 .. issued'
  BY <1>1
<1>4. PipeShapes'
  BY <1>1, <1>2, <1>3 DEF PipeShapes
<1>5. LocalsHeld'
  <2> SUFFICES ASSUME NEW g \in Callers
               PROVE  /\ call'[g] = "none" => flushed'[g] = 0 /\ attempt'[g] = 0
                      /\ ruling'[g] => call'[g] # "none" /\ batch'[g] # <<>> /\ attempt'[g] # 0
    BY DEF LocalsHeld
  <2>1. CASE g = f
    BY <2>1
  <2>2. CASE g # f
    BY <2>2 DEF CallersStay, LocalsHeld
  <2> QED
    BY <2>1, <2>2
<1> QED
  BY <1>4, <1>5

\* What is claimed are signals that were issued.
LEMMA ClaimedFinite ==
    ASSUME PipeShapes, LocalsHeld
    PROVE  IsFiniteSet(Claimed) /\ Cardinality(Claimed) \in Nat
<1>1. \A f \in Callers : ruling[f] => Head(batch[f]) \in 1 .. issued
  BY BatchMembers DEF LocalsHeld
<1>2. Claimed \subseteq 1 .. issued
  BY <1>1 DEF Claimed, PipeShapes
<1>3. IsFiniteSet(1 .. issued)
  BY FS_Interval DEF PipeShapes
<1>4. IsFiniteSet(Claimed)
  BY <1>2, <1>3, FS_Subset
<1> QED
  BY <1>4, FS_CardinalityType

\* A caller that gets no new ruling claims nothing new.
LEMMA ClaimedShrinks ==
    ASSUME NEW f \in Callers, CallersStay(f),
           \A n \in accepted' : n \in accepted \/ (ruling[f] /\ n = Head(batch[f])),
           ruling'[f] => ruling[f] /\ batch'[f] = batch[f]
    PROVE  Claimed' \subseteq Claimed
<1>1. ASSUME NEW g \in Callers, ruling'[g] PROVE ruling[g] /\ Head(batch'[g]) = Head(batch[g])
  BY <1>1 DEF CallersStay
<1> QED
  BY <1>1 DEF Claimed

\* So the rate limit holds.
LEMMA RateKept ==
    ASSUME PipeShapes, LocalsHeld, RateHeld, Claimed' \subseteq Claimed, bucket' \in Nat,
           bucket <= bucket'
    PROVE  RateHeld'
<1>1. Cardinality(Claimed') <= Cardinality(Claimed) /\ IsFiniteSet(Claimed')
  BY ClaimedFinite, FS_Subset
<1>2. Cardinality(Claimed') \in Nat /\ Cardinality(Claimed) \in Nat /\ bucket \in Nat
  BY <1>1, ClaimedFinite, FS_CardinalityType, PipelineConstants DEF PipeShapes
<1> QED
  BY <1>1, <1>2, PipelineConstants DEF RateHeld

\* `process` preserves the invariant: a ruling that accepts is counted by the bucket.
LEMMA PipeProcess ==
    ASSUME PipeInv, NEW f \in Callers, Process(f)
    PROVE  PipeInv'
<1> USE PipelineConstants DEF PipeInv
<1>1. /\ call[f] # "none" /\ batch[f] # <<>> /\ attempt[f] = 0
      /\ attempt' = [attempt EXCEPT ![f] = 1]
      /\ UNCHANGED <<pending, issued, call, batch, flushed, accepted, sunk, queued, raced>>
  BY DEF Process
<1>2. PICK b \in BOOLEAN :
        /\ ruling' = [ruling EXCEPT ![f] = b]
        /\ bucket' = bucket \/ bucket' = bucket + 1
        /\ bucket' \in 0 .. RateLimit + 1
        /\ b => bucket' = bucket + 1 /\ bucket + 1 <= RateLimit
  <2>1. bucket \in 0 .. RateLimit + 1 /\ WithinRate(bucket) \in BOOLEAN
    BY DEF PipeShapes, WithinRate
  <2>2. CASE ruling' = [ruling EXCEPT ![f] = WithinRate(bucket)]
             /\ bucket' = IF bucket <= RateLimit THEN bucket + 1 ELSE bucket
    <3>1. CASE bucket + 1 <= RateLimit
      <4>1. WithinRate(bucket) = TRUE
        BY <3>1 DEF WithinRate
      <4>2. ruling' = [ruling EXCEPT ![f] = TRUE]
        BY <2>2, <4>1
      <4>3. bucket' = bucket + 1 /\ bucket' \in 0 .. RateLimit + 1
        BY <2>1, <2>2, <3>1
      <4> QED
        BY <3>1, <4>2, <4>3
    <3>2. CASE ~(bucket + 1 <= RateLimit)
      <4>1. WithinRate(bucket) = FALSE
        BY <3>2 DEF WithinRate
      <4>2. ruling' = [ruling EXCEPT ![f] = FALSE]
        BY <2>2, <4>1
      <4>3. (bucket' = bucket \/ bucket' = bucket + 1) /\ bucket' \in 0 .. RateLimit + 1
        BY <2>1, <2>2
      <4> QED
        BY <4>2, <4>3
    <3> QED
      BY <3>1, <3>2
  <2>3. CASE ruling' = [ruling EXCEPT ![f] = FALSE] /\ UNCHANGED bucket
    BY <2>1, <2>3
  <2> QED
    BY <2>2, <2>3 DEF Process
<1>3. /\ attempt' \in [Callers -> 0 .. MaxRetries + 1] /\ attempt'[f] = 1
      /\ CallersStay(f)
  BY <1>1, <1>2 DEF PipeShapes, CallersStay
<1>4. ruling' \in [Callers -> BOOLEAN] /\ ruling'[f] = b
  BY <1>2 DEF PipeShapes
<1>5. PipeShapes' /\ LocalsHeld'
  <2>1. /\ issued' \in {issued, issued + 1} /\ issued' <= MaxSignals
        /\ pending' \in Seq(1 .. MaxSignals) /\ queued' = queued
        /\ \A i \in 1 .. Len(pending') : pending'[i] \in queued
        /\ call' \in [Callers -> Calls] /\ batch' \in [Callers -> Seq(1 .. MaxSignals)]
        /\ \A i \in 1 .. Len(batch'[f]) : batch'[f][i] <= issued'
        /\ flushed' \in [Callers -> Nat] /\ accepted' \subseteq 1 .. issued
        /\ sunk' \subseteq 1 .. issued
    BY <1>1 DEF PipeShapes
  <2>2. /\ call'[f] # "none" /\ batch'[f] # <<>> /\ attempt'[f] # 0
    BY <1>1, <1>3
  <2> QED
    BY <1>2, <1>3, <1>4, <2>1, <2>2, PipeCallerShapes
<1>6. RateHeld'
  <2>1. CASE ~b
    <3>0. ~ruling'[f]
      BY <1>4, <2>1
    <3>1. Claimed' \subseteq Claimed
      BY <1>1, <1>3, <3>0, ClaimedShrinks
    <3>2. bucket' \in Nat /\ bucket <= bucket'
      BY <1>2 DEF PipeShapes
    <3> QED
      BY <3>1, <3>2, RateKept
  <2>2. CASE b
    <3>1. Claimed' \subseteq Claimed \cup {Head(batch[f])}
      BY <1>1, <1>3 DEF Claimed, CallersStay
    <3>2. PICK h : h = Head(batch[f])
      OBVIOUS
    <3>3. IsFiniteSet(Claimed \cup {h}) /\ Cardinality(Claimed \cup {h}) <= Cardinality(Claimed) + 1
          /\ Cardinality(Claimed) \in Nat
      <4>1. IsFiniteSet(Claimed) /\ Cardinality(Claimed) \in Nat
        BY ClaimedFinite
      <4>2. /\ IsFiniteSet(Claimed \cup {h})
            /\ \/ Cardinality(Claimed \cup {h}) = Cardinality(Claimed)
               \/ Cardinality(Claimed \cup {h}) = Cardinality(Claimed) + 1
        BY <4>1, FS_AddElement
      <4> QED
        BY <4>1, <4>2
    <3>4. Cardinality(Claimed') <= Cardinality(Claimed \cup {h}) /\ IsFiniteSet(Claimed')
      BY <3>1, <3>2, <3>3, FS_Subset
    <3>5. Cardinality(Claimed') \in Nat /\ Cardinality(Claimed \cup {h}) \in Nat
      BY <3>3, <3>4, FS_CardinalityType
    <3> QED
      BY <1>2, <2>2, <3>3, <3>4, <3>5 DEF RateHeld, PipeShapes
  <2> QED
    BY <2>1, <2>2
<1>7. FlushHeld'
  BY <1>1 DEF FlushHeld, Flushing, FrontIsSunk
<1> QED
  BY <1>5, <1>6, <1>7

\* A failed attempt of the sink preserves the invariant.
LEMMA PipeRetry ==
    ASSUME PipeInv, NEW f \in Callers, Retry(f)
    PROVE  PipeInv'
<1> USE PipelineConstants DEF PipeInv
<1>1. /\ call[f] # "none" /\ batch[f] # <<>> /\ attempt[f] > 0 /\ attempt[f] <= MaxRetries
      /\ attempt' = [attempt EXCEPT ![f] = IF attempt[f] < MaxAttempt THEN attempt[f] + 1
                                           ELSE attempt[f]]
      /\ UNCHANGED <<pending, issued, bucket, call, batch, flushed, ruling, sunk, queued, raced>>
  BY DEF Retry, Sinking
<1>2. \A n \in accepted' : n \in accepted \/ (ruling[f] /\ n = Head(batch[f]))
  BY DEF Retry, StoreRecord
<1>3. /\ attempt' \in [Callers -> 0 .. MaxRetries + 1] /\ attempt'[f] # 0
      /\ CallersStay(f)
  BY <1>1 DEF PipeShapes, CallersStay
<1>4. PipeShapes' /\ LocalsHeld'
  <2>1. /\ issued' \in {issued, issued + 1} /\ issued' <= MaxSignals
        /\ bucket' \in 0 .. RateLimit + 1
        /\ pending' \in Seq(1 .. MaxSignals) /\ queued' = queued
        /\ \A i \in 1 .. Len(pending') : pending'[i] \in queued
        /\ call' \in [Callers -> Calls] /\ batch' \in [Callers -> Seq(1 .. MaxSignals)]
        /\ \A i \in 1 .. Len(batch'[f]) : batch'[f][i] <= issued'
        /\ flushed' \in [Callers -> Nat] /\ ruling' \in [Callers -> BOOLEAN]
        /\ sunk' \subseteq 1 .. issued
    BY <1>1 DEF PipeShapes
  <2>2. accepted' \subseteq 1 .. issued
    BY <1>1, <1>2, BatchMembers DEF PipeShapes
  <2>3. /\ call'[f] # "none" /\ batch'[f] # <<>>
    BY <1>1
  <2> QED
    BY <1>3, <2>1, <2>2, <2>3, PipeCallerShapes
<1>5. RateHeld'
  <2>1. Claimed' \subseteq Claimed
    BY <1>1, <1>2, <1>3, ClaimedShrinks
  <2>2. bucket' \in Nat /\ bucket <= bucket'
    BY <1>1 DEF PipeShapes
  <2> QED
    BY <2>1, <2>2, RateKept
<1>6. FlushHeld'
  BY <1>1 DEF FlushHeld, Flushing, FrontIsSunk
<1> QED
  BY <1>4, <1>5, <1>6

\* A flush that gives up leaves the queue as it is.
LEMMA PipeGiveUp ==
    ASSUME PipeInv, NEW f \in Callers, GiveUp(f)
    PROVE  PipeInv'
<1> USE PipelineConstants DEF PipeInv
<1>1. /\ call[f] # "none" /\ batch[f] # <<>> /\ EndCall(f)
      /\ UNCHANGED <<pending, issued, bucket, sunk, queued, raced>>
  BY DEF GiveUp, Sinking
<1>2. \A n \in accepted' : n \in accepted \/ (ruling[f] /\ n = Head(batch[f]))
  BY DEF GiveUp, StoreRecord
<1>3. /\ CallersStay(f) /\ call'[f] = "none" /\ batch'[f] = <<>>
      /\ flushed'[f] = 0 /\ attempt'[f] = 0 /\ ~ruling'[f]
      /\ call' \in [Callers -> Calls] /\ batch' \in [Callers -> Seq(1 .. MaxSignals)]
      /\ flushed' \in [Callers -> Nat] /\ attempt' \in [Callers -> 0 .. MaxRetries + 1]
      /\ ruling' \in [Callers -> BOOLEAN]
  BY <1>1, EndEffect
<1>4. PipeShapes' /\ LocalsHeld'
  <2>1. /\ issued' \in {issued, issued + 1} /\ issued' <= MaxSignals
        /\ bucket' \in 0 .. RateLimit + 1
        /\ pending' \in Seq(1 .. MaxSignals) /\ queued' = queued
        /\ \A i \in 1 .. Len(pending') : pending'[i] \in queued
        /\ sunk' \subseteq 1 .. issued
    BY <1>1 DEF PipeShapes
  <2>2. accepted' \subseteq 1 .. issued
    BY <1>1, <1>2, BatchMembers DEF PipeShapes
  <2>3. \A i \in 1 .. Len(batch'[f]) : batch'[f][i] <= issued'
    BY <1>3
  <2> QED
    BY <1>3, <2>1, <2>2, <2>3, PipeCallerShapes
<1>5. RateHeld'
  <2>1. Claimed' \subseteq Claimed
    BY <1>2, <1>3, ClaimedShrinks
  <2>2. bucket' \in Nat /\ bucket <= bucket'
    BY <1>1 DEF PipeShapes
  <2> QED
    BY <2>1, <2>2, RateKept
<1>6. FlushHeld'
  <2>1. \A g \in Flushing' : /\ g \in Flushing /\ call'[g] = call[g] /\ batch'[g] = batch[g]
                             /\ flushed'[g] = flushed[g]
    BY <1>3 DEF Flushing, CallersStay
  <2> QED
    BY <1>1, <2>1 DEF FlushHeld, FrontIsSunk
<1> QED
  BY <1>4, <1>5, <1>6

\* What has gone through the sink joins the front, the batch is shorter by its head.
LEMMA PipeSink ==
    ASSUME PipeInv, NEW f \in Callers, Sink(f)
    PROVE  PipeInv'
<1> USE PipelineConstants DEF PipeInv
<1>1. /\ call[f] # "none" /\ batch[f] # <<>>
      /\ sunk' = sunk \cup {Head(batch[f])}
      /\ batch' = [batch EXCEPT ![f] = Tail(batch[f])]
      /\ flushed' = [flushed EXCEPT ![f] = flushed[f] + 1]
      /\ attempt' = [attempt EXCEPT ![f] = 0]
      /\ ruling' = [ruling EXCEPT ![f] = FALSE]
      /\ UNCHANGED <<pending, issued, bucket, call, queued, raced>>
  BY DEF Sink, Sinking
<1>2. \A n \in accepted' : n \in accepted \/ (ruling[f] /\ n = Head(batch[f]))
  BY DEF Sink, StoreRecord
<1>3. /\ batch[f] \in Seq(1 .. MaxSignals) /\ Len(batch[f]) \in Nat /\ Len(batch[f]) # 0
      /\ \A i \in 1 .. Len(batch[f]) : batch[f][i] \in 1 .. issued
      /\ Head(batch[f]) = batch[f][1] /\ Head(batch[f]) \in 1 .. issued
  BY <1>1, BatchMembers
<1>4. /\ Tail(batch[f]) \in Seq(1 .. MaxSignals) /\ Len(Tail(batch[f])) = Len(batch[f]) - 1
      /\ \A i \in 1 .. Len(batch[f]) - 1 : Tail(batch[f])[i] = batch[f][i + 1]
  BY <1>1, <1>3, HeadTailProperties
<1>5. /\ batch' \in [Callers -> Seq(1 .. MaxSignals)] /\ batch'[f] = Tail(batch[f])
      /\ flushed' \in [Callers -> Nat] /\ flushed'[f] = flushed[f] + 1
      /\ attempt' \in [Callers -> 0 .. MaxRetries + 1] /\ attempt'[f] = 0
      /\ flushed[f] \in Nat
  BY <1>1, <1>4 DEF PipeShapes
<1>6. ruling' \in [Callers -> BOOLEAN] /\ ~ruling'[f]
  BY <1>1 DEF PipeShapes
<1>7. CallersStay(f)
  BY <1>1 DEF PipeShapes, CallersStay
<1>8. PipeShapes' /\ LocalsHeld'
  <2>1. /\ issued' \in {issued, issued + 1} /\ issued' <= MaxSignals
        /\ bucket' \in 0 .. RateLimit + 1
        /\ pending' \in Seq(1 .. MaxSignals) /\ queued' = queued
        /\ \A i \in 1 .. Len(pending') : pending'[i] \in queued
        /\ call' \in [Callers -> Calls]
    BY <1>1 DEF PipeShapes
  <2>2. accepted' \subseteq 1 .. issued /\ sunk' \subseteq 1 .. issued
    BY <1>1, <1>2, <1>3 DEF PipeShapes
  <2>3. \A i \in 1 .. Len(batch'[f]) : batch'[f][i] <= issued'
    BY <1>1, <1>3, <1>4, <1>5
  <2>4. call'[f] # "none"
    BY <1>1
  <2> QED
    BY <1>5, <1>6, <1>7, <2>1, <2>2, <2>3, <2>4, PipeCallerShapes
<1>9. RateHeld'
  <2>1. Claimed' \subseteq Claimed
    BY <1>2, <1>6, <1>7, ClaimedShrinks
  <2>2. bucket' \in Nat /\ bucket <= bucket'
    BY <1>1 DEF PipeShapes
  <2> QED
    BY <2>1, <2>2, RateKept
<1>10. FlushHeld'
  <2> SUFFICES ASSUME ~raced
               PROVE  /\ \A g, h \in Flushing' : g = h
                      /\ \A g \in Flushing' : FrontIsSunk(g)'
                      /\ \A n \in queued : n \in sunk' \/ \E i \in 1 .. Len(pending) : pending[i] = n
    BY <1>1 DEF FlushHeld
  <2>1. Flushing' = Flushing
    BY <1>1 DEF Flushing
  <2>2. ASSUME NEW g \in Flushing PROVE FrontIsSunk(g)'
    <3>1. FrontIsSunk(g) /\ g \in Callers
      BY <2>2 DEF FlushHeld, Flushing
    <3>2. CASE g # f
      <4>1. batch'[g] = batch[g] /\ flushed'[g] = flushed[g] /\ call'[g] = call[g]
        BY <1>7, <3>1, <3>2 DEF CallersStay
      <4> QED
        BY <1>1, <3>1, <4>1 DEF FrontIsSunk
    <3>3. CASE g = f
      <4>0. flushed[f] \in Nat /\ Len(batch[f]) \in Nat
        BY <1>3, <1>5
      <4>1. /\ flushed[f] + Len(batch[f]) <= Len(pending)
            /\ \A i \in 1 .. flushed[f] : pending[i] \in sunk
            /\ \A i \in 1 .. Len(batch[f]) : batch[f][i] = pending[flushed[f] + i]
            /\ call[f] = "shutdown" => flushed[f] + Len(batch[f]) = Len(pending)
        BY <3>1, <3>3 DEF FrontIsSunk
      <4>2. pending[flushed[f] + 1] \in sunk'
        BY <1>1, <1>3, <4>1
      <4>3. ASSUME NEW i \in 1 .. flushed[f] + 1 PROVE pending[i] \in sunk'
        BY <1>1, <1>5, <4>1, <4>2
      <4>4. ASSUME NEW i \in 1 .. Len(batch[f]) - 1
            PROVE  Tail(batch[f])[i] = pending[flushed[f] + 1 + i]
        <5>1. Tail(batch[f])[i] = batch[f][i + 1] /\ i + 1 \in 1 .. Len(batch[f])
          BY <1>3, <1>4
        <5>2. batch[f][i + 1] = pending[flushed[f] + (i + 1)]
          BY <4>1, <5>1
        <5>3. flushed[f] + (i + 1) = flushed[f] + 1 + i
          BY <4>0
        <5> QED
          BY <5>1, <5>2, <5>3
      <4>5. flushed[f] + 1 + (Len(batch[f]) - 1) = flushed[f] + Len(batch[f])
        BY <4>0
      <4> QED
        BY <1>1, <1>4, <1>5, <3>3, <4>1, <4>3, <4>4, <4>5 DEF FrontIsSunk
    <3> QED
      BY <3>2, <3>3
  <2>3. /\ \A g, h \in Flushing : g = h
        /\ \A n \in queued : n \in sunk \/ \E i \in 1 .. Len(pending) : pending[i] = n
    BY DEF FlushHeld
  <2> QED
    BY <1>1, <2>1, <2>2, <2>3
<1> QED
  BY <1>8, <1>9, <1>10

\* The queue after a flush that has sunk so many signals: what comes after them.
LEMMA QueueTail ==
    ASSUME PipeShapes, NEW n \in Nat
    PROVE  /\ SubSeq(pending, n + 1, Len(pending)) \in Seq(1 .. MaxSignals)
           /\ Len(pending) \in Nat
           /\ Len(SubSeq(pending, n + 1, Len(pending)))
                = IF n < Len(pending) THEN Len(pending) - n ELSE 0
           /\ \A i \in 1 .. Len(SubSeq(pending, n + 1, Len(pending))) :
                 SubSeq(pending, n + 1, Len(pending))[i] = pending[n + i] /\ n + i \in 1 .. Len(pending)
<1>1. pending \in Seq(1 .. MaxSignals) /\ Len(pending) \in Nat
  BY DEF PipeShapes
<1>2. \A i \in 1 .. Len(pending) : pending[i] \in 1 .. MaxSignals
  BY <1>1, ElementOfSeq
<1>3. ASSUME NEW i \in n + 1 .. Len(pending) PROVE pending[i] \in 1 .. MaxSignals
  BY <1>1, <1>2
<1>4. SubSeq(pending, n + 1, Len(pending)) \in Seq(1 .. MaxSignals)
  BY <1>1, <1>3, SubSeqProperties
<1>5. Len(SubSeq(pending, n + 1, Len(pending))) = IF n < Len(pending) THEN Len(pending) - n ELSE 0
  BY <1>1
<1>6. ASSUME NEW i \in 1 .. Len(SubSeq(pending, n + 1, Len(pending)))
      PROVE  /\ SubSeq(pending, n + 1, Len(pending))[i] = pending[n + i]
             /\ n + i \in 1 .. Len(pending)
  <2>1. n < Len(pending) /\ i \in 1 .. Len(pending) - n
    BY <1>1, <1>5
  <2> QED
    BY <1>1, <2>1
<1> QED
  BY <1>1, <1>4, <1>5, <1>6

\* A flush that is through removes what it has sunk, and nothing else.
LEMMA PipeDrain ==
    ASSUME PipeInv, NEW f \in Callers, Drain(f)
    PROVE  PipeInv'
<1> USE PipelineConstants DEF PipeInv
<1>1. /\ call[f] # "none" /\ batch[f] = <<>> /\ EndCall(f)
      /\ UNCHANGED <<issued, bucket, accepted, sunk, queued, raced>>
  BY DEF Drain
<1>2. /\ CallersStay(f) /\ call'[f] = "none" /\ batch'[f] = <<>>
      /\ flushed'[f] = 0 /\ attempt'[f] = 0 /\ ~ruling'[f]
      /\ call' \in [Callers -> Calls] /\ batch' \in [Callers -> Seq(1 .. MaxSignals)]
      /\ flushed' \in [Callers -> Nat] /\ attempt' \in [Callers -> 0 .. MaxRetries + 1]
      /\ ruling' \in [Callers -> BOOLEAN]
  BY <1>1, EndEffect
<1>3. \/ call[f] = "flush" /\ pending' = SubSeq(pending, flushed[f] + 1, Len(pending))
      \/ call[f] = "shutdown" /\ pending' = <<>>
      \/ call[f] = "emit" /\ pending' = pending
  BY <1>1 DEF Drain, PipeShapes, Calls
<1>4. flushed[f] \in Nat
  BY DEF PipeShapes
<1>5. pending' \in Seq(1 .. MaxSignals) /\ \A i \in 1 .. Len(pending') : pending'[i] \in queued
  <2>1. CASE pending' = SubSeq(pending, flushed[f] + 1, Len(pending))
    <3>1. PICK n \in Nat : n = flushed[f]
      BY <1>4
    <3>2. PICK q : q = SubSeq(pending, n + 1, Len(pending))
      OBVIOUS
    <3>3. /\ q \in Seq(1 .. MaxSignals)
          /\ \A i \in 1 .. Len(q) : q[i] = pending[n + i] /\ n + i \in 1 .. Len(pending)
      BY <3>2, QueueTail
    <3>4. \A i \in 1 .. Len(q) : q[i] \in queued
      BY <3>3 DEF PipeShapes
    <3>5. pending' = q
      BY <2>1, <3>1, <3>2
    <3> QED
      BY <3>3, <3>4, <3>5
  <2>2. CASE pending' = pending
    BY <2>2 DEF PipeShapes
  <2>3. CASE pending' = <<>>
    <3>1. Len(pending') = 0 /\ pending' \in Seq(1 .. MaxSignals)
      BY <2>3
    <3> QED
      BY <3>1
  <2> QED
    BY <1>3, <2>1, <2>2, <2>3
<1>6. PipeShapes' /\ LocalsHeld'
  <2>1. /\ issued' \in {issued, issued + 1} /\ issued' <= MaxSignals
        /\ bucket' \in 0 .. RateLimit + 1 /\ queued' = queued
        /\ sunk' \subseteq 1 .. issued /\ accepted' \subseteq 1 .. issued
    BY <1>1 DEF PipeShapes
  <2>2. \A i \in 1 .. Len(batch'[f]) : batch'[f][i] <= issued'
    BY <1>2
  <2> QED
    BY <1>2, <1>5, <2>1, <2>2, PipeCallerShapes
<1>7. RateHeld'
  <2>1. Claimed' \subseteq Claimed
    BY <1>1, <1>2, ClaimedShrinks
  <2>2. bucket' \in Nat /\ bucket <= bucket'
    BY <1>1 DEF PipeShapes
  <2> QED
    BY <2>1, <2>2, RateKept
<1>8. FlushHeld'
  <2> SUFFICES ASSUME ~raced
               PROVE  /\ \A g, h \in Flushing' : g = h
                      /\ \A g \in Flushing' : FrontIsSunk(g)'
                      /\ \A n \in queued : \/ n \in sunk
                                           \/ \E i \in 1 .. Len(pending') : pending'[i] = n
    BY <1>1 DEF FlushHeld
  <2>1. /\ \A g, h \in Flushing : g = h
        /\ \A g \in Flushing : FrontIsSunk(g)
        /\ \A n \in queued : n \in sunk \/ \E i \in 1 .. Len(pending) : pending[i] = n
    BY DEF FlushHeld
  <2>2. \A g \in Flushing' : /\ g \in Flushing /\ g # f /\ call'[g] = call[g]
                             /\ batch'[g] = batch[g] /\ flushed'[g] = flushed[g]
    BY <1>2 DEF Flushing, CallersStay
  <2>3. CASE call[f] = "emit" /\ pending' = pending
    <3>1. ASSUME NEW g \in Flushing' PROVE FrontIsSunk(g)'
      BY <1>1, <2>1, <2>2, <2>3, <3>1 DEF FrontIsSunk
    <3> QED
      BY <2>1, <2>2, <2>3, <3>1
  <2>4. CASE f \in Flushing
    <3>1. Flushing' = {}
      BY <2>1, <2>2, <2>4
    <3>2. /\ 0 <= Len(pending) /\ flushed[f] <= Len(pending)
          /\ \A i \in 1 .. flushed[f] : pending[i] \in sunk
          /\ call[f] = "shutdown" => flushed[f] = Len(pending)
      <4>1. FrontIsSunk(f) /\ Len(batch[f]) = 0
        BY <1>1, <2>1, <2>4
      <4> QED
        BY <1>4, <4>1 DEF FrontIsSunk
    <3>3. ASSUME NEW n \in queued, n \notin sunk
          PROVE  \E i \in 1 .. Len(pending') : pending'[i] = n
      <4>1. PICK i \in 1 .. Len(pending) : pending[i] = n
        BY <2>1, <3>3
      <4>2. ~(i \in 1 .. flushed[f])
        BY <3>2, <3>3, <4>1
      <4>3. Len(pending) \in Nat
        BY DEF PipeShapes
      <4>4. i \in flushed[f] + 1 .. Len(pending)
        BY <1>4, <4>1, <4>2, <4>3
      <4>5. call[f] # "shutdown"
        BY <1>4, <3>2, <4>3, <4>4
      <4>6. pending' = SubSeq(pending, flushed[f] + 1, Len(pending))
        BY <1>3, <2>4, <4>5 DEF Flushing
      <4>7. i - flushed[f] \in 1 .. Len(pending') /\ flushed[f] + (i - flushed[f]) = i
        <5>1. Len(pending') = IF flushed[f] < Len(pending) THEN Len(pending) - flushed[f] ELSE 0
          BY <1>4, <4>6, QueueTail
        <5> QED
          BY <1>4, <4>3, <4>4, <5>1
      <4>8. pending'[i - flushed[f]] = pending[flushed[f] + (i - flushed[f])]
        BY <1>4, <4>6, <4>7, QueueTail
      <4> QED
        BY <4>1, <4>7, <4>8
    <3> QED
      BY <3>1, <3>3
  <2> QED
    BY <1>3, <2>3, <2>4 DEF Flushing
<1> QED
  BY <1>6, <1>7, <1>8

\* A signal joins the queue behind what the flushes have copied.
LEMMA PipeEnqueue ==
    ASSUME PipeInv, Enqueue
    PROVE  PipeInv'
<1> USE PipelineConstants DEF PipeInv
<1>1. /\ issued < MaxSignals /\ issued' = issued + 1
      /\ pending' = Append(pending, issued + 1)
      /\ queued' = queued \cup {issued + 1}
      /\ UNCHANGED <<bucket, call, batch, flushed, attempt, ruling, accepted, sunk>>
  BY DEF Enqueue
<1>2. ~raced' => ~raced /\ \A f \in Callers : call[f] # "shutdown"
  BY DEF Enqueue
<1>3. issued \in Nat /\ issued + 1 \in 1 .. MaxSignals /\ 1 .. issued \subseteq 1 .. issued + 1
  BY <1>1 DEF PipeShapes
<1>4. /\ pending \in Seq(1 .. MaxSignals) /\ Len(pending) \in Nat
      /\ pending' \in Seq(1 .. MaxSignals) /\ Len(pending') = Len(pending) + 1
      /\ \A i \in 1 .. Len(pending) : pending'[i] = pending[i]
      /\ pending'[Len(pending) + 1] = issued + 1
  <2>1. pending \in Seq(1 .. MaxSignals) /\ Len(pending) \in Nat
    BY DEF PipeShapes
  <2> QED
    BY <1>1, <1>3, <2>1, AppendProperties
<1>5. PipeShapes'
  <2>1. \A i \in 1 .. Len(pending') : pending'[i] \in queued'
    <3> SUFFICES ASSUME NEW i \in 1 .. Len(pending') PROVE pending'[i] \in queued'
      OBVIOUS
    <3>1. CASE i \in 1 .. Len(pending)
      BY <1>1, <1>4, <3>1 DEF PipeShapes
    <3>2. CASE i = Len(pending) + 1
      BY <1>1, <1>4, <3>2
    <3> QED
      BY <1>4, <3>1, <3>2
  <2>2. queued' \subseteq 1 .. issued'
    BY <1>1, <1>3 DEF PipeShapes
  <2>3. accepted' \subseteq 1 .. issued' /\ sunk' \subseteq 1 .. issued'
    BY <1>1, <1>3 DEF PipeShapes
  <2>4. ASSUME NEW g \in Callers, NEW i \in 1 .. Len(batch'[g]) PROVE batch'[g][i] <= issued'
    <3>1. batch[g][i] \in 1 .. issued
      BY <1>1, BatchMembers
    <3> QED
      BY <1>1, <1>3, <3>1
  <2>5. issued' \in 0 .. MaxSignals
    BY <1>1, <1>3
  <2>6. /\ bucket' \in 0 .. RateLimit + 1 /\ call' \in [Callers -> Calls]
        /\ batch' \in [Callers -> Seq(1 .. MaxSignals)] /\ flushed' \in [Callers -> Nat]
        /\ attempt' \in [Callers -> 0 .. MaxRetries + 1]
    BY <1>1 DEF PipeShapes
  <2>7. ruling' \in [Callers -> BOOLEAN]
    BY <1>1 DEF PipeShapes
  <2> QED
    BY <1>4, <2>1, <2>2, <2>3, <2>4, <2>5, <2>6, <2>7 DEF PipeShapes
<1>6. LocalsHeld'
  BY <1>1 DEF LocalsHeld
<1>7. RateHeld'
  BY <1>1 DEF RateHeld, Claimed
<1>8. FlushHeld'
  <2> SUFFICES ASSUME ~raced'
               PROVE  /\ \A g, h \in Flushing' : g = h
                      /\ \A g \in Flushing' : FrontIsSunk(g)'
                      /\ \A n \in queued' : \/ n \in sunk'
                                            \/ \E i \in 1 .. Len(pending') : pending'[i] = n
    BY DEF FlushHeld
  <2>1. /\ \A g, h \in Flushing : g = h
        /\ \A g \in Flushing : FrontIsSunk(g)
        /\ \A n \in queued : n \in sunk \/ \E i \in 1 .. Len(pending) : pending[i] = n
        /\ \A g \in Callers : call[g] # "shutdown"
    BY <1>2 DEF FlushHeld
  <2>2. Flushing' = Flushing
    BY <1>1 DEF Flushing
  <2>3. ASSUME NEW g \in Flushing PROVE FrontIsSunk(g)'
    <3>1. /\ g \in Callers /\ flushed[g] \in Nat /\ Len(batch[g]) \in Nat
          /\ flushed[g] + Len(batch[g]) <= Len(pending)
          /\ \A i \in 1 .. flushed[g] : pending[i] \in sunk
          /\ \A i \in 1 .. Len(batch[g]) : batch[g][i] = pending[flushed[g] + i]
          /\ call[g] # "shutdown"
      BY <2>1, <2>3 DEF FrontIsSunk, Flushing, PipeShapes
    <3>2. flushed[g] + Len(batch[g]) <= Len(pending')
      BY <1>4, <3>1
    <3>3. ASSUME NEW i \in 1 .. flushed[g] PROVE pending'[i] \in sunk'
      <4>1. i \in 1 .. Len(pending)
        BY <1>4, <3>1
      <4> QED
        BY <1>1, <1>4, <3>1, <4>1
    <3>4. ASSUME NEW i \in 1 .. Len(batch[g]) PROVE batch[g][i] = pending'[flushed[g] + i]
      <4>0. flushed[g] \in Nat /\ Len(batch[g]) \in Nat /\ Len(pending) \in Nat
            /\ flushed[g] + Len(batch[g]) <= Len(pending)
        BY <1>4, <3>1
      <4>1. flushed[g] + i \in 1 .. Len(pending)
        BY <4>0
      <4> QED
        BY <1>4, <3>1, <4>1
    <3> QED
      BY <1>1, <3>1, <3>2, <3>3, <3>4 DEF FrontIsSunk
  <2>4. ASSUME NEW n \in queued', n \notin sunk'
        PROVE  \E i \in 1 .. Len(pending') : pending'[i] = n
    <3>1. CASE n = issued + 1
      <4>1. Len(pending) + 1 \in 1 .. Len(pending')
        BY <1>4
      <4> QED
        BY <1>4, <3>1, <4>1
    <3>2. CASE n \in queued
      <4>1. PICK i \in 1 .. Len(pending) : pending[i] = n
        BY <1>1, <2>1, <2>4, <3>2
      <4>2. i \in 1 .. Len(pending') /\ pending'[i] = n
        BY <1>4, <4>1
      <4> QED
        BY <4>2
    <3> QED
      BY <1>1, <2>4, <3>1, <3>2
  <2> QED
    BY <2>1, <2>2, <2>3, <2>4
<1> QED
  BY <1>5, <1>6, <1>7, <1>8

\* A call that begins with a copy of the front of the queue, or with a new signal.
LEMMA PipeBegins ==
    ASSUME PipeInv, NEW f \in Callers, BeginFlush(f) \/ BeginShutdown(f) \/ Emit(f)
    PROVE  PipeInv'
<1> USE PipelineConstants DEF PipeInv
<1>1. /\ pending \in Seq(1 .. MaxSignals) /\ Len(pending) \in Nat /\ issued \in 0 .. MaxSignals
      /\ \A i \in 1 .. Len(pending) : pending[i] \in 1 .. issued /\ pending[i] \in 1 .. MaxSignals
  <2>1. pending \in Seq(1 .. MaxSignals) /\ Len(pending) \in Nat /\ issued \in 0 .. MaxSignals
    BY DEF PipeShapes
  <2> QED
    BY <2>1, ElementOfSeq DEF PipeShapes
<1>2. PICK what \in Calls \ {"none"}, signals \in Seq(1 .. MaxSignals) :
        /\ Begin(f, what, signals)
        /\ issued' \in {issued, issued + 1} /\ issued' <= MaxSignals
        /\ \A i \in 1 .. Len(signals) : signals[i] <= issued'
        /\ UNCHANGED <<pending, bucket, flushed, attempt, ruling, accepted, sunk, queued>>
        /\ what # "emit" => /\ ~raced' => ~raced /\ Flushing = {}
                            /\ Len(signals) <= Len(pending)
                            /\ \A i \in 1 .. Len(signals) : signals[i] = pending[i]
        /\ what = "shutdown" => signals = pending
        /\ what = "emit" => raced' = raced
  <2>1. CASE BeginFlush(f)
    <3>1. PICK s : s = SubSeq(pending, 1, BatchSize)
      OBVIOUS
    <3>2. BatchSize <= Len(pending) /\ BatchSize \in Nat
      BY <2>1, <1>1 DEF BeginFlush
    <3>3. s \in Seq(1 .. MaxSignals) /\ Len(s) = BatchSize
          /\ \A i \in 1 .. BatchSize : s[i] = pending[i]
      <4>1. \A i \in 1 .. BatchSize : pending[i] \in 1 .. MaxSignals
        BY <1>1, <3>2
      <4>2. s \in Seq(1 .. MaxSignals)
        BY <1>1, <3>1, <3>2, <4>1, SubSeqProperties
      <4> QED
        BY <1>1, <3>1, <3>2, <4>2
    <3>4. /\ Begin(f, "flush", s)
          /\ UNCHANGED <<pending, issued, bucket, flushed, attempt, ruling, accepted, sunk, queued>>
      BY <2>1, <3>1 DEF BeginFlush
    <3>5. ~raced' => ~raced /\ Flushing = {}
      BY <2>1 DEF BeginFlush
    <3>6. \A i \in 1 .. Len(s) : s[i] <= issued' /\ s[i] = pending[i]
      BY <1>1, <3>2, <3>3, <3>4
    <3>7. issued' \in {issued, issued + 1} /\ issued' <= MaxSignals
      BY <1>1, <3>4
    <3>8. "flush" \in Calls \ {"none"}
      BY DEF Calls
    <3> QED
      BY <3>2, <3>3, <3>4, <3>5, <3>6, <3>7, <3>8
  <2>2. CASE BeginShutdown(f)
    <3>4. /\ Begin(f, "shutdown", pending)
          /\ UNCHANGED <<pending, issued, bucket, flushed, attempt, ruling, accepted, sunk, queued>>
      BY <2>2 DEF BeginShutdown
    <3>5. ~raced' => ~raced /\ Flushing = {}
      BY <2>2 DEF BeginShutdown
    <3>6. \A i \in 1 .. Len(pending) : pending[i] <= issued'
      BY <1>1, <3>4
    <3>7. issued' \in {issued, issued + 1} /\ issued' <= MaxSignals /\ Len(pending) <= Len(pending)
      BY <1>1, <3>4
    <3>8. "shutdown" \in Calls \ {"none"}
      BY DEF Calls
    <3> QED
      BY <1>1, <3>4, <3>5, <3>6, <3>7, <3>8
  <2>3. CASE Emit(f)
    <3>1. PICK s : s = <<issued + 1>>
      OBVIOUS
    <3>2. /\ Begin(f, "emit", s) /\ issued < MaxSignals /\ issued' = issued + 1
          /\ UNCHANGED <<pending, bucket, flushed, attempt, ruling, accepted, sunk, queued, raced>>
      BY <2>3, <3>1 DEF Emit
    <3>3. issued + 1 \in 1 .. MaxSignals
      BY <1>1, <3>2
    <3>4. s \in Seq(1 .. MaxSignals) /\ Len(s) = 1 /\ s[1] = issued + 1
      BY <3>1, <3>3
    <3>5. \A i \in 1 .. Len(s) : s[i] <= issued'
      BY <1>1, <3>2, <3>4
    <3>6. issued' \in {issued, issued + 1} /\ issued' <= MaxSignals
      BY <3>2, <3>3
    <3>7. "emit" \in Calls \ {"none"}
      BY DEF Calls
    <3> QED
      BY <3>2, <3>4, <3>5, <3>6, <3>7
  <2> QED
    BY <2>1, <2>2, <2>3
<1>3. /\ CallersStay(f) /\ call'[f] = what /\ batch'[f] = signals
      /\ call[f] = "none" /\ flushed'[f] = 0 /\ attempt'[f] = 0 /\ ~ruling'[f]
      /\ call' \in [Callers -> Calls] /\ batch' \in [Callers -> Seq(1 .. MaxSignals)]
  <2>1. UNCHANGED <<flushed, attempt, ruling>> /\ Begin(f, what, signals)
    BY <1>2
  <2> QED
    BY <2>1, BeginEffect
<1>4. PipeShapes' /\ LocalsHeld'
  <2>1. /\ bucket' \in 0 .. RateLimit + 1
        /\ pending' \in Seq(1 .. MaxSignals) /\ queued' = queued
        /\ \A i \in 1 .. Len(pending') : pending'[i] \in queued
        /\ flushed' \in [Callers -> Nat] /\ attempt' \in [Callers -> 0 .. MaxRetries + 1]
        /\ sunk' \subseteq 1 .. issued /\ accepted' \subseteq 1 .. issued
    BY <1>2 DEF PipeShapes
  <2>2. ruling' \in [Callers -> BOOLEAN]
    BY <1>2 DEF PipeShapes
  <2>3. \A i \in 1 .. Len(batch'[f]) : batch'[f][i] <= issued'
    BY <1>2, <1>3
  <2>4. issued' \in {issued, issued + 1} /\ issued' <= MaxSignals
    BY <1>2
  <2> QED
    BY <1>3, <2>1, <2>2, <2>3, <2>4, PipeCallerShapes
<1>5. RateHeld'
  <2>1. Claimed' \subseteq Claimed
    BY <1>2, <1>3, ClaimedShrinks
  <2>2. bucket' \in Nat /\ bucket <= bucket'
    BY <1>2 DEF PipeShapes
  <2> QED
    BY <2>1, <2>2, RateKept
<1>6. FlushHeld'
  <2> SUFFICES ASSUME ~raced'
               PROVE  /\ \A g, h \in Flushing' : g = h
                      /\ \A g \in Flushing' : FrontIsSunk(g)'
                      /\ \A n \in queued' : \/ n \in sunk'
                                            \/ \E i \in 1 .. Len(pending') : pending'[i] = n
    BY DEF FlushHeld
  <2>1. ~raced /\ (what # "emit" => Flushing = {})
    BY <1>2
  <2>2. /\ \A g, h \in Flushing : g = h
        /\ \A g \in Flushing : FrontIsSunk(g)
        /\ \A n \in queued : n \in sunk \/ \E i \in 1 .. Len(pending) : pending[i] = n
    BY <2>1 DEF FlushHeld
  <2>3. ASSUME NEW g \in Flushing', g # f
        PROVE  /\ g \in Flushing /\ call'[g] = call[g]
               /\ batch'[g] = batch[g] /\ flushed'[g] = flushed[g]
    BY <1>3, <2>3 DEF Flushing, CallersStay
  <2>4. CASE what = "emit"
    <3>1. f \notin Flushing'
      BY <1>3, <2>4 DEF Flushing
    <3>2. ASSUME NEW g \in Flushing' PROVE FrontIsSunk(g)'
      <4>1. /\ FrontIsSunk(g) /\ call'[g] = call[g]
            /\ batch'[g] = batch[g] /\ flushed'[g] = flushed[g]
        BY <2>2, <2>3, <3>1, <3>2
      <4> QED
        BY <1>2, <4>1 DEF FrontIsSunk
    <3> QED
      BY <1>2, <2>2, <2>3, <3>1, <3>2
  <2>5. CASE what # "emit"
    <3>1. \A g \in Flushing' : g = f
      BY <2>1, <2>3, <2>5
    <3>2. /\ Len(signals) <= Len(pending) /\ Len(signals) \in Nat
          /\ \A i \in 1 .. Len(signals) : signals[i] = pending[i]
          /\ what = "shutdown" => Len(signals) = Len(pending)
      BY <1>2, <2>5
    <3>3. FrontIsSunk(f)'
      <4>1. \A i \in 1 .. Len(signals) : signals[i] = pending[0 + i]
        BY <3>2
      <4> QED
        BY <1>2, <1>3, <3>2, <4>1 DEF FrontIsSunk
    <3> QED
      BY <1>2, <2>2, <3>1, <3>3
  <2> QED
    BY <2>4, <2>5
<1> QED
  BY <1>4, <1>5, <1>6

\* One step of the pipeline.
LEMMA PipeStepInv ==
    ASSUME PipeInv, [PipeNext]_pipeVars
    PROVE  PipeInv'
<1>1. CASE Enqueue
  BY <1>1, PipeEnqueue
<1>2. ASSUME NEW f \in Callers, BeginFlush(f) \/ BeginShutdown(f) \/ Emit(f) PROVE PipeInv'
  BY <1>2, PipeBegins
<1>3. ASSUME NEW f \in Callers, PipeStep(f) PROVE PipeInv'
  BY <1>3, PipeProcess, PipeRetry, PipeGiveUp, PipeSink, PipeDrain DEF PipeStep
<1>4. CASE UNCHANGED pipeVars
  BY <1>4 DEF PipeInv, PipeShapes, LocalsHeld, RateHeld, Claimed, FlushHeld, Flushing,
              FrontIsSunk, pipeVars
<1> QED
  BY <1>1, <1>2, <1>3, <1>4 DEF PipeNext

\* The inductive invariant holds of every run of the pipeline.
THEOREM PipeInvariant == PipeSpec => []PipeInv
<1>1. PipeSpec => PipeInit /\ [][PipeNext]_pipeVars
  BY DEF PipeSpec
<1> QED
  BY <1>1, PipeInitInv, PipeStepInv, PTL

\* The invariant implies the types; what is accepted was claimed.
LEMMA PipeInvTypes == PipeInv => PipeTypeOK
<1> SUFFICES ASSUME PipeInv PROVE PipeTypeOK
  OBVIOUS
<1> USE PipelineConstants DEF PipeInv
<1>1. ToSet(pending) \subseteq queued
  BY DEF PipeShapes, ToSet
<1>2. ASSUME NEW f \in Callers PROVE ToSet(batch[f]) \subseteq 1 .. issued
  BY BatchMembers DEF ToSet
<1>3. Cardinality(accepted) <= RateLimit
  <2>1. accepted \subseteq Claimed /\ IsFiniteSet(Claimed)
    BY ClaimedFinite DEF Claimed
  <2>2. IsFiniteSet(accepted) /\ Cardinality(accepted) <= Cardinality(Claimed)
    BY <2>1, FS_Subset
  <2>3. Cardinality(accepted) \in Nat /\ Cardinality(Claimed) \in Nat
    BY <2>1, <2>2, FS_CardinalityType
  <2> QED
    BY <2>2, <2>3 DEF RateHeld
<1>4. ruling \in [Callers -> BOOLEAN]
  BY DEF PipeShapes
<1> QED
  BY <1>1, <1>2, <1>3, <1>4 DEF PipeTypeOK, PipeShapes

\* The pipeline keeps its types, and accepts no more signals than the rate limit allows
\* however often batches fail and are processed again.
THEOREM PipeTypes == PipeSpec => []PipeTypeOK
  BY PipeInvariant, PipeInvTypes, PTL

\* No signal is lost: whatever fails and is tried again, a signal that was enqueued is in
\* the queue or through the sink, unless flushes raced (NoSignalLost).
THEOREM NothingLost == PipeSpec => []NoSignalLost
<1>1. PipeInv => NoSignalLost
  <2> SUFFICES ASSUME PipeInv, ~raced PROVE queued \subseteq ToSet(pending) \cup sunk
    BY DEF NoSignalLost
  <2>1. pending \in Seq(1 .. MaxSignals) /\ DOMAIN pending = 1 .. Len(pending)
    BY DEF PipeInv, PipeShapes
  <2> QED
    BY <2>1 DEF PipeInv, FlushHeld, ToSet
<1> QED
  BY <1>1, PipeInvariant, PTL

\* Whoever steps, a caller inside a call stays where it is, returns, has one signal
\* less before it, or is at a later attempt at the same one.
CallersDescend ==
    \A f \in Callers : call[f] # "none" =>
        \/ call'[f] = call[f] /\ batch'[f] = batch[f] /\ attempt'[f] = attempt[f]
        \/ call'[f] = "none"
        \/ Len(batch'[f]) < Len(batch[f])
        \/ batch'[f] = batch[f] /\ attempt[f] < attempt'[f] /\ attempt'[f] <= MaxRetries + 1

\* Every step of the pipeline is such a step.
LEMMA DescendStep == ASSUME PipeInv, PipeNext PROVE CallersDescend
<1>1. /\ MaxRetries \in Nat /\ MaxAttempt \in Nat /\ MaxRetries < MaxAttempt
  BY PipelineConstants
<1>2. /\ call \in [Callers -> Calls] /\ batch \in [Callers -> Seq(1 .. MaxSignals)]
      /\ attempt \in [Callers -> 0 .. MaxRetries + 1]
  BY DEF PipeInv, PipeShapes
<1>3. ASSUME NEW f \in Callers, CallersStay(f),
             \/ call[f] = "none" \/ call'[f] = "none" \/ Len(batch'[f]) < Len(batch[f])
             \/ batch'[f] = batch[f] /\ attempt[f] < attempt'[f] /\ attempt'[f] <= MaxRetries + 1
      PROVE  CallersDescend
  BY <1>3 DEF CallersDescend, CallersStay
<1>4. CASE Enqueue
  BY <1>4 DEF Enqueue, CallersDescend
<1>5. ASSUME NEW f \in Callers, BeginFlush(f) \/ BeginShutdown(f) \/ Emit(f)
      PROVE  CallersDescend
  <2>1. /\ call[f] = "none" /\ UNCHANGED <<flushed, attempt, ruling>>
        /\ \E what, s : call' = [call EXCEPT ![f] = what] /\ batch' = [batch EXCEPT ![f] = s]
    BY <1>5 DEF BeginFlush, BeginShutdown, Emit, Begin
  <2>2. CallersStay(f)
    BY <1>2, <2>1 DEF CallersStay
  <2> QED
    BY <1>3, <2>1, <2>2
<1>6. ASSUME NEW f \in Callers, Process(f) PROVE CallersDescend
  <2>1. /\ attempt[f] = 0 /\ attempt' = [attempt EXCEPT ![f] = 1]
        /\ UNCHANGED <<call, batch>>
    BY <1>6 DEF Process
  <2>2. batch'[f] = batch[f] /\ attempt[f] < attempt'[f] /\ attempt'[f] <= MaxRetries + 1
    BY <1>1, <1>2, <2>1
  <2>3. \A g \in Callers : g # f => attempt'[g] = attempt[g]
    BY <1>2, <2>1
  <2> QED
    BY <2>1, <2>2, <2>3 DEF CallersDescend
<1>7. ASSUME NEW f \in Callers, Retry(f) PROVE CallersDescend
  <2>1. /\ attempt[f] <= MaxRetries /\ UNCHANGED <<call, batch>>
        /\ attempt' = [attempt EXCEPT ![f] = IF @ < MaxAttempt THEN @ + 1 ELSE @]
    BY <1>7 DEF Retry
  <2>2. attempt[f] \in Nat /\ attempt[f] < MaxAttempt
    BY <1>1, <1>2, <2>1
  <2>3. attempt'[f] = attempt[f] + 1
    BY <1>2, <2>1, <2>2
  <2>4. \A g \in Callers : g # f => attempt'[g] = attempt[g]
    BY <1>2, <2>1
  <2>5. attempt[f] < attempt'[f] /\ attempt'[f] <= MaxRetries + 1
    BY <1>1, <2>1, <2>2, <2>3
  <2> QED
    BY <2>1, <2>4, <2>5 DEF CallersDescend
<1>8. ASSUME NEW f \in Callers, GiveUp(f) \/ Drain(f) PROVE CallersDescend
  <2>1. EndCall(f)
    BY <1>8 DEF GiveUp, Drain
  <2>2. CallersStay(f) /\ call'[f] = "none"
    BY <2>1, EndEffect DEF PipeInv
  <2> QED
    BY <1>3, <2>2
<1>9. ASSUME NEW f \in Callers, Sink(f) PROVE CallersDescend
  <2>1. /\ batch[f] # <<>> /\ batch' = [batch EXCEPT ![f] = Tail(@)] /\ call' = call
        /\ attempt' = [attempt EXCEPT ![f] = 0]
    BY <1>9 DEF Sink, Sinking
  <2>2. batch'[f] = Tail(batch[f])
    BY <1>2, <2>1
  <2>3. Len(Tail(batch[f])) = Len(batch[f]) - 1 /\ Len(batch[f]) \in Nat
    BY <1>2, <2>1, HeadTailProperties
  <2>4. Len(batch'[f]) < Len(batch[f])
    BY <2>2, <2>3
  <2>5. \A g \in Callers : g # f => batch'[g] = batch[g] /\ attempt'[g] = attempt[g]
    BY <1>2, <2>1
  <2> QED
    BY <2>1, <2>4, <2>5 DEF CallersDescend
<1> QED
  BY <1>4, <1>5, <1>6, <1>7, <1>8, <1>9 DEF PipeNext, PipeStep

\* What CallsReturn rests on, for any callers, batch size and retries, with a sink that
\* may always fail: no step of anybody sets a call back, and each of its own brings it
\* closer to its return.
THEOREM CallsDescend == PipeSpec => [][CallersDescend]_pipeVars
<1>1. PipeInv /\ [PipeNext]_pipeVars => [CallersDescend]_pipeVars
  BY DescendStep
<1>2. PipeSpec => [][PipeNext]_pipeVars
  BY DEF PipeSpec
<1> QED
  BY <1>1, <1>2, PipeInvariant, PTL

-----------------------------------------------------------------------------
(* The four side by side *)

\* The invariants of the four loops side by side.
ControlInv == OrderInv /\ Inv /\ KernelInv /\ PipeInv

\* An ordering that has ended satisfies the invariant too.
LEMMA OrderDoneInv == OrderDone => OrderInv
<1> SUFFICES ASSUME OrderDone PROVE OrderInv
  OBVIOUS
<1> USE TasksAssumption
<1>1. /\ remaining = <<>> /\ satisfied = TaskSet /\ cursor = 1 /\ progressed = FALSE
  BY DEF OrderDone
<1>2. ordered \in Seq(TaskSet) /\ Len(ordered) = Tasks /\ \A i \in TaskSet : ordered[i] = i
  BY Given DEF OrderDone
<1>3. remaining \in Seq(TaskSet) /\ Len(remaining) = 0
  BY <1>1
<1>4. ASSUME NEW t \in TaskSet PROVE \E i \in 1 .. Len(ordered) : ordered[i] = t
  BY <1>2, <1>4 DEF TaskSet
<1>5. OrderHolds
  BY <1>1, <1>2, <1>3, <1>4 DEF OrderHolds
<1> QED
  BY <1>1, <1>5 DEF OrderInv

\* A step of the four is a step of each of them, or leaves it alone.
LEMMA ControlSteps ==
    ASSUME [MCNext]_mcVars
    PROVE  /\ [OrderNext]_orderVars /\ [BreakerNext]_breakerVars
           /\ [KernelNext]_kernelVars /\ [PipeNext]_pipeVars
<1>1. [OrderNext]_orderVars /\ [BreakerNext]_breakerVars
  BY DEF MCNext, InOrder, InBreaker, InKernel, InPipe, Ended, mcVars
<1>2. [KernelNext]_kernelVars /\ [PipeNext]_pipeVars
  BY DEF MCNext, InOrder, InBreaker, InKernel, InPipe, Ended, mcVars
<1> QED
  BY <1>1, <1>2

\* Every run of the four keeps the four invariants.
LEMMA ControlInvariant == MCSpec => []ControlInv
<1>1. MCInit => ControlInv
  BY OrderInitInv, OrderDoneInv, InvInit, KernelInitInv, PipeInitInv DEF MCInit, ControlInv
<1>2. ControlInv /\ [MCNext]_mcVars => ControlInv'
  BY ControlSteps, OrderStepInv, InvStep, KernelStepInv, PipeStepInv DEF ControlInv
<1>3. MCSpec => MCInit /\ [][MCNext]_mcVars
  BY PTL DEF MCSpec
<1> QED
  BY <1>1, <1>2, <1>3, PTL

\* The types and bounds of the four loops (ControlTypesOK): the ordering loses no task,
\* no breaker row is HalfOpen, no account of the kernel goes below zero, and no more
\* signals are accepted than the rate limit allows, for any tasks, calls, signals and
\* limits.
THEOREM ControlTypes == MCSpec => []ControlTypesOK
<1>1. PipeInv => PipeTypeOK
  BY PipeInvTypes
<1>2. ControlInv => ControlTypesOK
  BY <1>1, OrderInvTypes, InvImplies, KernelInvTypes DEF ControlInv, ControlTypesOK
<1> QED
  BY <1>2, ControlInvariant, PTL
==============================================================================
