------------------------- MODULE CommandQueueProofs -------------------------
(***************************************************************************)
(* Safety proofs for CommandQueue.  Every operation moves entries through   *)
(* the pump, so the argument rests on one lemma: if queues, active sets,    *)
(* generations and statuses agree with each other before the pump runs, they *)
(* agree after it, the pump only starts queued entries, and the lanes it    *)
(* ran on have no free slot beside queued work.                             *)
(***************************************************************************)
EXTENDS CommandQueue, FiniteSetTheorems, SequenceTheorems, TLAPS

(* The agreement the pump preserves, for arbitrary values of the state.     *)
QueuesAgree(q, st, lane) ==
  \A l \in Lanes :
    /\ Prefix(q[l], Len(q[l])) = {e \in Entries : st[e] = "queued" /\ lane[e] = l}
    /\ \A i, j \in 1..Len(q[l]) : q[l][i] = q[l][j] => i = j

ActiveAgree(a, st, lane, tg, g) ==
  \A l \in Lanes :
    a[l] = {e \in Entries : lane[e] = l /\ st[e] = "running" /\ tg[e] = g[l]}

(* No running task claims a generation its lane has not reached. *)
NoFutureTask ==
  \A e \in Entries : status[e] = "running" => taskGeneration[e] <= generation[laneOf[e]]

(* The tasks a waiter was told of had been started. *)
SnapshotsHaveStarted ==
  \A w \in Waiters : \A e \in waiterIds[w] : status[e] \notin {"new", "queued"}

IInv ==
  /\ TypeOK
  /\ QueuesHoldTheQueued
  /\ ActiveAreCurrent
  /\ WorkConserving
  /\ NoMissedWakeup
  /\ DrainedIsTrue
  /\ NoFutureTask
  /\ SnapshotsHaveStarted

(* What the pump on lanes ls makes of queues q, active sets a, limits m,    *)
(* generations g and statuses st.                                           *)
PumpResult(ls, q, a, m, g, st) ==
  /\ queue' \in [Lanes -> Seq(Entries)]
  /\ activeTaskIds' \in [Lanes -> SUBSET Entries]
  /\ status' \in [Entries -> EntryStatus]
  /\ taskGeneration' \in [Entries -> 0..MaxGeneration]
  /\ QueuesAgree(queue', status', laneOf)
  /\ ActiveAgree(activeTaskIds', status', laneOf, taskGeneration', g)
  /\ \A l \in ls : queue'[l] # <<>> => Cardinality(activeTaskIds'[l]) >= m[l]
  /\ \A l \in Lanes \ ls : queue'[l] = q[l] /\ activeTaskIds'[l] = a[l]
  /\ \A l \in Lanes : a[l] \subseteq activeTaskIds'[l]
  /\ \A e \in Entries :
       \/ status'[e] = st[e] /\ taskGeneration'[e] = taskGeneration[e]
       \/ /\ st[e] = "queued"
          /\ status'[e] = "running"
          /\ taskGeneration'[e] = g[laneOf[e]]
  /\ \A l \in Lanes : activeTaskIds'[l] # a[l] => Cardinality(activeTaskIds'[l]) <= m[l]
  /\ \A l \in Lanes : \A i, j \in 1..Len(q[l]) :
       i < j /\ q[l][j] \in activeTaskIds'[l] \ a[l] => status'[q[l][i]] = "running"

(* What a step may start: nothing past the limit, nothing past an entry     *)
(* that was enqueued before it and still waits.                             *)
Ordered ==
  \A l \in Lanes :
    /\ activeTaskIds'[l] \ activeTaskIds[l] # {} => Cardinality(activeTaskIds'[l]) <= maxConcurrent'[l]
    /\ \A i, j \in 1..Len(queue[l]) :
         i < j /\ queue[l][j] \in activeTaskIds'[l] \ activeTaskIds[l] => status'[queue[l][i]] # "queued"

-----------------------------------------------------------------------------
(* Facts about the loop's arithmetic.                                       *)

LEMMA ActiveFinite ==
  ASSUME NEW a \in SUBSET Entries
  PROVE  IsFiniteSet(a) /\ Cardinality(a) \in Nat
BY FiniteAssumption, FS_Subset, FS_CardinalityType

(* The loop starts no more than the queue holds and the limit allows, and   *)
(* stops only when one of the two is exhausted.                             *)
LEMMA StartableBounds ==
  ASSUME NEW q \in Seq(Entries), NEW a \in SUBSET Entries, NEW m \in Nat
  PROVE  /\ Startable(q, a, m) \in 0..Len(q)
         /\ Startable(q, a, m) < Len(q) => Cardinality(a) + Startable(q, a, m) >= m
         /\ Startable(q, a, m) > 0 => Cardinality(a) + Startable(q, a, m) <= m
<1>1. Cardinality(a) \in Nat /\ Len(q) \in Nat
  BY ActiveFinite, LenProperties
<1> QED
  BY <1>1 DEF Startable

(* Shifting n entries off a queue without duplicates splits its members.    *)
LEMMA ShiftSplits ==
  ASSUME NEW q \in Seq(Entries), NEW n \in 0..Len(q),
         \A i, j \in 1..Len(q) : q[i] = q[j] => i = j
  PROVE  LET r == SubSeq(q, n + 1, Len(q))
         IN  /\ r \in Seq(Entries)
             /\ Len(r) = Len(q) - n
             /\ Prefix(r, Len(r)) = Prefix(q, Len(q)) \ Prefix(q, n)
             /\ \A i, j \in 1..Len(r) : r[i] = r[j] => i = j
<1> DEFINE r == SubSeq(q, n + 1, Len(q))
<1>1. Len(q) \in Nat /\ n \in Nat /\ n <= Len(q)
  BY LenProperties
<1>2. r \in Seq(Entries) /\ Len(r) = Len(q) - n
  BY <1>1, SubSeqProperties
<1>3. \A i \in 1..Len(r) : r[i] = q[n + i]
  BY <1>1, <1>2, SubSeqProperties
<1>4. \A i, j \in 1..Len(r) : r[i] = r[j] => i = j
  BY <1>1, <1>2, <1>3
<1>5. Prefix(r, Len(r)) \subseteq Prefix(q, Len(q)) \ Prefix(q, n)
  BY <1>1, <1>2, <1>3 DEF Prefix
<1>6. Prefix(q, Len(q)) \ Prefix(q, n) \subseteq Prefix(r, Len(r))
  <2> SUFFICES ASSUME NEW x \in Prefix(q, Len(q)) \ Prefix(q, n)
               PROVE  x \in Prefix(r, Len(r))
    OBVIOUS
  <2> PICK k \in 1..Len(q) : x = q[k]
    BY DEF Prefix
  <2>1. k > n
    BY <1>1 DEF Prefix
  <2>2. k - n \in 1..Len(r) /\ r[k - n] = q[k]
    BY <1>1, <1>2, <1>3, <2>1
  <2> QED
    BY <2>2 DEF Prefix
<1> QED
  BY <1>2, <1>4, <1>5, <1>6

(* The first n entries of a queue without duplicates are n entries.         *)
LEMMA PrefixCardinality ==
  ASSUME NEW q \in Seq(Entries), NEW n \in 0..Len(q),
         \A i, j \in 1..Len(q) : q[i] = q[j] => i = j
  PROVE  /\ Prefix(q, n) \in SUBSET Entries
         /\ IsFiniteSet(Prefix(q, n))
         /\ Cardinality(Prefix(q, n)) = n
<1> DEFINE f == [i \in 1..n |-> q[i]]
<1>1. Len(q) \in Nat /\ n \in Nat /\ n <= Len(q) /\ 1..n \subseteq 1..Len(q)
  BY LenProperties
<1>2. \A i \in 1..n : q[i] \in Entries
  BY <1>1, ElementOfSeq
<1>3. f \in Bijection(1..n, Prefix(q, n))
  BY <1>1 DEF Bijection, Injection, IsInjective, Surjection, Prefix
<1>4. IsFiniteSet(1..n) /\ Cardinality(1..n) = n
  BY <1>1, FS_Interval
<1> QED
  BY <1>2, <1>3, <1>4, FS_Bijection DEF ExistsBijection, Prefix

-----------------------------------------------------------------------------
(* The pump.                                                                *)

LEMMA PumpLemma ==
  ASSUME TypeOK,
         NEW ls \in SUBSET Lanes,
         NEW q \in [Lanes -> Seq(Entries)],
         NEW a \in [Lanes -> SUBSET Entries],
         NEW m \in [Lanes -> Nat \ {0}],
         NEW g \in [Lanes -> 0..MaxGeneration],
         NEW st \in [Entries -> EntryStatus],
         QueuesAgree(q, st, laneOf),
         ActiveAgree(a, st, laneOf, taskGeneration, g),
         Pump(ls, q, a, m, g, st)
  PROVE  PumpResult(ls, q, a, m, g, st)
<1> DEFINE n == [l \in Lanes |-> IF l \in ls THEN Startable(q[l], a[l], m[l]) ELSE 0]
           started == [l \in Lanes |-> Prefix(q[l], n[l])]
<1>1. /\ queue' = [l \in Lanes |-> SubSeq(q[l], n[l] + 1, Len(q[l]))]
      /\ activeTaskIds' = [l \in Lanes |-> a[l] \cup started[l]]
      /\ status' = [e \in Entries |-> IF e \in started[laneOf[e]] THEN "running" ELSE st[e]]
      /\ taskGeneration' = [e \in Entries |-> IF e \in started[laneOf[e]]
                                             THEN g[laneOf[e]] ELSE taskGeneration[e]]
  BY DEF Pump
<1>2. laneOf \in [Entries -> Lanes] /\ taskGeneration \in [Entries -> 0..MaxGeneration]
  BY DEF TypeOK
<1>3. ASSUME NEW l \in Lanes
      PROVE  /\ n[l] \in 0..Len(q[l])
             /\ l \in ls /\ n[l] < Len(q[l]) => Cardinality(a[l]) + n[l] >= m[l]
             /\ n[l] > 0 => Cardinality(a[l]) + n[l] <= m[l]
  <2>1. Len(q[l]) \in Nat
    BY LenProperties
  <2>2. CASE l \in ls
    BY <2>2, StartableBounds
  <2>3. CASE l \notin ls
    BY <2>1, <2>3
  <2> QED
    BY <2>2, <2>3
<1>4. ASSUME NEW l \in Lanes
      PROVE  /\ queue'[l] \in Seq(Entries)
             /\ Len(queue'[l]) = Len(q[l]) - n[l]
             /\ Prefix(queue'[l], Len(queue'[l])) = Prefix(q[l], Len(q[l])) \ started[l]
             /\ \A i, j \in 1..Len(queue'[l]) : queue'[l][i] = queue'[l][j] => i = j
             /\ started[l] \in SUBSET Entries
             /\ IsFiniteSet(started[l])
             /\ Cardinality(started[l]) = n[l]
  <2>1. n[l] \in 0..Len(q[l]) /\ started[l] = Prefix(q[l], n[l])
    BY <1>3
  <2>2. \A i, j \in 1..Len(q[l]) : q[l][i] = q[l][j] => i = j
    BY DEF QueuesAgree
  <2>3. queue'[l] = SubSeq(q[l], n[l] + 1, Len(q[l])) /\ q[l] \in Seq(Entries)
    BY <1>1
  <2>4. \A x \in Seq(Entries), k \in 0..Len(q[l]) :
          /\ x = q[l]
          => /\ SubSeq(x, k + 1, Len(x)) \in Seq(Entries)
             /\ Len(SubSeq(x, k + 1, Len(x))) = Len(x) - k
             /\ Prefix(SubSeq(x, k + 1, Len(x)), Len(SubSeq(x, k + 1, Len(x))))
                  = Prefix(x, Len(x)) \ Prefix(x, k)
             /\ \A i, j \in 1..Len(SubSeq(x, k + 1, Len(x))) :
                  SubSeq(x, k + 1, Len(x))[i] = SubSeq(x, k + 1, Len(x))[j] => i = j
    BY <2>2, ShiftSplits
  <2>5. /\ started[l] \in SUBSET Entries
        /\ IsFiniteSet(started[l])
        /\ Cardinality(started[l]) = n[l]
    BY <2>1, <2>2, PrefixCardinality
  <2> HIDE DEF n, started
  <2> QED
    BY <2>1, <2>3, <2>4, <2>5
<1>5. \A l \in Lanes : started[l] \subseteq {e \in Entries : st[e] = "queued" /\ laneOf[e] = l}
  <2> SUFFICES ASSUME NEW l \in Lanes
               PROVE  started[l] \subseteq {e \in Entries : st[e] = "queued" /\ laneOf[e] = l}
    OBVIOUS
  <2>1. started[l] \subseteq Prefix(q[l], Len(q[l]))
    BY <1>3, LenProperties DEF Prefix
  <2> HIDE DEF n, started
  <2> QED
    BY <2>1 DEF QueuesAgree
<1> HIDE DEF n, started
<1>6. \A e \in Entries :
        \/ /\ e \notin started[laneOf[e]]
           /\ status'[e] = st[e]
           /\ taskGeneration'[e] = taskGeneration[e]
        \/ /\ e \in started[laneOf[e]]
           /\ st[e] = "queued"
           /\ status'[e] = "running"
           /\ taskGeneration'[e] = g[laneOf[e]]
  BY <1>1, <1>2, <1>5
<1>7. /\ queue' \in [Lanes -> Seq(Entries)]
      /\ activeTaskIds' \in [Lanes -> SUBSET Entries]
      /\ status' \in [Entries -> EntryStatus]
      /\ taskGeneration' \in [Entries -> 0..MaxGeneration]
  <2>1. queue' \in [Lanes -> Seq(Entries)] /\ activeTaskIds' \in [Lanes -> SUBSET Entries]
    BY <1>1, <1>4
  <2>2. status' \in [Entries -> EntryStatus]
    BY <1>1, <1>2 DEF EntryStatus, Pending
  <2>3. taskGeneration' \in [Entries -> 0..MaxGeneration]
    BY <1>1, <1>2
  <2> QED
    BY <2>1, <2>2, <2>3
<1>8. QueuesAgree(queue', status', laneOf)
  <2> SUFFICES ASSUME NEW l \in Lanes
               PROVE  Prefix(queue'[l], Len(queue'[l]))
                        = {e \in Entries : status'[e] = "queued" /\ laneOf[e] = l}
    BY <1>4 DEF QueuesAgree
  <2>1. Prefix(queue'[l], Len(queue'[l]))
          = {e \in Entries : st[e] = "queued" /\ laneOf[e] = l} \ started[l]
    BY <1>4 DEF QueuesAgree
  <2>2. \A e \in Entries : laneOf[e] = l =>
          (status'[e] = "queued" <=> st[e] = "queued" /\ e \notin started[l])
    BY <1>6
  <2> QED
    BY <2>1, <2>2
<1>9. ActiveAgree(activeTaskIds', status', laneOf, taskGeneration', g)
  <2> SUFFICES ASSUME NEW l \in Lanes
               PROVE  activeTaskIds'[l]
                        = {e \in Entries : /\ laneOf[e] = l
                                           /\ status'[e] = "running"
                                           /\ taskGeneration'[e] = g[l]}
    BY DEF ActiveAgree
  <2>1. activeTaskIds'[l]
          = {e \in Entries : /\ laneOf[e] = l
                             /\ st[e] = "running"
                             /\ taskGeneration[e] = g[l]} \cup started[l]
    BY <1>1 DEF ActiveAgree
  <2>2. \A e \in Entries : laneOf[e] = l =>
          (/\ status'[e] = "running"
           /\ taskGeneration'[e] = g[l])
          <=> (\/ st[e] = "running" /\ taskGeneration[e] = g[l]
               \/ e \in started[l])
    BY <1>6
  <2> QED
    BY <2>1, <2>2, <1>5
<1>10. ASSUME NEW l \in Lanes
       PROVE  Cardinality(activeTaskIds'[l]) = Cardinality(a[l]) + n[l]
  <2>1. a[l] \cap started[l] = {}
    BY <1>5 DEF ActiveAgree
  <2>2. IsFiniteSet(a[l]) /\ Cardinality(a[l]) \in Nat
    BY ActiveFinite
  <2>3. IsFiniteSet(started[l]) /\ Cardinality(started[l]) = n[l]
    BY <1>4
  <2>4. Cardinality(a[l] \cup started[l])
          = Cardinality(a[l]) + Cardinality(started[l]) - Cardinality(a[l] \cap started[l])
    BY <2>2, <2>3, FS_Union
  <2>5. Cardinality(a[l] \cap started[l]) = 0
    BY <2>1, FS_EmptySet
  <2>6. n[l] \in Nat
    BY <1>3, LenProperties
  <2> QED
    BY <1>1, <2>2, <2>3, <2>4, <2>5, <2>6
<1>11. ASSUME NEW l \in ls, queue'[l] # <<>>
       PROVE  Cardinality(activeTaskIds'[l]) >= m[l]
  <2>1. Len(queue'[l]) > 0
    BY <1>4, <1>11, LenProperties, EmptySeq
  <2>2. n[l] < Len(q[l])
    BY <2>1, <1>3, <1>4, LenProperties
  <2> QED
    BY <2>2, <1>3, <1>10
<1>12. \A l \in Lanes \ ls : queue'[l] = q[l] /\ activeTaskIds'[l] = a[l]
  <2> SUFFICES ASSUME NEW l \in Lanes \ ls
               PROVE  queue'[l] = q[l] /\ activeTaskIds'[l] = a[l]
    OBVIOUS
  <2>1. n[l] = 0
    BY DEF n
  <2>2. started[l] = {}
    BY <2>1 DEF started, Prefix
  <2>3. SubSeq(q[l], 1, Len(q[l])) = q[l]
    BY SubSeqFull
  <2> QED
    BY <1>1, <2>1, <2>2, <2>3
<1>13. \A l \in Lanes : a[l] \subseteq activeTaskIds'[l]
  BY <1>1
<1>14. ASSUME NEW l \in Lanes, activeTaskIds'[l] # a[l]
       PROVE  Cardinality(activeTaskIds'[l]) <= m[l]
  <2>1. n[l] \in Nat /\ n[l] # 0
    BY <1>1, <1>3, <1>4, <1>14, FS_EmptySet, LenProperties
  <2> QED
    BY <2>1, <1>3, <1>10
<1>15. ASSUME NEW l \in Lanes, NEW i \in 1..Len(q[l]), NEW j \in 1..Len(q[l]),
              i < j, q[l][j] \in activeTaskIds'[l] \ a[l]
       PROVE  status'[q[l][i]] = "running"
  <2>1. started[l] = Prefix(q[l], n[l]) /\ n[l] \in 0..Len(q[l]) /\ Len(q[l]) \in Nat
    BY <1>3, LenProperties DEF started
  <2>2. PICK k \in 1..n[l] : q[l][k] = q[l][j]
    BY <1>1, <1>15, <2>1 DEF Prefix
  <2>3. k = j
    BY <2>1, <2>2 DEF QueuesAgree
  <2>4. q[l][i] \in started[l]
    BY <1>15, <2>1, <2>3 DEF Prefix
  <2> QED
    BY <1>5, <1>6, <2>4
<1> QED
  BY <1>6, <1>7, <1>8, <1>9, <1>11, <1>12, <1>13, <1>14, <1>15 DEF PumpResult

StartsWith(long, short) ==
  Len(short) <= Len(long) /\ \A i \in 1..Len(short) : long[i] = short[i]

(* What a caller of the pump owes for the whole invariant to hold after it. *)
PumpReady(ls, q, a, m, g, st) ==
  /\ ls \in SUBSET Lanes
  /\ q \in [Lanes -> Seq(Entries)]
  /\ a \in [Lanes -> SUBSET Entries]
  /\ m \in [Lanes -> Nat \ {0}]
  /\ g \in [Lanes -> 0..MaxGeneration]
  /\ st \in [Entries -> EntryStatus]
  /\ QueuesAgree(q, st, laneOf)
  /\ ActiveAgree(a, st, laneOf, taskGeneration, g)
  /\ Pump(ls, q, a, m, g, st)
  /\ maxConcurrent' = m
  /\ generation' = g
  /\ laneOf' = laneOf
  /\ gatewayDraining' \in BOOLEAN
  /\ waiterIds' \in [Waiters -> SUBSET Entries]
  /\ waiterState' \in [Waiters -> WaiterStatus]
  /\ \A l \in Lanes \ ls : q[l] # <<>> => Cardinality(a[l]) >= m[l]
  /\ \A l \in Lanes : a[l] \subseteq activeTaskIds[l] /\ StartsWith(q[l], queue[l])
  /\ \A w \in Waiters : waiterState'[w] = "waiting" =>
        \/ HasPendingActiveTasks(waiterIds'[w], a)
        \/ HasPendingActiveTasks(waiterIds'[w], activeTaskIds')
  /\ \A w \in Waiters : waiterState'[w] = "drained" =>
        \A e \in waiterIds'[w] : st[e] = "running" => taskGeneration[e] < g[laneOf[e]]
  /\ \A w \in Waiters : \A e \in waiterIds'[w] : st[e] \notin {"new", "queued"}
  /\ \A e \in Entries : st[e] = "running" => taskGeneration[e] <= g[laneOf[e]]

LEMMA PumpKeeps ==
  ASSUME TypeOK, NEW ls, NEW q, NEW a, NEW m, NEW g, NEW st, PumpReady(ls, q, a, m, g, st)
  PROVE  IInv' /\ Ordered
<1> USE DEF PumpReady
<1>1. PumpResult(ls, q, a, m, g, st)
  BY PumpLemma
<1>2. laneOf \in [Entries -> Lanes]
  BY DEF TypeOK
<1>3. TypeOK'
  BY <1>1, <1>2 DEF PumpResult, TypeOK
<1>4. QueuesHoldTheQueued' /\ ActiveAreCurrent'
  <2>1. QueuesAgree(queue', status', laneOf)
    BY <1>1 DEF PumpResult
  <2>2. ActiveAgree(activeTaskIds', status', laneOf, taskGeneration', g)
    BY <1>1 DEF PumpResult
  <2>3. QueuesHoldTheQueued'
    BY <2>1 DEF QueuesAgree, QueuesHoldTheQueued
  <2>4. ActiveAreCurrent'
    BY <2>2 DEF ActiveAgree, ActiveAreCurrent
  <2> QED
    BY <2>3, <2>4
<1>5. WorkConserving'
  BY <1>1 DEF PumpResult, WorkConserving
<1>6. NoMissedWakeup'
  BY <1>1 DEF PumpResult, NoMissedWakeup, HasPendingActiveTasks
<1>7. \A w \in Waiters : \A e \in waiterIds'[w] :
        e \in Entries /\ status'[e] = st[e] /\ taskGeneration'[e] = taskGeneration[e]
  BY <1>1 DEF PumpResult
<1>8. DrainedIsTrue' /\ SnapshotsHaveStarted'
  BY <1>7 DEF DrainedIsTrue, SnapshotsHaveStarted
<1>9. NoFutureTask'
  <2> SUFFICES ASSUME NEW e \in Entries, status'[e] = "running"
               PROVE  taskGeneration'[e] <= g[laneOf[e]]
    BY DEF NoFutureTask
  <2>1. g[laneOf[e]] \in Nat
    BY <1>2
  <2>2. \/ status'[e] = st[e] /\ taskGeneration'[e] = taskGeneration[e]
        \/ taskGeneration'[e] = g[laneOf[e]]
    BY <1>1 DEF PumpResult
  <2> QED
    BY <2>1, <2>2
<1>10. Ordered
  <2> SUFFICES ASSUME NEW l \in Lanes
               PROVE  /\ activeTaskIds'[l] \ activeTaskIds[l] # {} =>
                           Cardinality(activeTaskIds'[l]) <= m[l]
                      /\ \A i, j \in 1..Len(queue[l]) :
                           i < j /\ queue[l][j] \in activeTaskIds'[l] \ activeTaskIds[l] =>
                             status'[queue[l][i]] # "queued"
    BY DEF Ordered
  <2>1. a[l] \subseteq activeTaskIds[l] /\ StartsWith(q[l], queue[l])
    OBVIOUS
  <2>2. Len(queue[l]) \in Nat /\ Len(q[l]) \in Nat
    BY LenProperties DEF TypeOK
  <2>3. \A i \in 1..Len(queue[l]) : i \in 1..Len(q[l]) /\ q[l][i] = queue[l][i]
    BY <2>1, <2>2 DEF StartsWith
  <2> QED
    BY <1>1, <2>1, <2>3 DEF PumpResult
<1> QED
  BY <1>3, <1>4, <1>5, <1>6, <1>8, <1>9, <1>10 DEF IInv

-----------------------------------------------------------------------------
(* The inductive invariant holds initially and is kept by every action.     *)

LEMMA InvariantsAreAgreements ==
  /\ QueuesHoldTheQueued <=> QueuesAgree(queue, status, laneOf)
  /\ ActiveAreCurrent <=> ActiveAgree(activeTaskIds, status, laneOf, taskGeneration, generation)
BY DEF QueuesHoldTheQueued, ActiveAreCurrent, QueuesAgree, ActiveAgree

LEMMA InitEstablishes == Init => IInv
<1> SUFFICES ASSUME Init PROVE IInv
  OBVIOUS
<1> USE DEF Init
<1>1. TypeOK
  <2>1. <<>> \in Seq(Entries) /\ 0 \in 0..MaxGeneration /\ 1 \in Nat \ {0}
    BY EmptySeq, GenerationAssumption
  <2>2. "new" \in EntryStatus /\ "idle" \in WaiterStatus
    BY DEF EntryStatus, WaiterStatus
  <2> QED
    BY <2>1, <2>2 DEF TypeOK
<1>2. QueuesHoldTheQueued
  <2>1. \A l \in Lanes : queue[l] = <<>> /\ Len(queue[l]) = 0
    BY EmptySeq
  <2> QED
    BY <2>1 DEF QueuesHoldTheQueued, Prefix
<1>3. ActiveAreCurrent /\ WorkConserving /\ NoMissedWakeup /\ DrainedIsTrue
      /\ NoFutureTask /\ SnapshotsHaveStarted
  BY DEF ActiveAreCurrent, WorkConserving, NoMissedWakeup, DrainedIsTrue, NoFutureTask,
         SnapshotsHaveStarted
<1> QED
  BY <1>1, <1>2, <1>3 DEF IInv

LEMMA StartsWithItself ==
  ASSUME TypeOK
  PROVE  \A l \in Lanes : StartsWith(queue[l], queue[l])
BY LenProperties DEF TypeOK, StartsWith

LEMMA AcceptIsReady ==
  ASSUME IInv, NEW e \in Entries, Accept(e)
  PROVE  PumpReady({laneOf[e]}, [queue EXCEPT ![laneOf[e]] = Append(@, e)], activeTaskIds,
                   maxConcurrent, generation, [status EXCEPT ![e] = "queued"])
<1> DEFINE q == [queue EXCEPT ![laneOf[e]] = Append(@, e)]
           st == [status EXCEPT ![e] = "queued"]
<1>1. /\ status[e] = "new"
      /\ Pump({laneOf[e]}, q, activeTaskIds, maxConcurrent, generation, st)
      /\ UNCHANGED <<gatewayDraining, maxConcurrent, generation, laneOf, waiterVars>>
  BY DEF Accept
<1>2. TypeOK /\ laneOf[e] \in Lanes
  BY DEF IInv, TypeOK
<1>3. q \in [Lanes -> Seq(Entries)] /\ st \in [Entries -> EntryStatus]
  BY <1>2, AppendProperties DEF TypeOK, EntryStatus, Pending
<1>4. QueuesAgree(q, st, laneOf)
  <2> SUFFICES ASSUME NEW l \in Lanes
               PROVE  /\ Prefix(q[l], Len(q[l]))
                           = {d \in Entries : st[d] = "queued" /\ laneOf[d] = l}
                      /\ \A i, j \in 1..Len(q[l]) : q[l][i] = q[l][j] => i = j
    BY DEF QueuesAgree
  <2>1. /\ Prefix(queue[l], Len(queue[l])) = {d \in Entries : status[d] = "queued" /\ laneOf[d] = l}
        /\ \A i, j \in 1..Len(queue[l]) : queue[l][i] = queue[l][j] => i = j
        /\ queue[l] \in Seq(Entries)
        /\ Len(queue[l]) \in Nat
    BY <1>2, LenProperties DEF IInv, QueuesHoldTheQueued, TypeOK
  <2>2. CASE l # laneOf[e]
    BY <2>1, <2>2, <1>1, <1>2 DEF TypeOK
  <2>3. CASE l = laneOf[e]
    <3>1. q[l] = Append(queue[l], e)
      BY <2>3, <1>2 DEF TypeOK
    <3>2. /\ Len(q[l]) = Len(queue[l]) + 1
          /\ \A i \in 1..Len(queue[l]) : q[l][i] = queue[l][i]
          /\ q[l][Len(queue[l]) + 1] = e
      BY <3>1, <2>1, AppendProperties
    <3>3. Prefix(q[l], Len(q[l])) = Prefix(queue[l], Len(queue[l])) \cup {e}
      BY <3>2, <2>1 DEF Prefix
    <3>4. e \notin Prefix(queue[l], Len(queue[l]))
      BY <2>1, <1>1
    <3>5. \A i, j \in 1..Len(q[l]) : q[l][i] = q[l][j] => i = j
      BY <3>2, <3>4, <2>1 DEF Prefix
    <3>6. {d \in Entries : st[d] = "queued" /\ laneOf[d] = l}
            = {d \in Entries : status[d] = "queued" /\ laneOf[d] = l} \cup {e}
      BY <2>3, <1>2 DEF TypeOK
    <3> QED
      BY <3>3, <3>5, <3>6, <2>1
  <2> QED
    BY <2>2, <2>3
<1>5. ActiveAgree(activeTaskIds, st, laneOf, taskGeneration, generation)
  BY <1>1, <1>2 DEF IInv, ActiveAreCurrent, ActiveAgree, TypeOK
<1>6. /\ activeTaskIds \in [Lanes -> SUBSET Entries]
      /\ maxConcurrent \in [Lanes -> Nat \ {0}]
      /\ generation \in [Lanes -> 0..MaxGeneration]
      /\ maxConcurrent' = maxConcurrent /\ generation' = generation /\ laneOf' = laneOf
      /\ gatewayDraining' \in BOOLEAN
      /\ waiterIds' = waiterIds /\ waiterState' = waiterState
      /\ waiterIds \in [Waiters -> SUBSET Entries]
      /\ waiterState \in [Waiters -> WaiterStatus]
      /\ {laneOf[e]} \in SUBSET Lanes
  BY <1>1, <1>2 DEF TypeOK, waiterVars
<1>7. \A l \in Lanes \ {laneOf[e]} : q[l] # <<>> => Cardinality(activeTaskIds[l]) >= maxConcurrent[l]
  BY <1>2 DEF IInv, WorkConserving, TypeOK
<1>8. \A d \in Entries : d # e => st[d] = status[d]
  BY <1>2 DEF TypeOK
<1>9. \A w \in Waiters : waiterState'[w] = "waiting" =>
         \/ HasPendingActiveTasks(waiterIds'[w], activeTaskIds)
         \/ HasPendingActiveTasks(waiterIds'[w], activeTaskIds')
  BY <1>6 DEF IInv, NoMissedWakeup
<1>10. \A w \in Waiters : \A d \in waiterIds'[w] : st[d] = status[d] /\ st[d] \notin {"new", "queued"}
  BY <1>1, <1>6, <1>8 DEF IInv, SnapshotsHaveStarted
<1>11. \A w \in Waiters : waiterState'[w] = "drained" =>
         \A d \in waiterIds'[w] : st[d] = "running" => taskGeneration[d] < generation[laneOf[d]]
  BY <1>6, <1>10 DEF IInv, DrainedIsTrue
<1>12. \A d \in Entries : st[d] = "running" => taskGeneration[d] <= generation[laneOf[d]]
  BY <1>2 DEF IInv, NoFutureTask, TypeOK
<1>13. \A w \in Waiters : \A d \in waiterIds'[w] : st[d] \notin {"new", "queued"}
  BY <1>10
<1>14. /\ waiterIds' \in [Waiters -> SUBSET Entries]
       /\ waiterState' \in [Waiters -> WaiterStatus]
  BY <1>6
<1>15. \A l \in Lanes : StartsWith(q[l], queue[l])
  BY <1>2, AppendProperties, LenProperties DEF TypeOK, StartsWith
<1> HIDE DEF q, st
<1>16. PumpReady({laneOf[e]}, q, activeTaskIds, maxConcurrent, generation, st)
  BY <1>1, <1>2, <1>3, <1>4, <1>5, <1>6, <1>7, <1>9, <1>11, <1>12, <1>13, <1>14, <1>15 DEF PumpReady
<1> QED
  BY <1>16 DEF q, st

LEMMA SetCommandLaneConcurrencyIsReady ==
  ASSUME IInv, NEW l \in Lanes, NEW max \in Limits, SetCommandLaneConcurrency(l, max)
  PROVE  PumpReady({l}, queue, activeTaskIds, [maxConcurrent EXCEPT ![l] = LaneLimit(max)],
                   generation, status)
<1> DEFINE m == [maxConcurrent EXCEPT ![l] = LaneLimit(max)]
<1>1. TypeOK
  BY DEF IInv
<1>2. /\ Pump({l}, queue, activeTaskIds, m, generation, status)
      /\ maxConcurrent' = m /\ generation' = generation /\ laneOf' = laneOf
      /\ gatewayDraining' = gatewayDraining
      /\ waiterIds' = waiterIds /\ waiterState' = waiterState
  BY DEF SetCommandLaneConcurrency, waiterVars
<1>3. m \in [Lanes -> Nat \ {0}]
  BY <1>1, LimitsAssumption DEF TypeOK, LaneLimit
<1>4. /\ QueuesAgree(queue, status, laneOf)
      /\ ActiveAgree(activeTaskIds, status, laneOf, taskGeneration, generation)
  BY InvariantsAreAgreements DEF IInv
<1>5. \A k \in Lanes \ {l} : queue[k] # <<>> => Cardinality(activeTaskIds[k]) >= m[k]
  BY <1>1 DEF IInv, WorkConserving, TypeOK
<1> HIDE DEF m
<1>6. \A w \in Waiters : waiterState'[w] = "waiting" =>
         HasPendingActiveTasks(waiterIds'[w], activeTaskIds)
  BY <1>2 DEF IInv, NoMissedWakeup
<1>7. \A w \in Waiters : waiterState'[w] = "drained" =>
         \A d \in waiterIds'[w] : status[d] = "running" => taskGeneration[d] < generation[laneOf[d]]
  BY <1>2 DEF IInv, DrainedIsTrue
<1>8. \A w \in Waiters : \A d \in waiterIds'[w] : status[d] \notin {"new", "queued"}
  BY <1>2 DEF IInv, SnapshotsHaveStarted
<1>9. \A d \in Entries : status[d] = "running" => taskGeneration[d] <= generation[laneOf[d]]
  BY DEF IInv, NoFutureTask
<1>10. PumpReady({l}, queue, activeTaskIds, m, generation, status)
  BY StartsWithItself, <1>1, <1>2, <1>3, <1>4, <1>5, <1>6, <1>7, <1>8, <1>9 DEF PumpReady, TypeOK
<1> QED
  BY <1>10 DEF m

LEMMA SettleCurrentIsReady ==
  ASSUME IInv, NEW e \in Entries, SettleCurrent(e)
  PROVE  PumpReady({laneOf[e]}, queue, [activeTaskIds EXCEPT ![laneOf[e]] = @ \ {e}],
                   maxConcurrent, generation, [status EXCEPT ![e] = "done"])
<1> DEFINE a == [activeTaskIds EXCEPT ![laneOf[e]] = @ \ {e}]
           st == [status EXCEPT ![e] = "done"]
<1>1. TypeOK /\ laneOf[e] \in Lanes
  BY DEF IInv, TypeOK
<1>2. /\ status[e] = "running"
      /\ NotifyActiveTaskWaiters(a)
      /\ Pump({laneOf[e]}, queue, a, maxConcurrent, generation, st)
      /\ maxConcurrent' = maxConcurrent /\ generation' = generation /\ laneOf' = laneOf
      /\ gatewayDraining' = gatewayDraining
  BY DEF SettleCurrent
<1>3. a \in [Lanes -> SUBSET Entries] /\ st \in [Entries -> EntryStatus]
  BY <1>1 DEF TypeOK, EntryStatus, Settled
<1>4. \A d \in Entries : st[d] = IF d = e THEN "done" ELSE status[d]
  BY <1>1 DEF TypeOK
<1>5. \A l \in Lanes : a[l] = activeTaskIds[l] \ {e}
  BY <1>1 DEF TypeOK, IInv, ActiveAreCurrent
<1>6. QueuesAgree(queue, st, laneOf)
  BY <1>2, <1>4 DEF IInv, QueuesHoldTheQueued, QueuesAgree
<1>7. ActiveAgree(a, st, laneOf, taskGeneration, generation)
  BY <1>4, <1>5 DEF IInv, ActiveAreCurrent, ActiveAgree
<1>8. \A l \in Lanes \ {laneOf[e]} : queue[l] # <<>> => Cardinality(a[l]) >= maxConcurrent[l]
  BY <1>1 DEF IInv, WorkConserving, TypeOK
<1>9. /\ waiterIds' = waiterIds
      /\ waiterState' \in [Waiters -> WaiterStatus]
      /\ \A w \in Waiters : waiterState'[w] = "waiting" => HasPendingActiveTasks(waiterIds'[w], a)
      /\ \A w \in Waiters : waiterState'[w] = "drained" =>
           \/ waiterState[w] = "drained"
           \/ ~HasPendingActiveTasks(waiterIds'[w], a)
  <2>1. /\ waiterState' = [w \in Waiters |->
             IF waiterState[w] = "waiting" /\ ~HasPendingActiveTasks(waiterIds[w], a)
             THEN "drained" ELSE waiterState[w]]
        /\ waiterIds' = waiterIds
    BY <1>2 DEF NotifyActiveTaskWaiters
  <2>2. waiterState \in [Waiters -> WaiterStatus] /\ "drained" \in WaiterStatus
    BY <1>1 DEF TypeOK, WaiterStatus
  <2> HIDE DEF a
  <2> QED
    BY <2>1, <2>2
<1>10. \A w \in Waiters : \A d \in waiterIds'[w] : d \in Entries /\ st[d] \notin {"new", "queued"}
  BY <1>1, <1>4, <1>9 DEF IInv, SnapshotsHaveStarted, TypeOK
<1>11. \A w \in Waiters : waiterState'[w] = "drained" =>
         \A d \in waiterIds'[w] : st[d] = "running" => taskGeneration[d] < generation[laneOf[d]]
  <2> SUFFICES ASSUME NEW w \in Waiters, waiterState'[w] = "drained",
                      NEW d \in waiterIds'[w], st[d] = "running"
               PROVE  taskGeneration[d] < generation[laneOf[d]]
    OBVIOUS
  <2>1. d \in Entries /\ d # e /\ status[d] = "running"
    BY <1>4, <1>10
  <2>2. CASE waiterState[w] = "drained"
    BY <2>1, <2>2, <1>9 DEF IInv, DrainedIsTrue
  <2>3. CASE ~HasPendingActiveTasks(waiterIds'[w], a)
    <3>1. laneOf[d] \in Lanes
      BY <2>1, <1>1 DEF TypeOK
    <3>2. d \notin a[laneOf[d]]
      BY <2>3, <3>1 DEF HasPendingActiveTasks
    <3>3. taskGeneration[d] # generation[laneOf[d]]
      BY <3>1, <3>2, <2>1, <1>5 DEF IInv, ActiveAreCurrent
    <3>4. taskGeneration[d] <= generation[laneOf[d]]
      BY <2>1 DEF IInv, NoFutureTask
    <3>5. taskGeneration[d] \in Nat /\ generation[laneOf[d]] \in Nat
      BY <2>1, <3>1, <1>1 DEF TypeOK
    <3> QED
      BY <3>3, <3>4, <3>5
  <2> QED
    BY <2>2, <2>3, <1>9
<1>12. \A d \in Entries : st[d] = "running" => taskGeneration[d] <= generation[laneOf[d]]
  BY <1>4 DEF IInv, NoFutureTask
<1> HIDE DEF a, st
<1>13. PumpReady({laneOf[e]}, queue, a, maxConcurrent, generation, st)
  BY StartsWithItself, <1>1, <1>2, <1>3, <1>5, <1>6, <1>7, <1>8, <1>9, <1>10, <1>11, <1>12
  DEF PumpReady, TypeOK
<1> QED
  BY <1>13 DEF a, st

LEMMA ResetAllLanesIsReady ==
  ASSUME IInv, ResetAllLanes
  PROVE  PumpReady(LanesToDrain, queue, ForgottenActive, maxConcurrent, NewGenerations, status)
<1> DEFINE a == ForgottenActive
           g == NewGenerations
<1>1. TypeOK
  BY DEF IInv
<1>2. /\ gatewayDraining' = FALSE
      /\ Pump(LanesToDrain, queue, a, maxConcurrent, g, status)
      /\ NotifyActiveTaskWaiters(activeTaskIds')
      /\ generation' = g /\ maxConcurrent' = maxConcurrent /\ laneOf' = laneOf
      /\ \A l \in Lanes : generation[l] < MaxGeneration
  BY DEF ResetAllLanes
<1>3. \A l \in Lanes : g[l] = generation[l] + 1 /\ a[l] = {} /\ generation[l] \in Nat
  BY <1>1 DEF TypeOK, NewGenerations, ForgottenActive
<1>4. /\ a \in [Lanes -> SUBSET Entries]
      /\ g \in [Lanes -> 0..MaxGeneration]
  <2>1. \A l \in Lanes : generation[l] + 1 \in 0..MaxGeneration
    BY <1>2, <1>3, GenerationAssumption
  <2> QED
    BY <2>1 DEF NewGenerations, ForgottenActive
<1>5. QueuesAgree(queue, status, laneOf)
  BY InvariantsAreAgreements DEF IInv
<1>6. \A e \in Entries : status[e] = "running" => taskGeneration[e] < g[laneOf[e]]
  <2> SUFFICES ASSUME NEW e \in Entries, status[e] = "running"
               PROVE  taskGeneration[e] < g[laneOf[e]]
    OBVIOUS
  <2>1. taskGeneration[e] \in Nat /\ laneOf[e] \in Lanes
    BY <1>1 DEF TypeOK
  <2>2. taskGeneration[e] <= generation[laneOf[e]]
    BY DEF IInv, NoFutureTask
  <2> QED
    BY <2>1, <2>2, <1>3
<1>7. \A e \in Entries : status[e] = "running" => taskGeneration[e] <= g[laneOf[e]]
  <2>1. \A e \in Entries : taskGeneration[e] \in Nat /\ g[laneOf[e]] \in Nat
    BY <1>1, <1>4 DEF TypeOK
  <2> HIDE DEF g
  <2> QED
    BY <2>1, <1>6
<1>8. ActiveAgree(a, status, laneOf, taskGeneration, g)
  <2>1. \A e \in Entries : status[e] = "running" => taskGeneration[e] # g[laneOf[e]]
    <3>1. \A e \in Entries : taskGeneration[e] \in Nat /\ g[laneOf[e]] \in Nat
      BY <1>1, <1>4 DEF TypeOK
    <3> HIDE DEF g
    <3> QED
      BY <3>1, <1>6
  <2> HIDE DEF g
  <2> QED
    BY <2>1, <1>3 DEF ActiveAgree
<1>9. \A l \in Lanes \ LanesToDrain : queue[l] # <<>> => Cardinality(a[l]) >= maxConcurrent[l]
  BY DEF LanesToDrain
<1>10. /\ waiterIds' = waiterIds
       /\ waiterState' \in [Waiters -> WaiterStatus]
       /\ \A w \in Waiters : waiterState'[w] = "waiting" =>
             HasPendingActiveTasks(waiterIds'[w], activeTaskIds')
  BY <1>1, <1>2 DEF NotifyActiveTaskWaiters, TypeOK, WaiterStatus
<1>11. \A w \in Waiters : \A d \in waiterIds'[w] : d \in Entries /\ status[d] \notin {"new", "queued"}
  BY <1>1, <1>10 DEF IInv, SnapshotsHaveStarted, TypeOK
<1>12. LanesToDrain \in SUBSET Lanes
  BY DEF LanesToDrain
<1> HIDE DEF a, g
<1>13. PumpReady(LanesToDrain, queue, a, maxConcurrent, g, status)
  BY StartsWithItself, <1>1, <1>2, <1>3, <1>4, <1>5, <1>6, <1>7, <1>8, <1>9, <1>10, <1>11, <1>12
  DEF PumpReady, TypeOK
<1> QED
  BY <1>13 DEF a, g

LEMMA PumpedKeeps ==
  ASSUME IInv
  PROVE  /\ \A e \in Entries : Accept(e) \/ SettleCurrent(e) => IInv' /\ Ordered
         /\ \A l \in Lanes, max \in Limits : SetCommandLaneConcurrency(l, max) => IInv' /\ Ordered
         /\ ResetAllLanes => IInv' /\ Ordered
<1>1. TypeOK
  BY DEF IInv
<1>2. ASSUME NEW e \in Entries, Accept(e) PROVE IInv' /\ Ordered
  BY <1>1, <1>2, AcceptIsReady, PumpKeeps
<1>3. ASSUME NEW e \in Entries, SettleCurrent(e) PROVE IInv' /\ Ordered
  BY <1>1, <1>3, SettleCurrentIsReady, PumpKeeps
<1>4. ASSUME NEW l \in Lanes, NEW max \in Limits, SetCommandLaneConcurrency(l, max) PROVE IInv' /\ Ordered
  BY <1>1, <1>4, SetCommandLaneConcurrencyIsReady, PumpKeeps
<1>5. ASSUME ResetAllLanes PROVE IInv' /\ Ordered
  BY <1>1, <1>5, ResetAllLanesIsReady, PumpKeeps
<1> QED
  BY <1>2, <1>3, <1>4, <1>5

LEMMA RefuseWhileDrainingKeeps ==
  ASSUME IInv, NEW e \in Entries, RefuseWhileDraining(e)
  PROVE  IInv'
<1> USE DEF IInv, RefuseWhileDraining, laneVars, waiterVars
<1>1. \A d \in Entries : status'[d] = IF d = e THEN "refused" ELSE status[d]
  BY DEF TypeOK
<1>2. TypeOK'
  BY DEF TypeOK, EntryStatus, Settled
<1>3. QueuesHoldTheQueued' /\ ActiveAreCurrent'
  BY <1>1 DEF QueuesHoldTheQueued, ActiveAreCurrent
<1>4. WorkConserving' /\ NoMissedWakeup'
  BY DEF WorkConserving, NoMissedWakeup, HasPendingActiveTasks
<1>5. DrainedIsTrue' /\ NoFutureTask' /\ SnapshotsHaveStarted'
  BY <1>1 DEF DrainedIsTrue, NoFutureTask, SnapshotsHaveStarted, TypeOK
<1> QED
  BY <1>2, <1>3, <1>4, <1>5

LEMMA SettleStaleKeeps ==
  ASSUME IInv, NEW e \in Entries, SettleStale(e)
  PROVE  IInv'
<1> USE DEF IInv, SettleStale, laneVars, waiterVars
<1>1. \A d \in Entries : status'[d] = IF d = e THEN "done" ELSE status[d]
  BY DEF TypeOK
<1>2. TypeOK'
  BY DEF TypeOK, EntryStatus, Settled
<1>3. QueuesHoldTheQueued' /\ ActiveAreCurrent'
  BY <1>1 DEF QueuesHoldTheQueued, ActiveAreCurrent, CurrentGeneration
<1>4. WorkConserving' /\ NoMissedWakeup'
  BY DEF WorkConserving, NoMissedWakeup, HasPendingActiveTasks
<1>5. DrainedIsTrue' /\ NoFutureTask' /\ SnapshotsHaveStarted'
  BY <1>1 DEF DrainedIsTrue, NoFutureTask, SnapshotsHaveStarted, TypeOK
<1> QED
  BY <1>2, <1>3, <1>4, <1>5

LEMMA ClearCommandLaneKeeps ==
  ASSUME IInv, NEW l \in Lanes, ClearCommandLane(l)
  PROVE  IInv'
<1> USE DEF IInv, ClearCommandLane, waiterVars
<1>1. \A d \in Entries :
        status'[d] = IF status[d] = "queued" /\ laneOf[d] = l THEN "cleared" ELSE status[d]
  OBVIOUS
<1>2. \A k \in Lanes : queue'[k] = IF k = l THEN <<>> ELSE queue[k]
  BY DEF TypeOK
<1>3. TypeOK'
  BY EmptySeq DEF TypeOK, EntryStatus, Settled
<1>4. QueuesHoldTheQueued'
  <2> SUFFICES ASSUME NEW k \in Lanes
               PROVE  /\ Prefix(queue'[k], Len(queue'[k]))
                           = {d \in Entries : status'[d] = "queued" /\ laneOf'[d] = k}
                      /\ \A i, j \in 1..Len(queue'[k]) : queue'[k][i] = queue'[k][j] => i = j
    BY DEF QueuesHoldTheQueued
  <2>1. CASE k = l
    <3>1. queue'[k] = <<>> /\ Len(queue'[k]) = 0
      BY <2>1, <1>2, EmptySeq
    <3> QED
      BY <2>1, <3>1, <1>1 DEF Prefix
  <2>2. CASE k # l
    BY <2>2, <1>1, <1>2 DEF QueuesHoldTheQueued
  <2> QED
    BY <2>1, <2>2
<1>5. ActiveAreCurrent' /\ NoMissedWakeup' /\ DrainedIsTrue' /\ NoFutureTask' /\ SnapshotsHaveStarted'
  BY <1>1 DEF ActiveAreCurrent, NoMissedWakeup, HasPendingActiveTasks, DrainedIsTrue,
              NoFutureTask, SnapshotsHaveStarted, TypeOK
<1>6. WorkConserving'
  BY <1>2 DEF WorkConserving
<1> QED
  BY <1>3, <1>4, <1>5, <1>6

LEMMA RegisterWaiterKeeps ==
  ASSUME IInv, NEW w \in Waiters, RegisterWaiter(w),
         gatewayDraining' \in BOOLEAN, UNCHANGED <<laneVars, entryVars>>
  PROVE  IInv'
<1> DEFINE snapshot == UNION {activeTaskIds[l] : l \in Lanes}
<1> USE DEF IInv, RegisterWaiter, laneVars, entryVars
<1>1. /\ \A v \in Waiters : waiterIds'[v] = IF v = w THEN snapshot ELSE waiterIds[v]
      /\ \A v \in Waiters : waiterState'[v] =
           IF v = w THEN (IF snapshot = {} THEN "drained" ELSE "waiting") ELSE waiterState[v]
  BY DEF TypeOK
<1>2. snapshot \in SUBSET Entries /\ \A e \in snapshot : status[e] = "running"
  BY DEF ActiveAreCurrent
<1>3. snapshot # {} => HasPendingActiveTasks(snapshot, activeTaskIds)
  BY DEF HasPendingActiveTasks
<1>4. TypeOK'
  BY <1>2 DEF TypeOK, WaiterStatus
<1>5. /\ activeTaskIds' = activeTaskIds /\ status' = status /\ laneOf' = laneOf
      /\ taskGeneration' = taskGeneration /\ generation' = generation
  OBVIOUS
<1>6. QueuesHoldTheQueued' /\ ActiveAreCurrent' /\ WorkConserving' /\ NoFutureTask'
  BY DEF QueuesHoldTheQueued, ActiveAreCurrent, WorkConserving, NoFutureTask
<1> HIDE DEF snapshot, RegisterWaiter
<1>7. NoMissedWakeup'
  BY <1>1, <1>3, <1>5 DEF NoMissedWakeup, HasPendingActiveTasks
<1>8. SnapshotsHaveStarted'
  BY <1>1, <1>2, <1>5 DEF SnapshotsHaveStarted
<1>9. DrainedIsTrue'
  BY <1>1, <1>2, <1>5 DEF DrainedIsTrue
<1> QED
  BY <1>4, <1>6, <1>7, <1>8, <1>9

LEMMA WaitForActiveTasksKeeps ==
  ASSUME IInv, NEW w \in Waiters, WaitForActiveTasks(w)
  PROVE  IInv'
BY RegisterWaiterKeeps DEF WaitForActiveTasks, IInv, TypeOK

LEMMA WaiterTimeoutKeeps ==
  ASSUME IInv, NEW w \in Waiters, WaiterTimeout(w)
  PROVE  IInv'
<1> USE DEF IInv, WaiterTimeout, laneVars, entryVars
<1>1. \A v \in Waiters : waiterState'[v] = IF v = w THEN "timedOut" ELSE waiterState[v]
  BY DEF TypeOK
<1>2. TypeOK'
  BY DEF TypeOK, WaiterStatus
<1>3. NoMissedWakeup' /\ DrainedIsTrue' /\ SnapshotsHaveStarted'
  BY <1>1 DEF NoMissedWakeup, HasPendingActiveTasks, DrainedIsTrue, SnapshotsHaveStarted
<1>4. QueuesHoldTheQueued' /\ ActiveAreCurrent' /\ WorkConserving' /\ NoFutureTask'
  BY DEF QueuesHoldTheQueued, ActiveAreCurrent, WorkConserving, NoFutureTask
<1> QED
  BY <1>2, <1>3, <1>4

LEMMA FlagOnlyKeeps ==
  ASSUME IInv, gatewayDraining' \in BOOLEAN, UNCHANGED <<laneVars, entryVars, waiterVars>>
  PROVE  IInv'
BY DEF IInv, laneVars, entryVars, waiterVars, TypeOK, QueuesHoldTheQueued, ActiveAreCurrent,
       WorkConserving, NoMissedWakeup, HasPendingActiveTasks, DrainedIsTrue, NoFutureTask,
       SnapshotsHaveStarted

LEMMA StartsNothing ==
  ASSUME UNCHANGED activeTaskIds
  PROVE  Ordered
BY DEF Ordered

LEMMA NextKeeps == IInv /\ [Next]_vars => IInv' /\ Ordered
<1> SUFFICES ASSUME IInv, [Next]_vars
             PROVE  IInv' /\ Ordered
  OBVIOUS
<1>1. CASE MarkGatewayDraining
  BY <1>1, StartsNothing, FlagOnlyKeeps DEF MarkGatewayDraining, laneVars
<1>2. CASE ResetAllLanes
  BY <1>2, PumpedKeeps
<1>3. CASE \E l \in Lanes : ClearCommandLane(l)
  BY <1>3, StartsNothing, ClearCommandLaneKeeps DEF ClearCommandLane
<1>4. CASE \E l \in Lanes, max \in Limits : SetCommandLaneConcurrency(l, max)
  BY <1>4, PumpedKeeps
<1>5. CASE \E e \in Entries : EnqueueCommandInLane(e) \/ Settle(e)
  <2>1. ASSUME NEW e \in Entries, RefuseWhileDraining(e) \/ SettleStale(e)
        PROVE  IInv' /\ Ordered
    BY <2>1, StartsNothing, RefuseWhileDrainingKeeps, SettleStaleKeeps
    DEF RefuseWhileDraining, SettleStale, laneVars
  <2> QED
    BY <1>5, <2>1, PumpedKeeps DEF EnqueueCommandInLane, Settle
<1>6. CASE \E w \in Waiters : WaitForActiveTasks(w) \/ WaiterTimeout(w)
  BY <1>6, StartsNothing, WaitForActiveTasksKeeps, WaiterTimeoutKeeps
  DEF WaitForActiveTasks, WaiterTimeout, laneVars
<1>7. CASE UNCHANGED vars
  BY <1>7, StartsNothing, FlagOnlyKeeps DEF vars, laneVars, IInv, TypeOK
<1> QED
  BY <1>1, <1>2, <1>3, <1>4, <1>5, <1>6, <1>7 DEF Next

-----------------------------------------------------------------------------
(* What the operations do to the entries, for whoever builds on the queue.  *)

StaysOrStarts(e) == status'[e] = status[e] \/ (status[e] = "queued" /\ status'[e] = "running")

LEMMA PumpMoves ==
  ASSUME TypeOK, NEW ls, NEW q, NEW a, NEW m, NEW g, NEW st, PumpReady(ls, q, a, m, g, st)
  PROVE  \A e \in Entries : status'[e] = st[e] \/ (st[e] = "queued" /\ status'[e] = "running")
<1>1. PumpResult(ls, q, a, m, g, st)
  BY PumpLemma DEF PumpReady
<1> QED
  BY <1>1 DEF PumpResult

LEMMA EnqueueMoves ==
  ASSUME IInv, NEW e \in Entries, EnqueueCommandInLane(e)
  PROVE  /\ status[e] = "new" /\ status'[e] \in Pending \cup {"refused"}
         /\ \A d \in Entries \ {e} : StaysOrStarts(d)
<1>1. TypeOK
  BY DEF IInv
<1>2. CASE Accept(e)
  <2> DEFINE st == [status EXCEPT ![e] = "queued"]
  <2>1. \A d \in Entries : st[d] = IF d = e THEN "queued" ELSE status[d]
    BY <1>1 DEF TypeOK
  <2>2. \A d \in Entries : status'[d] = st[d] \/ (st[d] = "queued" /\ status'[d] = "running")
    <3>1. PumpReady({laneOf[e]}, [queue EXCEPT ![laneOf[e]] = Append(@, e)], activeTaskIds,
                    maxConcurrent, generation, st)
      BY <1>2, AcceptIsReady
    <3> HIDE DEF st
    <3> QED
      BY <1>1, <3>1, PumpMoves
  <2> HIDE DEF st
  <2> QED
    BY <1>2, <2>1, <2>2 DEF Accept, Pending, StaysOrStarts
<1>3. CASE RefuseWhileDraining(e)
  BY <1>1, <1>3 DEF RefuseWhileDraining, TypeOK, StaysOrStarts
<1> QED
  BY <1>2, <1>3 DEF EnqueueCommandInLane

LEMMA SettleMoves ==
  ASSUME IInv, NEW e \in Entries, Settle(e)
  PROVE  /\ status[e] = "running" /\ status'[e] = "done"
         /\ \A d \in Entries \ {e} : StaysOrStarts(d)
<1>1. TypeOK
  BY DEF IInv
<1>2. CASE SettleCurrent(e)
  <2> DEFINE st == [status EXCEPT ![e] = "done"]
  <2>1. \A d \in Entries : st[d] = IF d = e THEN "done" ELSE status[d]
    BY <1>1 DEF TypeOK
  <2>2. \A d \in Entries : status'[d] = st[d] \/ (st[d] = "queued" /\ status'[d] = "running")
    <3>1. PumpReady({laneOf[e]}, queue, [activeTaskIds EXCEPT ![laneOf[e]] = @ \ {e}],
                    maxConcurrent, generation, st)
      BY <1>2, SettleCurrentIsReady
    <3> HIDE DEF st
    <3> QED
      BY <1>1, <3>1, PumpMoves
  <2> HIDE DEF st
  <2> QED
    BY <1>2, <2>1, <2>2 DEF SettleCurrent, StaysOrStarts
<1>3. CASE SettleStale(e)
  BY <1>1, <1>3 DEF SettleStale, TypeOK, StaysOrStarts
<1> QED
  BY <1>2, <1>3 DEF Settle

LEMMA LimitMoves ==
  ASSUME IInv, NEW l \in Lanes, NEW max \in Limits, SetCommandLaneConcurrency(l, max)
  PROVE  \A d \in Entries : StaysOrStarts(d)
<1>1. TypeOK
  BY DEF IInv
<1>2. PumpReady({l}, queue, activeTaskIds, [maxConcurrent EXCEPT ![l] = LaneLimit(max)],
                generation, status)
  BY SetCommandLaneConcurrencyIsReady
<1>3. \A d \in Entries : status'[d] = status[d] \/ (status[d] = "queued" /\ status'[d] = "running")
  BY <1>1, <1>2, PumpMoves
<1> QED
  BY <1>3 DEF StaysOrStarts

-----------------------------------------------------------------------------
(* The theorems.                                                            *)

(* In every reachable state of the queue, whatever the lanes, the entries,  *)
(* the limits and the number of restarts, the inductive invariant holds.    *)
THEOREM Invariance == Spec => []IInv
BY InitEstablishes, NextKeeps, PTL DEF Spec

(* The state of process/command-queue.ts has its declared types; limits     *)
(* stay positive whatever setCommandLaneConcurrency is given.               *)
THEOREM TypeCorrect == Spec => []TypeOK
<1>1. IInv => TypeOK
  BY DEF IInv
<1> QED
  BY <1>1, Invariance, PTL

(* Nothing accepted is lost or queued twice by enqueue, pump, clear or      *)
(* restart.                                                                 *)
THEOREM NothingLost == Spec => []QueuesHoldTheQueued
<1>1. IInv => QueuesHoldTheQueued
  BY DEF IInv
<1> QED
  BY <1>1, Invariance, PTL

(* Stale completions neither take nor free a slot of the new generation.    *)
THEOREM StaleCompletionsAreIgnored == Spec => []ActiveAreCurrent
<1>1. IInv => ActiveAreCurrent
  BY DEF IInv
<1> QED
  BY <1>1, Invariance, PTL

(* No lane is left with queued work and a free slot.                        *)
THEOREM NoIdleSlot == Spec => []WorkConserving
<1>1. IInv => WorkConserving
  BY DEF IInv
<1> QED
  BY <1>1, Invariance, PTL

(* waitForActiveTasks is resolved as soon as the last task of its snapshot  *)
(* ends or is forgotten by a restart.                                       *)
THEOREM WaitersAreServed == Spec => []NoMissedWakeup
<1>1. IInv => NoMissedWakeup
  BY DEF IInv
<1> QED
  BY <1>1, Invariance, PTL

(* waitForActiveTasks says "drained" only of tasks that ended or that a     *)
(* restart forgot.                                                          *)
THEOREM DrainedIsNeverPremature == Spec => []DrainedIsTrue
<1>1. IInv => DrainedIsTrue
  BY DEF IInv
<1> QED
  BY <1>1, Invariance, PTL

(* drainLane starts the entries of a lane in the order of enqueueing and    *)
(* never past maxConcurrent.                                                *)
THEOREM FirstComeFirstServed == Spec => StartsInOrderAndWithinLimit
<1> DEFINE Body ==
      \A l \in Lanes :
        LET started == activeTaskIds'[l] \ activeTaskIds[l]
            ahead(e) == {d \in Entries : \E i, j \in 1..Len(queue[l]) :
                                            i < j /\ queue[l][i] = d /\ queue[l][j] = e}
        IN  /\ started # {} => Cardinality(activeTaskIds'[l]) <= maxConcurrent'[l]
            /\ \A e \in started : \A d \in ahead(e) : status'[d] # "queued"
<1>1. Ordered => Body
  BY DEF Ordered
<1>2. IInv /\ [Next]_vars => [Body]_vars
  BY <1>1, NextKeeps
<1> QED
  BY <1>2, Invariance, PTL DEF Spec, StartsInOrderAndWithinLimit
=============================================================================
