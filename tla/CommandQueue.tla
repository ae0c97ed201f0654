---------------------------- MODULE CommandQueue ----------------------------
(***************************************************************************)
(* The in-process command queue of the gateway, src/process/command-queue.ts: *)
(* named lanes, each a FIFO of entries and a set of executing tasks capped  *)
(* by the lane's maxConcurrent, a gateway-wide draining flag, and the       *)
(* waiters of waitForActiveTasks.                                           *)
(*                                                                          *)
(* An entry stands for one call of enqueueCommandInLane, with its task and  *)
(* its promise.  The code numbers a task when it starts it; an entry starts *)
(* at most once, so the entry itself plays the task id.  The flag           *)
(* LaneState.draining is set and reset inside one synchronous call, so it   *)
(* is FALSE between two actions and has no variable here.                   *)
(***************************************************************************)
EXTENDS Naturals, Sequences, FiniteSets

CONSTANTS
  Lanes,          \* the lane names in use
  Entries,        \* the calls of enqueueCommandInLane
  Waiters,        \* the calls of waitForActiveTasks
  Limits,         \* the values setCommandLaneConcurrency may be given
  MaxGeneration   \* bound: how many times resetAllLanes runs

ASSUME FiniteAssumption == IsFiniteSet(Entries)
ASSUME LimitsAssumption == Limits \subseteq Nat
ASSUME GenerationAssumption == MaxGeneration \in Nat

VARIABLES
  gatewayDraining,  \* new enqueues are refused
  queue,            \* LaneState.queue
  activeTaskIds,    \* LaneState.activeTaskIds
  maxConcurrent,    \* LaneState.maxConcurrent
  generation,       \* LaneState.generation
  status,           \* what has become of each entry and of its promise
  laneOf,           \* the lane an entry was enqueued in
  taskGeneration,   \* the lane generation in which an entry's task was started
  waiterIds,        \* ActiveTaskWaiter.activeTaskIds, the snapshot
  waiterState       \* whether a waiter is registered, and how it was resolved

laneVars == <<queue, activeTaskIds, maxConcurrent, generation>>
entryVars == <<status, laneOf, taskGeneration>>
waiterVars == <<waiterIds, waiterState>>
vars == <<gatewayDraining, laneVars, entryVars, waiterVars>>

Pending == {"queued", "running"}
Settled == {"done", "cleared", "refused"}
EntryStatus == {"new"} \cup Pending \cup Settled
WaiterStatus == {"idle", "waiting", "drained", "timedOut"}

Init ==
  /\ gatewayDraining = FALSE
  /\ queue = [l \in Lanes |-> <<>>]
  /\ activeTaskIds = [l \in Lanes |-> {}]
  /\ maxConcurrent = [l \in Lanes |-> 1]
  /\ generation = [l \in Lanes |-> 0]
  /\ status = [e \in Entries |-> "new"]
  /\ laneOf \in [Entries -> Lanes]
  /\ taskGeneration = [e \in Entries |-> 0]
  /\ waiterIds = [w \in Waiters |-> {}]
  /\ waiterState = [w \in Waiters |-> "idle"]

-----------------------------------------------------------------------------
(* The pump: drainLane and the loop inside it.                              *)

StartableUpToLimit(q, active, max) ==
  IF Cardinality(active) > max THEN 0
  ELSE IF max - Cardinality(active) < Len(q) THEN max + 1 - Cardinality(active)
  ELSE Len(q)

(* How many entries the loop starts: while |active| < max and queue # <<>>. *)
Startable(q, active, max) ==
  IF Cardinality(active) >= max THEN 0
  ELSE IF max - Cardinality(active) <= Len(q) THEN max - Cardinality(active)
  ELSE Len(q)

(* The entries the loop shifts off q. *)
Prefix(q, n) == {q[i] : i \in 1..n}

(* Run the pump on the lanes ls, from queues q, active sets a, limits m,    *)
(* generations g and statuses st; the other lanes take those values as is.  *)
Pump(ls, q, a, m, g, st) ==
  LET n == [l \in Lanes |-> IF l \in ls THEN Startable(q[l], a[l], m[l]) ELSE 0]
      started == [l \in Lanes |-> Prefix(q[l], n[l])]
      starting(e) == e \in started[laneOf[e]]
  IN  /\ queue' = [l \in Lanes |-> SubSeq(q[l], n[l] + 1, Len(q[l]))]
      /\ activeTaskIds' = [l \in Lanes |-> a[l] \cup started[l]]
      /\ status' = [e \in Entries |-> IF starting(e) THEN "running" ELSE st[e]]
      /\ taskGeneration' =
           [e \in Entries |-> IF starting(e) THEN g[laneOf[e]] ELSE taskGeneration[e]]

-----------------------------------------------------------------------------
(* Waiters.                                                                 *)

HasPendingOnEveryLane(ids, active) == \A l \in Lanes : active[l] \cap ids # {}

HasPendingActiveTasks(ids, active) == \E l \in Lanes : active[l] \cap ids # {}

NotifyActiveTaskWaiters(active) ==
  /\ waiterState' =
       [w \in Waiters |->
          IF waiterState[w] = "waiting" /\ ~HasPendingActiveTasks(waiterIds[w], active)
          THEN "drained" ELSE waiterState[w]]
  /\ UNCHANGED waiterIds

-----------------------------------------------------------------------------
(* The operations of the module, one action each.                           *)

MarkGatewayDraining ==
  /\ gatewayDraining' = TRUE
  /\ UNCHANGED <<laneVars, entryVars, waiterVars>>

UnclampedLimit(max) == max

(* Math.max(1, Math.floor(maxConcurrent)) *)
LaneLimit(max) == IF max < 1 THEN 1 ELSE max

SetCommandLaneConcurrency(l, max) ==
  LET limits == [maxConcurrent EXCEPT ![l] = LaneLimit(max)]
  IN  /\ maxConcurrent' = limits
      /\ Pump({l}, queue, activeTaskIds, limits, generation, status)
      /\ UNCHANGED <<gatewayDraining, generation, laneOf, waiterVars>>

RefuseWhileDraining(e) ==
  /\ status[e] = "new"
  /\ gatewayDraining
  /\ status' = [status EXCEPT ![e] = "refused"]
  /\ UNCHANGED <<gatewayDraining, laneVars, laneOf, taskGeneration, waiterVars>>

Accept(e) ==
  /\ status[e] = "new"
  /\ ~gatewayDraining
  /\ Pump({laneOf[e]},
          [queue EXCEPT ![laneOf[e]] = Append(@, e)],
          activeTaskIds, maxConcurrent, generation,
          [status EXCEPT ![e] = "queued"])
  /\ UNCHANGED <<gatewayDraining, maxConcurrent, generation, laneOf, waiterVars>>

EnqueueCommandInLane(e) == RefuseWhileDraining(e) \/ Accept(e)

(* completeTask drops the bookkeeping of a task that an older generation    *)
(* started; its caller's promise is settled all the same.                   *)
CurrentGeneration(e) == taskGeneration[e] = generation[laneOf[e]]

SettleWithoutPump(e) ==
  LET active == [activeTaskIds EXCEPT ![laneOf[e]] = @ \ {e}]
  IN  /\ status[e] = "running"
      /\ CurrentGeneration(e)
      /\ NotifyActiveTaskWaiters(active)
      /\ activeTaskIds' = active
      /\ status' = [status EXCEPT ![e] = "done"]
      /\ UNCHANGED <<gatewayDraining, queue, maxConcurrent, generation, laneOf, taskGeneration>>

SettleWithoutNotify(e) ==
  LET active == [activeTaskIds EXCEPT ![laneOf[e]] = @ \ {e}]
  IN  /\ status[e] = "running"
      /\ CurrentGeneration(e)
      /\ Pump({laneOf[e]}, queue, active, maxConcurrent, generation,
              [status EXCEPT ![e] = "done"])
      /\ UNCHANGED <<gatewayDraining, maxConcurrent, generation, laneOf, waiterVars>>

SettleCurrent(e) ==
  LET active == [activeTaskIds EXCEPT ![laneOf[e]] = @ \ {e}]
  IN  /\ status[e] = "running"
      /\ CurrentGeneration(e)
      /\ NotifyActiveTaskWaiters(active)
      /\ Pump({laneOf[e]}, queue, active, maxConcurrent, generation,
              [status EXCEPT ![e] = "done"])
      /\ UNCHANGED <<gatewayDraining, maxConcurrent, generation, laneOf>>

SettleStale(e) ==
  /\ status[e] = "running"
  /\ ~CurrentGeneration(e)
  /\ status' = [status EXCEPT ![e] = "done"]
  /\ UNCHANGED <<gatewayDraining, laneVars, laneOf, taskGeneration, waiterVars>>

(* The task's promise resolves or rejects: the queue treats both alike. *)
Settle(e) == SettleCurrent(e) \/ SettleStale(e)

ClearWithoutReject(l) ==
  /\ queue' = [queue EXCEPT ![l] = <<>>]
  /\ UNCHANGED <<gatewayDraining, activeTaskIds, maxConcurrent, generation, entryVars, waiterVars>>

ClearCommandLane(l) ==
  /\ status' = [e \in Entries |->
                  IF status[e] = "queued" /\ laneOf[e] = l THEN "cleared" ELSE status[e]]
  /\ queue' = [queue EXCEPT ![l] = <<>>]
  /\ UNCHANGED <<gatewayDraining, activeTaskIds, maxConcurrent, generation,
                 laneOf, taskGeneration, waiterVars>>

(* The in-process restart: forget the executing tasks, keep the queued      *)
(* entries and pump the lanes that have some.                               *)
NoLaneToDrain == {}

LanesToDrain == {l \in Lanes : queue[l] # <<>>}

SameGenerations == generation

NewGenerations == [l \in Lanes |-> generation[l] + 1]

ForgottenActive == [l \in Lanes |-> {}]

ResetAllLanes ==
  /\ \A l \in Lanes : generation[l] < MaxGeneration
  /\ gatewayDraining' = FALSE
  /\ generation' = NewGenerations
  /\ Pump(LanesToDrain, queue, ForgottenActive, maxConcurrent, NewGenerations, status)
  /\ NotifyActiveTaskWaiters(activeTaskIds')
  /\ UNCHANGED <<maxConcurrent, laneOf>>

(* waitForActiveTasks with a positive timeout; with none it resolves at     *)
(* once and leaves nothing behind.                                          *)
RegisterWaiter(w) ==
  LET snapshot == UNION {activeTaskIds[l] : l \in Lanes}
  IN  /\ waiterState[w] # "waiting"
      /\ waiterIds' = [waiterIds EXCEPT ![w] = snapshot]
      /\ waiterState' = [waiterState EXCEPT ![w] = IF snapshot = {} THEN "drained" ELSE "waiting"]

WaitForActiveTasks(w) ==
  /\ RegisterWaiter(w)
  /\ UNCHANGED <<gatewayDraining, laneVars, entryVars>>

WaiterTimeout(w) ==
  /\ waiterState[w] = "waiting"
  /\ waiterState' = [waiterState EXCEPT ![w] = "timedOut"]
  /\ UNCHANGED <<gatewayDraining, laneVars, entryVars, waiterIds>>

Next ==
  \/ MarkGatewayDraining
  \/ ResetAllLanes
  \/ \E l \in Lanes : ClearCommandLane(l)
  \/ \E l \in Lanes, max \in Limits : SetCommandLaneConcurrency(l, max)
  \/ \E e \in Entries : EnqueueCommandInLane(e) \/ Settle(e)
  \/ \E w \in Waiters : WaitForActiveTasks(w) \/ WaiterTimeout(w)

Spec == Init /\ [][Next]_vars

(* Every task the queue starts ends in the end (agent runs carry a timeout). *)
FairSpec == Spec /\ \A e \in Entries : WF_vars(Settle(e))

-----------------------------------------------------------------------------
(* Properties.                                                              *)

TypeOK ==
  /\ gatewayDraining \in BOOLEAN
  /\ queue \in [Lanes -> Seq(Entries)]
  /\ activeTaskIds \in [Lanes -> SUBSET Entries]
  /\ maxConcurrent \in [Lanes -> Nat \ {0}]
  /\ generation \in [Lanes -> 0..MaxGeneration]
  /\ status \in [Entries -> EntryStatus]
  /\ laneOf \in [Entries -> Lanes]
  /\ taskGeneration \in [Entries -> 0..MaxGeneration]
  /\ waiterIds \in [Waiters -> SUBSET Entries]
  /\ waiterState \in [Waiters -> WaiterStatus]

(* The queue of a lane holds exactly the entries of that lane whose promise *)
(* waits for a start, each once: nothing accepted is lost, nothing is       *)
(* queued twice, nothing that was cleared or started stays queued.          *)
QueuesHoldTheQueued ==
  \A l \in Lanes :
    /\ Prefix(queue[l], Len(queue[l])) = {e \in Entries : status[e] = "queued" /\ laneOf[e] = l}
    /\ \A i, j \in 1..Len(queue[l]) : queue[l][i] = queue[l][j] => i = j

(* The active set of a lane is exactly its running tasks of the current     *)
(* generation: a completion that an in-process restart made stale neither   *)
(* takes a slot nor gives one back.                                         *)
ActiveAreCurrent ==
  \A l \in Lanes :
    activeTaskIds[l] = {e \in Entries : /\ laneOf[e] = l
                                        /\ status[e] = "running"
                                        /\ taskGeneration[e] = generation[l]}

(* No lane has queued work and a free slot: after an enqueue, a completion, *)
(* a raised limit and a restart the pump has started all it may, so no      *)
(* entry waits for an enqueue that may never come.                          *)
WorkConserving ==
  \A l \in Lanes : queue[l] # <<>> => Cardinality(activeTaskIds[l]) >= maxConcurrent[l]

(* A registered waiter still has a task of its snapshot to wait for: no     *)
(* completion and no restart leaves it to its timeout.                      *)
NoMissedWakeup ==
  \A w \in Waiters :
    waiterState[w] = "waiting" => HasPendingActiveTasks(waiterIds[w], activeTaskIds)

(* A waiter told "drained" really outlived every task it had seen, except   *)
(* those an in-process restart abandoned.                                   *)
DrainedIsTrue ==
  \A w \in Waiters : waiterState[w] = "drained" =>
    \A e \in waiterIds[w] : status[e] = "running" => taskGeneration[e] < generation[laneOf[e]]

(* No step starts an entry past its lane's limit, or past an entry that was *)
(* enqueued in the same lane before it: a queue only loses a prefix, unless *)
(* the lane is cleared, and what leaves it otherwise starts.                *)
StartsInOrderAndWithinLimit ==
  [][\A l \in Lanes :
       LET started == activeTaskIds'[l] \ activeTaskIds[l]
           ahead(e) == {d \in Entries : \E i, j \in 1..Len(queue[l]) :
                                           i < j /\ queue[l][i] = d /\ queue[l][j] = e}
       IN  /\ started # {} => Cardinality(activeTaskIds'[l]) <= maxConcurrent'[l]
           /\ \A e \in started : \A d \in ahead(e) : status'[d] # "queued"
    ]_vars

(* While every task that starts also ends, every accepted entry's promise   *)
(* is settled, through raised and lowered limits, clears and restarts.      *)
AcceptedIsSettled ==
  \A e \in Entries : (status[e] \in Pending) ~> (status[e] \in Settled)
=============================================================================
