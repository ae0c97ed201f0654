----------------------- MODULE EmbeddedRunLanesProofs -----------------------
(***************************************************************************)
(* Safety proofs for EmbeddedRunLanes.  Every step of the runs is a step of *)
(* the command queue, so what is proved of the queue holds here, and with   *)
(* it that a lane starts nothing past its limit.  The limit of a session's  *)
(* lane stays 1, and the task in it outlasts the run proper it waits for.   *)
(***************************************************************************)
EXTENDS EmbeddedRunLanes, CommandQueueProofs

(* The task of run r in the lane of its session. *)
SessionTask(r) == <<r, Depth(r) - 1>>

(* Nothing changes an entry's lane, a session's limit or, for there is no   *)
(* restart, a generation.                                                   *)
LanesFixed ==
  /\ laneOf = [e \in Entries |-> Path(e[1])[e[2]]]
  /\ \A l \in Lanes : generation[l] = 0
  /\ \A r \in Runs : maxConcurrent[SessionLane(r)] = 1

SessionLanesHoldOne ==
  \A r \in Runs : \A d, e \in activeTaskIds[SessionLane(r)] : d = e

(* Who waits for a run proper is running. *)
SessionTasksWait ==
  \A r \in Runs : status[Innermost(r)] \in Pending => status[SessionTask(r)] = "running"

LInv ==
  /\ IInv
  /\ LanesFixed
  /\ SessionLanesHoldOne
  /\ SessionTasksWait

-----------------------------------------------------------------------------
(* The tiers of a run.                                                      *)

LEMMA Tiers ==
  ASSUME NEW r \in Runs
  PROVE  /\ SessionTask(r) \in Entries /\ Innermost(r) \in Entries
         /\ SessionTask(r) # Innermost(r)
         /\ Path(r)[Depth(r) - 1] = SessionLane(r)
         /\ SessionLane(r) \in Lanes
<1>1. Depth(r) = IF r \in ManualCron THEN 3 ELSE 2
  BY DEF Depth
<1>2. SessionTask(r) \in Entries /\ Innermost(r) \in Entries /\ SessionTask(r) # Innermost(r)
  BY <1>1, EntriesAssumption DEF SessionTask, Innermost
<1>3. Path(r)[Depth(r) - 1] = SessionLane(r)
  BY <1>1 DEF Path
<1>4. Depth(r) - 1 \in 1..Depth(r)
  BY <1>1
<1> QED
  BY <1>2, <1>3, <1>4, LanesAssumption

LEMMA EntriesAre ==
  ASSUME NEW e \in Entries
  PROVE  /\ e[1] \in Runs /\ e[2] \in 1..3 /\ e = <<e[1], e[2]>>
         /\ e[2] = 3 => e[1] \in ManualCron
BY EntriesAssumption

(* A step of the runs is a step of the queue. *)
LEMMA StepsOfTheQueue == LanesNext => Next
<1> USE DEF LanesNext, Next
<1>1. ASSUME NEW e \in Entries, TaskStep(e) \/ CronTimeout(e)
      PROVE  \E d \in Entries : EnqueueCommandInLane(d) \/ Settle(d)
  <2>1. CASE EnqueueInner(e)
    <3>1. Inner(e) \in Entries
      BY <2>1, EntriesAssumption DEF EnqueueInner, IsInnermost, Innermost, Inner, Depth
    <3> QED
      BY <2>1, <3>1 DEF EnqueueInner
  <2> QED
    BY <1>1, <2>1 DEF TaskStep, GiveUp, SettleOuter, RunEnds, CronTimeout
<1>2. ASSUME NEW r \in Runs, RunEmbeddedPiAgent(r)
      PROVE  \E d \in Entries : EnqueueCommandInLane(d)
  BY <1>2, EntriesAssumption DEF RunEmbeddedPiAgent, Outermost
<1> QED
  BY <1>1, <1>2 DEF ClearSessionLane, ApplyGatewayLaneConcurrency, BeginDraining

(* pi-embedded-runner uses the command queue only through its operations:   *)
(* what is proved of every behaviour of the queue holds of the runs.        *)
THEOREM QueueBehaviour == LanesSpec => Spec
<1>1. LanesInit => Init
  BY DEF LanesInit
<1>2. [LanesNext]_vars => [Next]_vars
  BY StepsOfTheQueue
<1> QED
  BY <1>1, <1>2, PTL DEF LanesSpec, Spec

-----------------------------------------------------------------------------
(* The invariant.                                                           *)

LEMMA LanesInitHolds == LanesInit => LInv
<1> SUFFICES ASSUME LanesInit PROVE LInv
  OBVIOUS
<1>1. Init
  BY DEF LanesInit
<1>2. IInv
  BY <1>1, InitEstablishes
<1>3. LanesFixed /\ SessionLanesHoldOne
  BY <1>1, Tiers DEF Init, LanesInit, LanesFixed, SessionLanesHoldOne
<1>4. SessionTasksWait
  BY <1>1, Tiers DEF Init, SessionTasksWait, Pending
<1> QED
  BY <1>2, <1>3, <1>4 DEF LInv

LEMMA LanesStayFixed ==
  ASSUME LInv, LanesNext
  PROVE  LanesFixed'
<1> USE DEF LInv, LanesFixed
<1>1. ASSUME NEW e \in Entries, EnqueueCommandInLane(e) \/ Settle(e)
      PROVE  LanesFixed'
  BY <1>1 DEF EnqueueCommandInLane, Accept, RefuseWhileDraining, Settle, SettleCurrent, SettleStale, laneVars
<1>2. ASSUME NEW l \in Lanes, ClearSessionLane(l)
      PROVE  LanesFixed'
  BY <1>2 DEF ClearSessionLane, ClearCommandLane
<1>3. ASSUME NEW l \in Lanes, NEW max \in Limits, ApplyGatewayLaneConcurrency(l, max)
      PROVE  LanesFixed'
  <2>1. \A r \in Runs : SessionLane(r) # l
    BY <1>3 DEF ApplyGatewayLaneConcurrency, SessionLane
  <2>2. maxConcurrent \in [Lanes -> Nat \ {0}]
    BY DEF IInv, TypeOK
  <2>3. maxConcurrent' = [maxConcurrent EXCEPT ![l] = LaneLimit(max)]
        /\ laneOf' = laneOf /\ generation' = generation
    BY <1>3 DEF ApplyGatewayLaneConcurrency, SetCommandLaneConcurrency
  <2> QED
    BY <2>1, <2>2, <2>3, Tiers
<1>4. CASE BeginDraining
  BY <1>4 DEF BeginDraining, MarkGatewayDraining, laneVars, entryVars
<1>5. ASSUME NEW e \in Entries, TaskStep(e) \/ CronTimeout(e)
      PROVE  LanesFixed'
  <2>1. CASE EnqueueInner(e)
    <3>1. Inner(e) \in Entries
      BY <2>1, EntriesAssumption DEF EnqueueInner, IsInnermost, Innermost, Inner, Depth
    <3> QED
      BY <1>1, <2>1, <3>1 DEF EnqueueInner
  <2> QED
    BY <1>1, <1>5, <2>1 DEF TaskStep, GiveUp, SettleOuter, RunEnds, CronTimeout
<1>6. ASSUME NEW r \in Runs, RunEmbeddedPiAgent(r)
      PROVE  LanesFixed'
  <2>1. Outermost(r) \in Entries
    BY EntriesAssumption DEF Outermost
  <2> QED
    BY <1>1, <1>6, <2>1 DEF RunEmbeddedPiAgent
<1> QED
  BY <1>2, <1>3, <1>4, <1>5, <1>6 DEF LanesNext

(* The queue starts nothing past a limit of one. *)
LEMMA SessionLanesStayExclusive ==
  ASSUME LInv, IInv', LanesFixed', Ordered
  PROVE  SessionLanesHoldOne'
<1> SUFFICES ASSUME NEW r \in Runs, NEW d \in activeTaskIds'[SessionLane(r)],
                    NEW e \in activeTaskIds'[SessionLane(r)]
             PROVE  d = e
  BY DEF SessionLanesHoldOne
<1> DEFINE A == activeTaskIds'[SessionLane(r)]
<1>1. SessionLane(r) \in Lanes
  BY Tiers
<1>2. CASE A \subseteq activeTaskIds[SessionLane(r)]
  BY <1>2 DEF LInv, SessionLanesHoldOne
<1>3. CASE ~(A \subseteq activeTaskIds[SessionLane(r)])
  <2>1. Cardinality(A) <= 1
    BY <1>1, <1>3 DEF Ordered, LanesFixed
  <2>2. A \in SUBSET Entries
    BY <1>1 DEF IInv, TypeOK
  <2>3. IsFiniteSet(A) /\ Cardinality(A) \in Nat
    BY <2>2, ActiveFinite
  <2>4. Cardinality(A \ {d}) = Cardinality(A) - 1 /\ IsFiniteSet(A \ {d})
    BY <2>3, FS_RemoveElement
  <2>5. Cardinality(A \ {d}) \in Nat
    BY <2>4, FS_CardinalityType
  <2>6. Cardinality(A \ {d}) = 0
    BY <2>1, <2>3, <2>4, <2>5
  <2>7. A \ {d} = {}
    BY <2>4, <2>6, FS_EmptySet
  <2> QED
    BY <2>7
<1> QED
  BY <1>2, <1>3

(* An entry that is settled or enqueued, and the others that start or stay. *)
LEMMA SessionTasksKeepWaiting ==
  ASSUME LInv, LanesNext
  PROVE  SessionTasksWait'
<1> SUFFICES ASSUME NEW r \in Runs, status'[Innermost(r)] \in Pending
             PROVE  status'[SessionTask(r)] = "running"
  BY DEF SessionTasksWait
<1> DEFINE in == Innermost(r)
           out == SessionTask(r)
<1>1. IInv /\ in \in Entries /\ out \in Entries /\ in # out
  BY Tiers DEF LInv
<1>2. status[in] \in Pending => status[out] = "running"
  BY DEF LInv, SessionTasksWait
<1>3. out = <<r, Depth(r) - 1>> /\ in = <<r, Depth(r)>> /\ Depth(r) = IF r \in ManualCron THEN 3 ELSE 2
  BY DEF SessionTask, Innermost, Depth
<1>4. ASSUME NEW e \in Entries, Settle(e), e = out => status[in] \in Settled \cup {"new"}
      PROVE  status'[out] = "running"
  <2>1. status[e] = "running" /\ status'[e] = "done" /\ \A d \in Entries \ {e} : StaysOrStarts(d)
    BY <1>1, <1>4, SettleMoves
  <2>2. e # in /\ status[in] \in Pending
    BY <1>1, <2>1 DEF StaysOrStarts, Pending
  <2>3. e # out
    BY <1>4, <2>2 DEF Settled, Pending
  <2> QED
    BY <1>1, <1>2, <2>1, <2>2, <2>3 DEF StaysOrStarts
<1>5. ASSUME NEW e \in Entries, EnqueueCommandInLane(e), e = in => status[out] = "running"
      PROVE  status'[out] = "running"
  <2>1. status[e] = "new" /\ \A d \in Entries \ {e} : StaysOrStarts(d)
    BY <1>1, <1>5, EnqueueMoves
  <2>2. CASE e = in
    BY <1>1, <1>5, <2>1, <2>2 DEF StaysOrStarts
  <2>3. CASE e # in
    <3>1. status[in] \in Pending
      BY <1>1, <2>1, <2>3 DEF StaysOrStarts, Pending
    <3> QED
      BY <1>1, <1>2, <2>1, <3>1 DEF StaysOrStarts
  <2> QED
    BY <2>2, <2>3
<1>6. status'[in] \in Pending
  OBVIOUS
<1> HIDE DEF in, out
<1>7. ASSUME NEW q \in Runs, RunEmbeddedPiAgent(q)
      PROVE  status'[out] = "running"
  <2>1. Outermost(q) \in Entries /\ Outermost(q) # in
    BY <1>3, EntriesAssumption DEF Outermost
  <2> QED
    BY <1>5, <1>7, <2>1 DEF RunEmbeddedPiAgent
<1>8. ASSUME NEW e \in Entries, EnqueueInner(e)
      PROVE  status'[out] = "running"
  <2>1. Inner(e) \in Entries
    BY <1>8, EntriesAssumption DEF EnqueueInner, IsInnermost, Innermost, Inner, Depth
  <2>2. Inner(e) = in => e = out
    BY <1>3, EntriesAre DEF Inner
  <2> QED
    BY <1>5, <1>8, <2>1, <2>2 DEF EnqueueInner
<1>9. ASSUME NEW e \in Entries, GiveUp(e) \/ SettleOuter(e) \/ RunEnds(e) \/ CronTimeout(e)
      PROVE  status'[out] = "running"
  <2>1. Settle(e)
    BY <1>9 DEF GiveUp, SettleOuter, RunEnds, CronTimeout
  <2>2. e = out => Inner(e) = in /\ ~IsInnermost(e) /\ ~CronTimeout(e)
    BY <1>3 DEF Inner, IsInnermost, Innermost, CronTimeout
  <2>3. e = out => status[in] \in Settled \cup {"new"}
    BY <1>9, <2>2 DEF GiveUp, SettleOuter, RunEnds, InnerIsOver
  <2> QED
    BY <1>4, <2>1, <2>3
<1>10. ASSUME NEW l \in Lanes, ClearSessionLane(l)
      PROVE  status'[out] = "running"
  <2>1. \A d \in Entries : status'[d] = status[d] \/ (status[d] = "queued" /\ status'[d] = "cleared")
    BY <1>10 DEF ClearSessionLane, ClearCommandLane
  <2> QED
    BY <1>1, <1>2, <1>6, <2>1 DEF Pending
<1>11. ASSUME NEW l \in Lanes, NEW max \in Limits, ApplyGatewayLaneConcurrency(l, max)
       PROVE  status'[out] = "running"
  <2>1. \A d \in Entries : StaysOrStarts(d)
    BY <1>1, <1>11, LimitMoves DEF ApplyGatewayLaneConcurrency
  <2> QED
    BY <1>1, <1>2, <1>6, <2>1 DEF StaysOrStarts, Pending
<1>12. ASSUME BeginDraining
       PROVE  status'[out] = "running"
  BY <1>2, <1>6, <1>12 DEF BeginDraining, MarkGatewayDraining, entryVars, in
<1> QED
  BY <1>7, <1>8, <1>9, <1>10, <1>11, <1>12 DEF LanesNext, TaskStep, out

LEMMA LanesNextKeeps == LInv /\ [LanesNext]_vars => LInv'
<1> SUFFICES ASSUME LInv, [LanesNext]_vars PROVE LInv'
  OBVIOUS
<1>1. CASE LanesNext
  <2>1. IInv' /\ Ordered
    BY <1>1, StepsOfTheQueue, NextKeeps DEF LInv
  <2>2. LanesFixed'
    BY <1>1, LanesStayFixed
  <2>3. SessionLanesHoldOne'
    BY <2>1, <2>2, SessionLanesStayExclusive
  <2>4. SessionTasksWait'
    BY <1>1, SessionTasksKeepWaiting
  <2> QED
    BY <2>1, <2>2, <2>3, <2>4 DEF LInv
<1>2. CASE UNCHANGED vars
  <2>1. IInv'
    BY <1>2, NextKeeps DEF LInv
  <2> QED
    BY <1>2, <2>1
    DEF LInv, LanesFixed, SessionLanesHoldOne, SessionTasksWait, vars, laneVars, entryVars
<1> QED
  BY <1>1, <1>2

(* In every reachable state of the nested lanes the invariant holds, for    *)
(* any sessions, runs and limits of the gateway's lanes.                    *)
THEOREM LanesInvariance == LanesSpec => []LInv
BY LanesInitHolds, LanesNextKeeps, PTL DEF LanesSpec

-----------------------------------------------------------------------------
(* The theorems.                                                            *)

LEMMA OneRunOfASession == LInv => OneRunPerSession
<1> SUFFICES ASSUME LInv, NEW q \in Runs, NEW r \in Runs, SessionKey[q] = SessionKey[r],
                    status[Innermost(q)] = "running", status[Innermost(r)] = "running"
             PROVE  q = r
  BY DEF OneRunPerSession
<1>1. TypeOK /\ NoFutureTask /\ ActiveAreCurrent
  BY DEF LInv, IInv
<1>2. ASSUME NEW p \in Runs, status[Innermost(p)] = "running"
      PROVE  SessionTask(p) \in activeTaskIds[SessionLane(p)]
  <2>1. status[SessionTask(p)] = "running"
    BY <1>2 DEF LInv, SessionTasksWait, Pending
  <2>2. laneOf[SessionTask(p)] = SessionLane(p)
    BY Tiers DEF LInv, LanesFixed, SessionTask
  <2>3. taskGeneration[SessionTask(p)] \in Nat
    BY <1>1, Tiers DEF TypeOK
  <2>4. taskGeneration[SessionTask(p)] <= 0 /\ generation[SessionLane(p)] = 0
    BY <1>1, <2>1, <2>2, Tiers DEF NoFutureTask, LInv, LanesFixed
  <2> QED
    BY <1>1, <2>1, <2>2, <2>3, <2>4, Tiers DEF ActiveAreCurrent
<1>3. SessionTask(q) = SessionTask(r)
  BY <1>2 DEF LInv, SessionLanesHoldOne, SessionLane
<1> QED
  BY <1>3 DEF SessionTask

(* docs/concepts/queue.md:83: one agent run at a time touches a session,    *)
(* whatever lanes its runs were asked for in, whatever the limits are set   *)
(* to, whichever runs are given up, time out or are cleared.                *)
THEOREM SessionsAreExclusive == LanesSpec => []OneRunPerSession
BY LanesInvariance, OneRunOfASession, PTL
=============================================================================
