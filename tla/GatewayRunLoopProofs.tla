------------------------ MODULE GatewayRunLoopProofs ------------------------
(***************************************************************************)
(* Safety proofs for GatewayRunLoop.  A step of the process is a step of    *)
(* the command queue or leaves the queue alone, but for the signal, which   *)
(* raises the draining flag and registers the drain's waiter at once: so    *)
(* what is proved of the queue holds here.  The lock is followed from the   *)
(* moment the shutdown asks whether it is held to the exit.                 *)
(***************************************************************************)
EXTENDS GatewayRunLoop, CommandQueueProofs

(* Between the question and the release nobody takes the lock: only the     *)
(* shutdown itself does, later.                                             *)
LockFollowed ==
  /\ phase = "releasing" /\ lock => hadLock
  /\ phase = "leaving" => ~lock
  /\ Alive => exitCode = 0
  /\ loop = "exited" /\ exitCode = 0 => ~lock

(* The drain of a restart is its shutdown's, and has its waiter. *)
DrainIsRegistered == phase = "draining" => shuttingDown /\ waiterState[Drain] # "idle"

GInv ==
  /\ IInv
  /\ LoopTypeOK
  /\ LockFollowed
  /\ DrainIsRegistered

LEMMA LoopInitHolds == LoopInit => GInv
BY InitEstablishes
DEF LoopInit, GInv, IInv, LoopTypeOK, LockFollowed, DrainIsRegistered, Alive

-----------------------------------------------------------------------------
(* The queue underneath.                                                    *)

(* But for RequestRestart, a step of the process is one of the queue's, or  *)
(* none.                                                                    *)
LEMMA StepsOfTheQueue == LoopNext => RequestRestart \/ [Next]_vars
<1> SUFFICES ASSUME LoopNext PROVE RequestRestart \/ [Next]_vars
  OBVIOUS
<1>1. CASE Loop \/ RequestStop \/ Exited
  BY <1>1 DEF Loop, StartSucceeds, FirstStartFails, LaterStartFails,
              UnlockAfterFailedStart, RequestStop, Exited, loopVars
<1>2. CASE Shutdown
  <2>1. CASE Resume
    BY <2>1 DEF Resume, Next
  <2>2. CASE DrainTimesOut
    BY <2>2, DrainAssumption DEF DrainTimesOut, Next
  <2> QED
    BY <1>2, <2>1, <2>2 DEF Shutdown, RunsPoll, Proceed, ServerClosed, ForceExit,
       LockReleased, Leave, LockReacquired, LockNotReacquired
<1>3. ASSUME NEW e \in Entries, Work(e)
      PROVE  [Next]_vars
  BY <1>3 DEF Work, EnqueueWork, BeginRun, EndRun, FinishWork, Next
<1>4. ASSUME NEW l \in Lanes, NEW max \in Limits, ApplyLaneConcurrency(l, max)
      PROVE  [Next]_vars
  BY <1>4 DEF ApplyLaneConcurrency, Next
<1> QED
  BY <1>1, <1>2, <1>3, <1>4 DEF LoopNext

LEMMA QueueKeepsItsInvariant == IInv /\ [LoopNext]_loopVars => IInv'
<1> SUFFICES ASSUME IInv, [LoopNext]_loopVars PROVE IInv'
  OBVIOUS
<1>1. CASE RequestRestart
  BY <1>1, DrainAssumption, RegisterWaiterKeeps DEF RequestRestart
<1>2. CASE UNCHANGED loopVars
  BY <1>2, NextKeeps DEF loopVars
<1> QED
  BY <1>1, <1>2, StepsOfTheQueue, NextKeeps

(* A waiter that was registered stays registered or is resolved. *)
RegisteredStays == waiterState[Drain] # "idle" => waiterState'[Drain] # "idle"

LEMMA WaitersStayRegistered == IInv /\ [LoopNext]_loopVars => RegisteredStays
<1> SUFFICES ASSUME IInv, [LoopNext]_loopVars PROVE RegisteredStays
  OBVIOUS
<1>1. Drain \in Waiters /\ waiterState \in [Waiters -> WaiterStatus]
  BY DrainAssumption DEF IInv, TypeOK
<1>2. ASSUME NEW w \in Waiters, RegisterWaiter(w)
      PROVE  RegisteredStays
  BY <1>1, <1>2 DEF RegisterWaiter, RegisteredStays
<1>3. ASSUME NEW w \in Waiters, WaiterTimeout(w)
      PROVE  RegisteredStays
  BY <1>1, <1>3 DEF WaiterTimeout, RegisteredStays
<1>4. ASSUME NEW active, NotifyActiveTaskWaiters(active)
      PROVE  RegisteredStays
  BY <1>1, <1>4 DEF NotifyActiveTaskWaiters, RegisteredStays
<1>5. CASE UNCHANGED waiterVars
  BY <1>5 DEF waiterVars, RegisteredStays
<1>6. CASE Next
  <2>1. CASE \E l \in Lanes : ClearCommandLane(l)
    BY <1>5, <2>1 DEF ClearCommandLane
  <2>2. CASE \E l \in Lanes, max \in Limits : SetCommandLaneConcurrency(l, max)
    BY <1>5, <2>2 DEF SetCommandLaneConcurrency
  <2>3. CASE \E e \in Entries : EnqueueCommandInLane(e) \/ SettleStale(e)
    BY <1>5, <2>3 DEF EnqueueCommandInLane, RefuseWhileDraining, Accept, SettleStale
  <2>4. CASE \E e \in Entries : SettleCurrent(e)
    BY <1>4, <2>4 DEF SettleCurrent
  <2>5. CASE ResetAllLanes
    BY <1>4, <2>5 DEF ResetAllLanes
  <2>6. CASE MarkGatewayDraining
    BY <1>5, <2>6 DEF MarkGatewayDraining
  <2> QED
    BY <1>2, <1>3, <1>6, <2>1, <2>2, <2>3, <2>4, <2>5, <2>6
    DEF Next, Settle, WaitForActiveTasks
<1>7. CASE RequestRestart
  BY <1>1, <1>2, <1>7, DrainAssumption DEF RequestRestart
<1> QED
  BY <1>5, <1>6, <1>7, StepsOfTheQueue DEF vars, loopVars

-----------------------------------------------------------------------------
(* The process.                                                             *)

LEMMA LoopNextKeeps == GInv /\ [LoopNext]_loopVars => GInv'
<1> SUFFICES ASSUME GInv, [LoopNext]_loopVars PROVE GInv'
  OBVIOUS
<1>1. IInv /\ IInv' /\ TypeOK' /\ RegisteredStays
  BY QueueKeepsItsInvariant, WaitersStayRegistered DEF GInv, IInv
<1>2. LoopTypeOK /\ LockFollowed /\ DrainIsRegistered
  BY DEF GInv
<1> DEFINE Rest == LoopTypeOK' /\ LockFollowed' /\ DrainIsRegistered'
<1> USE DEF LoopTypeOK, LockFollowed, DrainIsRegistered, RegisteredStays, Alive, Exit
<1>3. ASSUME Loop
      PROVE  Rest
  <2>1. CASE StartSucceeds
    BY <1>1, <1>2, <2>1 DEF StartSucceeds, shutdownVars
  <2>2. CASE FirstStartFails
    BY <1>1, <1>2, <2>2 DEF FirstStartFails, shutdownVars
  <2>3. CASE LaterStartFails
    BY <1>1, <1>2, <2>3 DEF LaterStartFails, shutdownVars
  <2>4. CASE UnlockAfterFailedStart
    BY <1>1, <1>2, <2>4 DEF UnlockAfterFailedStart, shutdownVars
  <2> QED
    BY <1>3, <2>1, <2>2, <2>3, <2>4 DEF Loop
<1>4. ASSUME RequestStop
      PROVE  Rest
  BY <1>1, <1>2, <1>4 DEF RequestStop, CloseServer, processVars
<1>5. ASSUME RequestRestart
      PROVE  Rest
  <2>1. waiterState'[Drain] # "idle"
    BY <1>1, <1>5, DrainAssumption DEF RequestRestart, RegisterWaiter, IInv, TypeOK
  <2> QED
    BY <1>1, <1>2, <1>5, <2>1 DEF RequestRestart, processVars
<1>6. ASSUME DrainTimesOut \/ RunsPoll
      PROVE  Rest
  BY <1>1, <1>2, <1>6 DEF DrainTimesOut, RunsPoll, shutdownVars, processVars
<1>7. ASSUME Proceed \/ ServerClosed
      PROVE  Rest
  <2>1. CASE Proceed
    BY <1>1, <1>2, <2>1 DEF Proceed, CloseServer, processVars
  <2>2. CASE ServerClosed
    BY <1>1, <1>2, <2>2 DEF ServerClosed
  <2> QED
    BY <1>7, <2>1, <2>2
<1>8. ASSUME ForceExit \/ Leave \/ LockNotReacquired
      PROVE  Rest
  BY <1>1, <1>2, <1>8 DEF ForceExit, Leave, LockNotReacquired, shutdownVars
<1>9. ASSUME LockReleased
      PROVE  Rest
  BY <1>1, <1>2, <1>9, RespawnAssumption DEF LockReleased
<1>10. ASSUME LockReacquired \/ Resume
       PROVE  Rest
  BY <1>1, <1>2, <1>10 DEF LockReacquired, Resume
<1>11. ASSUME NEW e \in Entries, Work(e)
       PROVE  Rest
  BY <1>1, <1>2, <1>11 DEF Work, EnqueueWork, BeginRun, EndRun, FinishWork,
     shutdownVars, processVars
<1>12. ASSUME NEW l \in Lanes, NEW max \in Limits, ApplyLaneConcurrency(l, max)
       PROVE  Rest
  BY <1>1, <1>2, <1>12 DEF ApplyLaneConcurrency, shutdownVars, processVars
<1>13. ASSUME UNCHANGED loopVars
       PROVE  Rest
  BY <1>1, <1>2, <1>13 DEF loopVars, shutdownVars, processVars
<1>14. ASSUME Exited
       PROVE  Rest
  BY <1>13, <1>14 DEF Exited
<1> QED
  BY <1>1, <1>3, <1>4, <1>5, <1>6, <1>7, <1>8, <1>9, <1>10, <1>11, <1>12, <1>13, <1>14
  DEF GInv, LoopNext, Shutdown

(* In every reachable state of the process, whatever the signals, timeouts, *)
(* failing starts and respawn modes, its invariant and the queue's hold.    *)
THEOREM LoopInvariance == LoopSpec => []GInv
BY LoopInitHolds, LoopNextKeeps, PTL DEF LoopSpec

-----------------------------------------------------------------------------
(* The theorems.                                                            *)

(* The state of cli/gateway-cli/run-loop.ts has its declared values.        *)
THEOREM LoopTypeCorrect == LoopSpec => []LoopTypeOK
<1>1. GInv => LoopTypeOK
  BY DEF GInv
<1> QED
  BY <1>1, LoopInvariance, PTL

(* A process that was stopped or replaced leaves the gateway lock to its    *)
(* successor.                                                               *)
THEOREM LockIsGivenUp == LoopSpec => []LockFreeForSuccessor
<1>1. GInv => LockFreeForSuccessor
  BY DEF GInv, LockFollowed, LockFreeForSuccessor
<1> QED
  BY <1>1, LoopInvariance, PTL

(* The server is closed for a restart only when the tasks and runs the      *)
(* signal found are over, forgotten, or have had their time.                *)
THEOREM DrainedBeforeTeardown == LoopSpec => TeardownAfterDrain
<1> DEFINE Body ==
      (phase = "draining" /\ phase' # "draining") =>
         /\ \/ waiterState[Drain] = "timedOut"
            \/ \A e \in waiterIds[Drain] : status[e] # "running"
                                           \/ taskGeneration[e] < generation[laneOf[e]]
         /\ runsDrain # "waiting"
<1>1. GInv /\ [LoopNext]_loopVars => [Body]_loopVars
  <2> SUFFICES ASSUME GInv, LoopNext, phase = "draining", phase' # "draining"
               PROVE  Body
    OBVIOUS
  <2>1. ~Loop /\ ~RequestStop /\ ~RequestRestart /\ ~Exited
    BY DEF GInv, DrainIsRegistered, RequestStop, Loop, StartSucceeds, FirstStartFails, LaterStartFails, UnlockAfterFailedStart,
       RequestRestart, Exited, loopVars, shutdownVars
  <2>2. ~(\E e \in Entries : Work(e))
    BY DEF Work, EnqueueWork, BeginRun, EndRun, FinishWork, shutdownVars
  <2>3. ~(\E l \in Lanes, max \in Limits : ApplyLaneConcurrency(l, max))
    BY DEF ApplyLaneConcurrency, shutdownVars
  <2>4. ~DrainTimesOut /\ ~RunsPoll /\ ~ServerClosed /\ ~ForceExit /\ ~LockReleased
        /\ ~Leave /\ ~LockReacquired /\ ~LockNotReacquired /\ ~Resume
    BY DEF DrainTimesOut, RunsPoll, ServerClosed, ForceExit, LockReleased, Leave,
       LockReacquired, LockNotReacquired, Resume, shutdownVars
  <2>5. Proceed
    BY <2>1, <2>2, <2>3, <2>4 DEF LoopNext, Shutdown
  <2> QED
    BY <2>5, DrainAssumption
    DEF Proceed, GInv, IInv, TypeOK, WaiterStatus, DrainIsRegistered, DrainedIsTrue
<1> QED
  BY <1>1, LoopInvariance, PTL DEF LoopSpec, TeardownAfterDrain
=============================================================================
