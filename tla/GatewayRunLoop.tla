--------------------------- MODULE GatewayRunLoop ---------------------------
(***************************************************************************)
(* The lifecycle of the gateway process, src/cli/gateway-cli/run-loop.ts,   *)
(* over the command queue it drains and resets.                             *)
(*                                                                          *)
(* Two coroutines share the process: the main loop, which starts a server   *)
(* and then waits for the restart promise, and the shutdown that a signal   *)
(* begins (request), which drains, closes the server, gives the gateway     *)
(* lock up and then exits or lets the loop go round once more.  Tasks and   *)
(* their embedded agent runs go on underneath.  The restart promise can be  *)
(* resolved exactly while the loop waits: in every other state the resolver *)
(* is unset or belongs to a promise that is already resolved.               *)
(***************************************************************************)
EXTENDS CommandQueue

CONSTANTS
  Drain,          \* the waiter of the shutdown's waitForActiveTasks
  RespawnModes,   \* what restartGatewayProcessWithFreshPid may answer here
  AgentTasks,     \* the tasks that do an embedded agent run
  Hung            \* the tasks that need never end

ASSUME DrainAssumption == Waiters = {Drain}
ASSUME RespawnAssumption == RespawnModes \subseteq {"spawned", "supervised", "disabled", "failed"}

VARIABLES
  loop,          \* the main loop: "starting", "waiting", "unlocking" or "exited"
  firstStart,    \* isFirstStart
  server,        \* whether the handle of a started server is held
  listening,     \* whether a server of this process is bound to the port
  lock,          \* whether the gateway lock is held
  shuttingDown,  \* shuttingDown
  phase,         \* how far the shutdown has come
  action,        \* "restart" or "stop", the shutdown's argument
  hadLock,       \* what releaseLockIfHeld answers
  exitCode,      \* the argument of exitProcess
  embeddedRun,   \* ACTIVE_EMBEDDED_RUNS, by the task that does the run
  runsDrain      \* the shutdown's waitForActiveEmbeddedRuns

shutdownVars == <<shuttingDown, phase, action, hadLock, runsDrain>>
processVars == <<loop, firstStart, server, listening, lock, exitCode>>
loopVars == <<vars, shutdownVars, processVars, embeddedRun>>

Alive == loop # "exited"

ActiveRuns == {e \in Entries : embeddedRun[e] = "active"}

LoopInit ==
  /\ Init
  /\ loop = "starting"
  /\ firstStart = TRUE
  /\ server = FALSE
  /\ listening = FALSE
  /\ lock \in BOOLEAN     \* there is none with SKILLSET_ALLOW_MULTI_GATEWAY
  /\ shuttingDown = FALSE
  /\ phase = "none"
  /\ action = "stop"
  /\ hadLock = FALSE
  /\ exitCode = 0
  /\ embeddedRun = [e \in Entries |-> "none"]
  /\ runsDrain = "drained"

Exit(code) ==
  /\ loop' = "exited"
  /\ exitCode' = code

-----------------------------------------------------------------------------
(* The main loop.                                                           *)

StartSucceeds ==
  /\ loop = "starting"
  /\ ~listening           \* a second listener of the port would fail
  /\ server' = TRUE
  /\ listening' = TRUE
  /\ firstStart' = FALSE
  /\ loop' = "waiting"
  /\ UNCHANGED <<vars, shutdownVars, embeddedRun, lock, exitCode>>

(* The error of the first start leaves the loop, by way of its finally.     *)
FirstStartFails ==
  /\ loop = "starting"
  /\ firstStart
  /\ lock' = FALSE
  /\ Exit(1)
  /\ UNCHANGED <<vars, shutdownVars, embeddedRun, firstStart, server, listening>>

LaterStartFails ==
  /\ loop = "starting"
  /\ ~firstStart
  /\ server' = FALSE
  /\ loop' = IF lock THEN "unlocking" ELSE "waiting"
  /\ UNCHANGED <<vars, shutdownVars, embeddedRun, firstStart, listening, lock, exitCode>>

UnlockAfterFailedStart ==
  /\ loop = "unlocking"
  /\ lock' = FALSE
  /\ loop' = "waiting"
  /\ UNCHANGED <<vars, shutdownVars, embeddedRun, firstStart, server, listening, exitCode>>

-----------------------------------------------------------------------------
(* The shutdown.                                                            *)

(* server?.close(), or straight to the finally when there is no server.     *)
CloseServer ==
  IF server
  THEN /\ phase' = "closing"
       /\ UNCHANGED hadLock
  ELSE /\ phase' = "releasing"
       /\ hadLock' = lock

RequestStop ==
  /\ Alive
  /\ ~shuttingDown
  /\ shuttingDown' = TRUE
  /\ action' = "stop"
  /\ CloseServer
  /\ UNCHANGED <<vars, processVars, embeddedRun, runsDrain>>

(* Bound: a restart is asked for while another lane generation is left. *)
RequestRestart ==
  /\ Alive
  /\ ~shuttingDown
  /\ \A l \in Lanes : generation[l] < MaxGeneration
  /\ shuttingDown' = TRUE
  /\ action' = "restart"
  /\ gatewayDraining' = TRUE
  /\ RegisterWaiter(Drain)
  /\ runsDrain' = IF ActiveRuns = {} THEN "drained" ELSE "waiting"
  /\ phase' = "draining"
  /\ UNCHANGED <<laneVars, entryVars, processVars, embeddedRun, hadLock>>

DrainTimesOut ==
  /\ Alive
  /\ WaiterTimeout(Drain)
  /\ UNCHANGED <<shutdownVars, processVars, embeddedRun>>

(* One round of the poll in waitForActiveEmbeddedRuns that ends it. *)
RunsPoll ==
  /\ Alive
  /\ runsDrain = "waiting"
  /\ runsDrain' \in (IF ActiveRuns = {} THEN {"drained"} ELSE {"timedOut"})
  /\ UNCHANGED <<vars, processVars, embeddedRun, shuttingDown, phase, action, hadLock>>

ProceedBeforeRuns ==
  /\ Alive
  /\ phase = "draining"
  /\ waiterState[Drain] # "waiting"
  /\ CloseServer
  /\ UNCHANGED <<vars, processVars, embeddedRun, shuttingDown, action, runsDrain>>

(* Both drains are over.  The abort of the runs that a timeout left over    *)
(* only hastens what EndRun allows anyway.                                  *)
Proceed ==
  /\ Alive
  /\ phase = "draining"
  /\ waiterState[Drain] # "waiting"
  /\ runsDrain # "waiting"
  /\ CloseServer
  /\ UNCHANGED <<vars, processVars, embeddedRun, shuttingDown, action, runsDrain>>

(* close() may reject half way, with the port still bound. *)
ServerClosed ==
  /\ Alive
  /\ phase = "closing"
  /\ phase' = "releasing"
  /\ hadLock' = lock
  /\ server' = FALSE
  /\ listening' \in BOOLEAN
  /\ UNCHANGED <<vars, embeddedRun, loop, firstStart, lock, exitCode,
                 shuttingDown, action, runsDrain>>

NeverForced == FALSE /\ UNCHANGED loopVars

(* The watchdog outlasts the drain by SHUTDOWN_TIMEOUT_MS and is cleared in *)
(* the finally, so it fires, if at all, while the server closes.            *)
ForceExit ==
  /\ Alive
  /\ phase = "closing"
  /\ Exit(1)
  /\ UNCHANGED <<vars, shutdownVars, embeddedRun, firstStart, server, listening, lock>>

(* After the lock is gone: exit, or respawn, or fall back to a restart in   *)
(* this process, with the lock taken anew if there was one.                 *)
LockKeptForRespawn ==
  /\ Alive
  /\ phase = "releasing"
  /\ IF action = "stop"
     THEN lock' = FALSE /\ phase' = "leaving"
     ELSE lock' = lock /\ \E next \in {"leaving", "reacquiring"} : phase' = next
  /\ UNCHANGED <<vars, embeddedRun, loop, firstStart, server, listening, exitCode,
                 shuttingDown, action, hadLock, runsDrain>>

LockReleased ==
  /\ Alive
  /\ phase = "releasing"
  /\ lock' = IF hadLock THEN FALSE ELSE lock
  /\ \/ /\ action = "stop"
        /\ phase' = "leaving"
     \/ /\ action = "restart"
        /\ \E mode \in RespawnModes :
             phase' = CASE mode \in {"spawned", "supervised"} -> "leaving"
                        [] mode \in {"disabled", "failed"} /\ hadLock -> "reacquiring"
                        [] mode \in {"disabled", "failed"} /\ ~hadLock -> "resuming"
  /\ UNCHANGED <<vars, embeddedRun, loop, firstStart, server, listening, exitCode,
                 shuttingDown, action, hadLock, runsDrain>>

Leave ==
  /\ Alive
  /\ phase = "leaving"
  /\ Exit(0)
  /\ UNCHANGED <<vars, shutdownVars, embeddedRun, firstStart, server, listening, lock>>

LockReacquired ==
  /\ Alive
  /\ phase = "reacquiring"
  /\ lock' = TRUE
  /\ phase' = "resuming"
  /\ UNCHANGED <<vars, embeddedRun, loop, firstStart, server, listening, exitCode,
                 shuttingDown, action, hadLock, runsDrain>>

LockNotReacquired ==
  /\ Alive
  /\ phase = "reacquiring"
  /\ Exit(1)
  /\ UNCHANGED <<vars, shutdownVars, embeddedRun, firstStart, server, listening, lock>>

(* restartResolver?.(): a waiting loop goes round, through the iteration    *)
(* hook and into the next start; any other loop takes no notice.            *)
ResumeWithoutReset ==
  /\ Alive
  /\ phase = "resuming"
  /\ shuttingDown' = FALSE
  /\ phase' = "none"
  /\ gatewayDraining' = FALSE
  /\ loop' = IF loop = "waiting" THEN "starting" ELSE loop
  /\ UNCHANGED <<laneVars, entryVars, waiterVars, embeddedRun, firstStart, server, listening,
                 lock, exitCode, action, hadLock, runsDrain>>

Resume ==
  /\ Alive
  /\ phase = "resuming"
  /\ shuttingDown' = FALSE
  /\ phase' = "none"
  /\ \/ /\ loop = "waiting"
        /\ loop' = "starting"
        /\ ResetAllLanes
     \/ /\ loop # "waiting"
        /\ UNCHANGED <<vars, loop>>
  /\ UNCHANGED <<embeddedRun, firstStart, server, listening, lock, exitCode,
                 action, hadLock, runsDrain>>

-----------------------------------------------------------------------------
(* The work going on underneath.                                            *)

EnqueueWork(e) ==
  /\ Alive
  /\ EnqueueCommandInLane(e)
  /\ UNCHANGED <<shutdownVars, processVars, embeddedRun>>

BeginRun(e) ==
  /\ Alive
  /\ e \in AgentTasks
  /\ status[e] = "running"
  /\ embeddedRun[e] = "none"
  /\ embeddedRun' = [embeddedRun EXCEPT ![e] = "active"]
  /\ UNCHANGED <<vars, shutdownVars, processVars>>

EndRun(e) ==
  /\ Alive
  /\ embeddedRun[e] = "active"
  /\ embeddedRun' = [embeddedRun EXCEPT ![e] = "ended"]
  /\ UNCHANGED <<vars, shutdownVars, processVars>>

FinishWork(e) ==
  /\ Alive
  /\ embeddedRun[e] # "active"
  /\ Settle(e)
  /\ UNCHANGED <<shutdownVars, processVars, embeddedRun>>

(* applyGatewayLaneConcurrency, at a start or a config reload. *)
ApplyLaneConcurrency(l, max) ==
  /\ Alive
  /\ SetCommandLaneConcurrency(l, max)
  /\ UNCHANGED <<shutdownVars, processVars, embeddedRun>>

Exited == ~Alive /\ UNCHANGED loopVars

Work(e) == EnqueueWork(e) \/ BeginRun(e) \/ EndRun(e) \/ FinishWork(e)

Loop == StartSucceeds \/ FirstStartFails \/ LaterStartFails \/ UnlockAfterFailedStart

Shutdown ==
  \/ DrainTimesOut \/ RunsPoll \/ Proceed \/ ServerClosed \/ ForceExit
  \/ LockReleased \/ Leave \/ LockReacquired \/ LockNotReacquired \/ Resume

LoopNext ==
  \/ Loop
  \/ RequestStop
  \/ RequestRestart
  \/ Shutdown
  \/ \E e \in Entries : Work(e)
  \/ \E l \in Lanes, max \in Limits : ApplyLaneConcurrency(l, max)
  \/ Exited

LoopSpec == LoopInit /\ [][LoopNext]_loopVars

(* Timers fire and the lock's file operations come back.  Nothing is asked  *)
(* of the server's close, of a start, or of a hung task.                    *)
ShutdownFairness ==
  /\ WF_loopVars(DrainTimesOut) /\ WF_loopVars(RunsPoll) /\ WF_loopVars(Proceed)
  /\ WF_loopVars(ForceExit) /\ WF_loopVars(LockReleased) /\ WF_loopVars(Leave)
  /\ WF_loopVars(LockReacquired \/ LockNotReacquired) /\ WF_loopVars(Resume)

WorkFairness ==
  \A e \in Entries \ Hung : WF_loopVars(EndRun(e)) /\ WF_loopVars(FinishWork(e))

FairLoopSpec == LoopSpec /\ ShutdownFairness /\ WorkFairness

-----------------------------------------------------------------------------
(* Properties.                                                              *)

LoopTypeOK ==
  /\ TypeOK
  /\ loop \in {"starting", "waiting", "unlocking", "exited"}
  /\ firstStart \in BOOLEAN
  /\ server \in BOOLEAN
  /\ listening \in BOOLEAN
  /\ lock \in BOOLEAN
  /\ shuttingDown \in BOOLEAN
  /\ phase \in {"none", "draining", "closing", "releasing", "leaving", "reacquiring", "resuming"}
  /\ action \in {"restart", "stop"}
  /\ hadLock \in BOOLEAN
  /\ exitCode \in {0, 1}
  /\ embeddedRun \in [Entries -> {"none", "active", "ended"}]
  /\ runsDrain \in {"waiting", "drained", "timedOut"}

(* A task that hangs does not outlive a restart as a blocked lane: work that *)
(* was queued behind it when a restart of a serving gateway began leaves the *)
(* queue, unless the process exits.                                          *)
QueuedWorkOutlivesHungTask ==
  \A e \in Entries :
    (/\ status[e] = "queued"
     /\ \A h \in Hung : status[h] # "queued"
     /\ phase = "draining" /\ loop = "waiting")
      ~> (status[e] # "queued" \/ loop = "exited")

(* A shutdown ends, in an exit or in a gateway that takes signals again,    *)
(* whatever the server's close and the tasks do: the drain is timed and the *)
(* watchdog covers the close.                                               *)
ShutdownResolves == shuttingDown ~> (~shuttingDown \/ loop = "exited")

(* A restart does not begin to close the server while a task or a run that  *)
(* the signal found is still at it, unless a drain timed out: the messages  *)
(* a turn has buffered get out first.                                       *)
TeardownAfterDrain ==
  [][(phase = "draining" /\ phase' # "draining") =>
       /\ \/ waiterState[Drain] = "timedOut"
          \/ \A e \in waiterIds[Drain] : status[e] # "running"
                                         \/ taskGeneration[e] < generation[laneOf[e]]
       /\ runsDrain # "waiting"
    ]_loopVars

(* A successor can take the gateway lock: a process that leaves by itself   *)
(* with code 0, be it stopped or replaced, has given the lock up, however   *)
(* its starts, failed starts and restarts interleaved with the signal.      *)
LockFreeForSuccessor == loop = "exited" /\ exitCode = 0 => ~lock
=============================================================================
