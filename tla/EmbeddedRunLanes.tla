-------------------------- MODULE EmbeddedRunLanes --------------------------
(***************************************************************************)
(* The lanes one agent run passes through, one inside the other:            *)
(* runEmbeddedPiAgent (src/agents/pi-embedded-runner/run.ts) enqueues a     *)
(* task in the lane of its session which enqueues the run proper in a       *)
(* global lane and waits for it; a manual cron run                          *)
(* (src/cron/service/ops.ts) does all that from a task of the cron lane.    *)
(*                                                                          *)
(* The entries of the command queue are the runs' tiers, <<run, i>>, from   *)
(* the outermost inwards.  The process neither restarts nor drains for one  *)
(* here: GatewayRunLoop is about that.                                      *)
(***************************************************************************)
EXTENDS CommandQueue

CONSTANTS
  Runs,          \* the agent runs
  SessionKey,    \* the session key of a run
  LaneArg,       \* the lane its caller asks for, "" for none
  ManualCron     \* the runs that enqueueRun starts for a cron job

(* resolveSessionLane *)
SessionLane(r) == <<"session", SessionKey[r]>>

AsAsked(lane) == IF lane = "" THEN "main" ELSE lane

(* A cron run holds a slot of the cron lane, so what is inside it has to go *)
(* elsewhere.                                                               *)
ResolveGlobalLane(lane) == IF lane = "cron" THEN "nested" ELSE AsAsked(lane)

Path(r) ==
  IF r \in ManualCron
  THEN <<<<"global", "cron">>, SessionLane(r), <<"global", ResolveGlobalLane(LaneArg[r])>>>>
  ELSE <<SessionLane(r), <<"global", ResolveGlobalLane(LaneArg[r])>>>>

Depth(r) == IF r \in ManualCron THEN 3 ELSE 2

Outermost(r) == <<r, 1>>
Innermost(r) == <<r, Depth(r)>>
Inner(e) == <<e[1], e[2] + 1>>
IsInnermost(e) == e = Innermost(e[1])

ASSUME EntriesAssumption == Entries = {<<r, i>> : r \in Runs, i \in 1..3} \ {<<r, 3>> : r \in Runs \ ManualCron}
ASSUME LanesAssumption == \A r \in Runs : \A i \in 1..Depth(r) : Path(r)[i] \in Lanes

LanesInit ==
  /\ laneOf = [e \in Entries |-> Path(e[1])[e[2]]]
  /\ Init

-----------------------------------------------------------------------------

(* The task of a session lane enqueues the run proper, or throws, within    *)
(* the very call that starts it; nothing else happens in between.           *)
AtSessionTier(e) == e[2] = Depth(e[1]) - 1

Entering(e) == status[e] = "running" /\ AtSessionTier(e) /\ status[Inner(e)] = "new"

Quiet == \A e \in Entries : ~Entering(e)

(* A run is asked for. *)
RunEmbeddedPiAgent(r) ==
  /\ Quiet
  /\ EnqueueCommandInLane(Outermost(r))

(* A running task enqueues what it is there for: the cron task some time    *)
(* after its start, the session task at once.                               *)
EnqueueInner(e) ==
  /\ ~IsInnermost(e)
  /\ status[e] = "running"
  /\ Quiet \/ Entering(e)
  /\ EnqueueCommandInLane(Inner(e))

(* throwIfAborted at the head of a session task, and a cron run that has    *)
(* nothing to do any more.                                                  *)
GiveUp(e) ==
  /\ ~IsInnermost(e)
  /\ status[Inner(e)] = "new"
  /\ Quiet \/ Entering(e)
  /\ Settle(e)

(* A task that waits for an inner one settles after it. *)
InnerIsQueued(e) == status[Inner(e)] # "new"

InnerIsOver(e) == status[Inner(e)] \in Settled

SettleOuter(e) ==
  /\ Quiet
  /\ ~IsInnermost(e)
  /\ InnerIsOver(e)
  /\ Settle(e)

(* The cron job's timeout ends the cron task whatever its run is at. *)
CronTimeout(e) ==
  /\ Quiet
  /\ e[1] \in ManualCron /\ e[2] = 1
  /\ status[Inner(e)] \in Pending
  /\ Settle(e)

RunEnds(e) ==
  /\ Quiet
  /\ IsInnermost(e)
  /\ Settle(e)

(* clearSessionQueues, when a session is aborted or reset. *)
ClearSessionLane(l) ==
  /\ Quiet
  /\ l[1] = "session"
  /\ queue[l] # <<>>
  /\ ClearCommandLane(l)

(* applyGatewayLaneConcurrency, at the start and when the config changes. *)
ApplyGatewayLaneConcurrency(l, max) ==
  /\ Quiet
  /\ l \in {"global"} \X {"cron", "main", "subagent"}
  /\ SetCommandLaneConcurrency(l, max)

BeginDraining ==
  /\ Quiet
  /\ ~gatewayDraining
  /\ MarkGatewayDraining

TaskStep(e) == EnqueueInner(e) \/ GiveUp(e) \/ SettleOuter(e) \/ RunEnds(e)

LanesNext ==
  \/ \E r \in Runs : RunEmbeddedPiAgent(r)
  \/ \E e \in Entries : TaskStep(e) \/ CronTimeout(e)
  \/ \E l \in Lanes : ClearSessionLane(l)
  \/ \E l \in Lanes, max \in Limits : ApplyGatewayLaneConcurrency(l, max)
  \/ BeginDraining

LanesSpec == LanesInit /\ [][LanesNext]_vars

(* A task goes on and a run ends; a cron job need not have a timeout. *)
FairLanesSpec == LanesSpec /\ \A e \in Entries : WF_vars(TaskStep(e))

-----------------------------------------------------------------------------
(* Properties.                                                              *)

(* docs/concepts/queue.md:83, across the two queues and cron timeouts: only *)
(* one agent run touches a session at a time, whatever lanes its runs were  *)
(* asked for in and however far the global limits are raised.               *)
OneRunPerSession ==
  \A q, r \in Runs :
    /\ SessionKey[q] = SessionKey[r]
    /\ status[Innermost(q)] = "running"
    /\ status[Innermost(r)] = "running"
    => q = r

(* Waiting inside a lane for a place in another never ends in a circle: a   *)
(* run that was accepted settles, if the runs proper do, with no timeout to *)
(* help.                                                                    *)
AcceptedRunSettles ==
  \A r \in Runs : (status[Outermost(r)] \in Pending) ~> (status[Outermost(r)] \in Settled)
=============================================================================
