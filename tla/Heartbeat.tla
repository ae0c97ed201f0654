------------------------------ MODULE Heartbeat ------------------------------
(***************************************************************************)
(* Heartbeat wakes: the wake layer of src/infra/heartbeat-wake.ts, which    *)
(* coalesces requests per target and calls a handler with them, and the     *)
(* runners of src/infra/heartbeat-runner.ts, one for each life of the       *)
(* gateway in this process, whose run is that handler.                      *)
(*                                                                          *)
(* A timer has a kind and no due time: of two normal ones either may be the *)
(* sooner.  A batch is handled in any order.  A run of the runner is two    *)
(* steps, its call and its answer; what runHeartbeatOnce does in between is *)
(* left out, and so is which agents were due.                               *)
(***************************************************************************)
EXTENDS Naturals, FiniteSets

CONSTANTS
  Restarts,     \* bound: how often the gateway starts anew in this process
  Targets,      \* the targets with an agent or a session of their own
  Asked,        \* bound: the priorities those from outside ask with
  MaxRequests   \* bound: requests but for those of the interval timers

Runners == 1..(Restarts + 1)   \* in the order they are started
All == "::"            \* the target key of an untargeted wake
Keys == Targets \cup {All}
NoRunner == 0
NoKey == "none"

(* REASON_PRIORITY; nobody asks with RETRY's reason, so 0 is no wake. *)
None == 0
Interval == 1
Default == 2
Action == 3
Priorities == Interval..Action

ASSUME KeysAssumption == All \notin Targets /\ NoKey \notin Keys
ASSUME BoundsAssumption == Restarts \in Nat /\ MaxRequests \in Nat /\ Asked \subseteq {Default, Action}

(* Names for batches, given from the lowest: every registration allows one  *)
(* more beside those still running, and the last is for one too many.       *)
Batches == 1..(Restarts + 2)

VARIABLES
  pending,      \* pendingWakes: the priority by key
  timer,        \* timerKind, or "none"
  scheduled, running,
  handler,      \* the runner whose run is the handler
  registrations,\* the handlers registered so far
  batch,        \* the calls of the timer's callback that await the handler
  enabled,      \* heartbeatsEnabled
  runner,       \* of each runner: new, on or stopped
  agents,       \* whether its state.agents has any
  due,          \* whether its state.timer is set
  requests,     \* the requests made
  muted,        \* history: whether the registered runner answered while heartbeats were off, and not since
  owed          \* history: the highest priority asked for and not answered, by key

wakes == <<pending, timer, scheduled, running>>
registration == <<handler, registrations>>
runners == <<runner, agents, due>>
vars == <<wakes, registration, batch, enabled, runners, requests, muted, owed>>

NoWakes == [k \in Keys |-> None]
Idle == [by |-> NoRunner, left |-> {}, taken |-> NoWakes, at |-> NoKey]

Init ==
  /\ pending = NoWakes
  /\ timer = "none"
  /\ scheduled = FALSE
  /\ running = FALSE
  /\ handler = NoRunner
  /\ registrations = 0
  /\ batch = [b \in Batches |-> Idle]
  /\ enabled = TRUE
  /\ runner = [r \in Runners |-> "new"]
  /\ agents = [r \in Runners |-> FALSE]
  /\ due = [r \in Runners |-> FALSE]
  /\ requests = 0
  /\ muted = FALSE
  /\ owed = NoWakes

Larger(m, n) == IF m > n THEN m ELSE n

(* queuePendingWakeReason, of all wakes in asked: the higher priority stays. *)
QueueNewest(asked) == [k \in Keys |-> IF asked[k] # None THEN asked[k] ELSE pending[k]]
QueueSum(asked) == [k \in Keys |-> pending[k] + asked[k]]
Queue(asked) == [k \in Keys |-> Larger(pending[k], asked[k])]

One(k, p) == [NoWakes EXCEPT ![k] = p]

(* schedule: the timers that may be set afterwards. *)
Schedule(old, kind) == IF old = "none" THEN {kind} ELSE IF old = "retry" THEN {old} ELSE {old, kind}

Request(k, p) ==
  /\ pending' = Queue(One(k, p))
  /\ timer' \in Schedule(timer, "normal")
  /\ owed' = [owed EXCEPT ![k] = Larger(@, p)]

RequestHeartbeatNow(k, p) ==
  /\ requests < MaxRequests
  /\ requests' = requests + 1
  /\ Request(k, p)
  /\ UNCHANGED <<scheduled, running, registration, batch, enabled, runners, muted>>

-----------------------------------------------------------------------------
(* The timer of the wake layer.  Whoever sets it has queued a wake, and only *)
(* its firing takes wakes: there is a pending one whenever it is set.        *)

FireUnguarded ==
  \E b \in Batches :
    /\ timer # "none"
    /\ handler # NoRunner
    /\ batch[b] = Idle
    /\ \A c \in 1..(b - 1) : batch[c] # Idle
    /\ timer' = "none"
    /\ scheduled' = FALSE
    /\ running' = TRUE
    /\ pending' = NoWakes
    /\ batch' = [batch EXCEPT ![b] =
         [by |-> handler, left |-> {k \in Keys : pending[k] # None},
          taken |-> pending, at |-> NoKey]]
    /\ UNCHANGED <<registration, enabled, runners, requests, muted, owed>>

FireWithoutHandler ==
  /\ timer # "none"
  /\ handler = NoRunner
  /\ timer' = "none"
  /\ scheduled' = FALSE
  /\ UNCHANGED <<pending, running, registration, batch, enabled, runners, requests, muted, owed>>

(* A batch is being handled: the timer is set again. *)
FireWhileRunning ==
  /\ timer # "none"
  /\ handler # NoRunner
  /\ running
  /\ scheduled' = TRUE
  /\ UNCHANGED <<pending, timer, running, registration, batch, enabled, runners, requests, muted, owed>>

FireBatch == ~running /\ FireUnguarded

Fire == FireWithoutHandler \/ FireWhileRunning \/ FireBatch

-----------------------------------------------------------------------------
(* A batch.                                                                 *)

Unanswered(b) == batch[b].left \cup (IF batch[b].at = NoKey THEN {} ELSE {batch[b].at})

(* The call of the handler.  A stopped runner answers at once, and one      *)
(* whose heartbeats are off or has no agents, without setting its timer.    *)
AnswersDisabled(r) == runner[r] = "stopped" \/ ~enabled \/ ~agents[r]

(* The finally of the callback, which knows the last schedule of its body. *)
Finally(queued, set) ==
  /\ running' = FALSE
  /\ pending' = queued
  /\ IF queued # NoWakes \/ scheduled
     THEN timer' \in UNION {Schedule(t, "normal") : t \in set}
     ELSE timer' \in set
  /\ UNCHANGED scheduled

(* The handler has answered for key k; the loop goes on, or is done. *)
GoOn(b, k, queued, set) ==
  IF batch[b].left \ {k} = {}
  THEN /\ batch' = [batch EXCEPT ![b] = Idle]
       /\ Finally(queued, set)
  ELSE /\ batch' = [batch EXCEPT ![b].left = @ \ {k}, ![b].at = NoKey]
       /\ pending' = queued
       /\ timer' \in set
       /\ UNCHANGED <<scheduled, running>>

Settle(b, k) == owed' = [owed EXCEPT ![k] = IF @ <= batch[b].taken[k] THEN None ELSE @]

CallHandler(b, k) ==
  LET r == batch[b].by
  IN  /\ k \in batch[b].left
      /\ batch[b].at = NoKey
      /\ IF AnswersDisabled(r)
         THEN /\ GoOn(b, k, pending, {timer})
              /\ Settle(b, k)
              /\ muted' = (muted \/ (r = handler /\ agents[r]))
         ELSE /\ batch' = [batch EXCEPT ![b].left = @ \ {k}, ![b].at = k]
              /\ UNCHANGED <<wakes, owed, muted>>
      /\ UNCHANGED <<registration, enabled, runners, requests>>

(* scheduleNext of runner r. *)
ScheduleNext(r) ==
  IF runner[r] = "stopped"
  THEN UNCHANGED <<due, muted>>
  ELSE /\ due' = [due EXCEPT ![r] = agents[r]]
       /\ muted' = (muted /\ r # handler)

(* Ran, failed, or skipped for another reason than requests in flight. *)
HandlerAnswers(b) ==
  LET k == batch[b].at
  IN  /\ k # NoKey
      /\ ScheduleNext(batch[b].by)
      /\ GoOn(b, k, pending, {timer})
      /\ Settle(b, k)
      /\ UNCHANGED <<registration, enabled, runner, agents, requests>>

InFlightForgotten(b) ==
  LET k == batch[b].at
  IN  /\ k # NoKey
      /\ UNCHANGED <<due, muted>>
      /\ GoOn(b, k, pending, Schedule(timer, "retry"))
      /\ UNCHANGED <<registration, enabled, runner, agents, requests, owed>>

(* The main or the session lane is busy.  Untargeted, the runner leaves its *)
(* timer to the retry of the wake layer.                                    *)
RequestsInFlight(b) ==
  LET k == batch[b].at
  IN  /\ k # NoKey
      /\ IF k = All THEN UNCHANGED <<due, muted>> ELSE ScheduleNext(batch[b].by)
      /\ GoOn(b, k, Queue(One(k, batch[b].taken[k])), Schedule(timer, "retry"))
      /\ UNCHANGED <<registration, enabled, runner, agents, requests, owed>>

(* The whole batch is put back, what was answered of it too. *)
HandlerThrows(b) ==
  /\ batch[b].at # NoKey
  /\ ScheduleNext(batch[b].by)
  /\ batch' = [batch EXCEPT ![b] = Idle]
  /\ Finally(Queue(batch[b].taken), Schedule(timer, "retry"))
  /\ UNCHANGED <<registration, enabled, runner, agents, requests, owed>>

-----------------------------------------------------------------------------
(* Runners.                                                                 *)

(* setHeartbeatWakeHandler, which forgets timer and flags of the previous   *)
(* life, and updateConfig.                                                  *)
RegisterOver(r) ==
  /\ handler' = r
  /\ registrations' = registrations + 1
  /\ UNCHANGED wakes

Register(r) ==
  /\ handler' = r
  /\ registrations' = registrations + 1
  /\ running' = FALSE
  /\ scheduled' = FALSE
  /\ timer' = IF pending # NoWakes THEN "normal" ELSE "none"
  /\ UNCHANGED pending

StartHeartbeatRunner(r) ==
  /\ runner[r] = "new"
  /\ \A s \in Runners : s < r => runner[s] # "new"
  /\ Register(r)
  /\ runner' = [runner EXCEPT ![r] = "on"]
  /\ \E some \in BOOLEAN :
       /\ agents' = [agents EXCEPT ![r] = some]
       /\ due' = [due EXCEPT ![r] = some]
  /\ muted' = FALSE
  /\ UNCHANGED <<batch, enabled, requests, owed>>

(* cleanup: the disposer of an older registration leaves the handler.  What  *)
(* a stopped runner has in its agents no longer matters.                    *)
Stop(r) ==
  /\ runner[r] = "on"
  /\ runner' = [runner EXCEPT ![r] = "stopped"]
  /\ agents' = [agents EXCEPT ![r] = FALSE]
  /\ due' = [due EXCEPT ![r] = FALSE]
  /\ handler' = IF handler = r THEN NoRunner ELSE handler
  /\ UNCHANGED <<wakes, registrations, batch, enabled, requests, muted, owed>>

UpdateConfig(r) ==
  /\ runner[r] = "on"
  /\ \E some \in BOOLEAN :
       /\ agents' = [agents EXCEPT ![r] = some]
       /\ due' = [due EXCEPT ![r] = some]
  /\ muted' = (muted /\ r # handler)
  /\ UNCHANGED <<wakes, registration, batch, enabled, runner, requests, owed>>

IntervalTimer(r) ==
  /\ due[r]
  /\ due' = [due EXCEPT ![r] = FALSE]
  /\ Request(All, Interval)
  /\ UNCHANGED <<scheduled, running, registration, batch, enabled, runner, agents, requests, muted>>

SetHeartbeatsEnabled ==
  /\ enabled' = ~enabled
  /\ UNCHANGED <<wakes, registration, batch, runners, requests, muted, owed>>

-----------------------------------------------------------------------------

BatchStep(b) ==
  \/ \E k \in Keys : CallHandler(b, k)
  \/ HandlerAnswers(b)
  \/ RequestsInFlight(b)
  \/ HandlerThrows(b)

Next ==
  \/ \E k \in Keys, p \in Asked : RequestHeartbeatNow(k, p)
  \/ Fire
  \/ \E b \in Batches : BatchStep(b)
  \/ \E r \in Runners :
       StartHeartbeatRunner(r) \/ Stop(r) \/ UpdateConfig(r) \/ IntervalTimer(r)
  \/ SetHeartbeatsEnabled

Spec == Init /\ [][Next]_vars

(* Timers fire and the handler answers, if only that it failed.  Nothing    *)
(* makes requests, starts or stops happen.                                  *)
FairSpec ==
  /\ Spec
  /\ WF_vars(Fire)
  /\ \A b \in Batches : WF_vars(BatchStep(b))

-----------------------------------------------------------------------------
(* Properties.                                                              *)

TypeOK ==
  /\ pending \in [Keys -> {None} \cup Priorities]
  /\ timer \in {"none", "normal", "retry"}
  /\ scheduled \in BOOLEAN
  /\ running \in BOOLEAN
  /\ handler \in Runners \cup {NoRunner}
  /\ registrations \in 0..Cardinality(Runners)
  /\ batch \in [Batches -> [by : Runners \cup {NoRunner}, left : SUBSET Keys,
                            taken : [Keys -> {None} \cup Priorities], at : Keys \cup {NoKey}]]
  /\ enabled \in BOOLEAN
  /\ runner \in [Runners -> {"new", "on", "stopped"}]
  /\ agents \in [Runners -> BOOLEAN]
  /\ due \in [Runners -> BOOLEAN]
  /\ requests \in 0..MaxRequests
  /\ muted \in BOOLEAN
  /\ owed \in [Keys -> {None} \cup Priorities]

(* A wake asked for and not answered is pending or in a batch, with no less *)
(* than the priority it was asked for: neither coalescing, a retry, a       *)
(* failure nor the registration of another handler loses or lowers it.      *)
WakeIsKept ==
  \A k \in Keys :
    \/ owed[k] <= pending[k]
    \/ \E b \in Batches : k \in Unanswered(b) /\ owed[k] <= batch[b].taken[k]

(* Batches run one at a time; a registration, which forgets the batches of  *)
(* the life before, lets one more run beside them, and no more than that.   *)
OverlapOnlyAfterRestart == Cardinality({b \in Batches : batch[b] # Idle}) <= Larger(registrations, 1)

LastStarted(r) == runner[r] # "new" /\ \A s \in Runners : s > r => runner[s] = "new"

WillRunAgain(r) ==
  \/ due[r]
  \/ pending[All] # None
  \/ \E b \in Batches :
       /\ batch[b].by = r
       /\ All \in Unanswered(b) \/ batch[b].at # NoKey

(* heartbeat-runner.ts:1554, "Always re-arm the timer": the runner started  *)
(* last is the handler, whatever older ones do when they stop, and has its  *)
(* interval timer set or a wake on the way whose answer will set it, unless *)
(* it answered one while heartbeats were off.                               *)
HeartbeatGoesOn ==
  \A r \in Runners :
    /\ LastStarted(r)
    /\ runner[r] = "on"
    /\ agents[r]
    => handler = r /\ (muted \/ WillRunAgain(r))

(* docs/cli/system.md:50: enabling heartbeats turns them back on.           *)
EnabledMeansOn ==
  \A r \in Runners :
    /\ LastStarted(r)
    /\ runner[r] = "on"
    /\ agents[r]
    /\ enabled
    => WillRunAgain(r)

(* A pending wake is taken to a handler, as long as one stays registered.   *)
WakesAreTaken == \A k \in Keys : (pending[k] # None) ~> (pending[k] = None \/ handler = NoRunner)
=============================================================================
