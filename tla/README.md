# SkillSet gateway: TLA+ models, checks and proofs

SkillSet (`src/skillset-main`) is a self-hosted assistant: one long-lived Node.js
process, the *gateway*, connects messaging channels, runs agents, delivers their
replies, and is restarted, reconfigured and drained while it does so.  Almost all
that is hard in it is ordering: everything runs on one event loop, so a handler is
atomic up to its next `await`, and what goes wrong goes wrong between two of them.
The models take exactly that grain: one action is what runs from one `await` (or
timer, or signal) to the next.

Paths below are relative to `src/skillset-main/src` unless they begin with `docs/`.

## The system

| Component | State it keeps | Operations | Interacts with | What makes it correct |
|---|---|---|---|---|
| Command queue, `process/command-queue.ts` | lanes (FIFO, active task ids, limit, generation), drain flag, drain waiters | enqueue, clear a lane, set a limit, reset all lanes, wait for active tasks, settle | everything that runs an agent enqueues here; the run loop drains and resets it | nothing accepted is lost, reordered or stranded; limits hold; stale completions count for nothing; waiters wake |
| Run loop, `cli/gateway-cli/run-loop.ts` | server handle, lock, `shuttingDown`, restart promise | start, SIGTERM/SIGINT/SIGUSR1, drain, close, respawn, in-process restart | command queue, embedded runs, gateway lock, server | a shutdown ends; the lock is free for a successor; work survives a restart; refusals end with the drain |
| Restart scheduler, `infra/restart.ts` | pending timer, emit/authorize tokens, deferral poll | schedule, coalesce, defer while busy, emit, consume | config reload, the SIGUSR1 handler | one signal per request, none lost, none unauthorized |
| Gateway lock, `infra/gateway-lock.ts` | a lock file per configuration, its payload | acquire with stale recovery, release | other gateway processes | at most one holder |
| Embedded run lanes, `agents/pi-embedded-runner/run.ts`, `lanes.ts`; `agents/lanes.ts` | none of its own: nested entries of the command queue | enqueue a session-lane task that enqueues a global-lane task, from inside a cron task too | command queue, cron | no run waits for itself; every run settles |
| Embedded run registry, `agents/pi-embedded-runner/runs.ts`, reply runs, `auto-reply/reply/reply-run-registry.ts` | active run per session, waiters, operations with phases | begin, attach backend, abort, complete, wait for end | run loop drain, followup queue, abort commands | one reply run per session; waiters wake; a finished run never clears its successor |
| Followup queue, `auto-reply/reply/queue/*.ts` | per key: items, drop counters and summary, draining flag, last run | enqueue with dedupe and drop policy, kick, drain (collect, summary, single), clear | reply runs, routing of replies | each accepted message is run or accounted for in a summary; one drain per key; drains end |
| Inbound debounce, `auto-reply/inbound-debounce.ts` | per key buffer, timer, chain of flushes, reserved slots | push, flush on timer, flush on a non-debounced message | channel monitors | order per key, no message lost when a flush fails |
| Outbound delivery queue, `infra/outbound/delivery-queue-storage.ts`, `delivery-queue-recovery.ts`, `deliver.ts` | one file per delivery, `.delivered` markers, `failed/` | write ahead, send, ack in two phases, fail, recover with backoff | channel adapters, gateway start | nothing written ahead is lost over a crash; retries are bounded; in-process and recovery do not both send |
| Heartbeat wake, `infra/heartbeat-wake.ts`, `heartbeat-runner.ts` | pending wakes by target, timer and its kind, running flag, handler; per runner its agents and interval timer | request, schedule, fire, retry, replace the handler; run, re-arm, update, stop | cron, exec events, the command queue (requests in flight) | no wake is lost or lowered; batches overlap only over a restart; the heartbeat goes on |
| Exec approvals, `gateway/exec-approval-manager.ts`, `server-methods/approval-shared.ts`, `node-invoke-system-run-approval.ts` | pending records, timers, decisions, grace period | register, await, resolve, expire, consume once | approval clients, exec tools, node invocations | a decision is final; allow-once is spent once; every request ends |
| Cron, `cron/service/*.ts` | jobs and their run state on disk, a lock per store, timer | add, update, remove, run, timer tick, catch-up at start | command queue, heartbeat, isolated agents | a job runs once per slot, not twice at once; a missed slot is caught up |
| Task registry, `tasks/*.ts` | task and flow records in SQLite, delivery state | create, progress, finish, cancel, maintain, notify | subagents, cron, ACP | terminal states are final; each notification goes out once |
| Subagent registry, `agents/subagent-registry*.ts` | runs, cleanup and announce state, persisted | register, steer, complete, announce with retries, sweep | task registry, gateway calls | each completed run is announced once and cleaned up |
| Session write lock, `agents/session-write-lock.ts` | lock files, held counts, watchdog | acquire re-entrantly, release, force release, reclaim | embedded runs | one writer; a reclaimed lock is really stale |
| Config reload, `gateway/config-reload.ts` | last good config, in-flight flag, debounce timer | file change, plan, hot apply, restart | restart scheduler, channels | the last change wins; a bad file is not applied |
| Channel lifecycle, `gateway/server-channels.ts` | running tasks, abort controllers, restart backoff | start, stop, restart on crash | channel plugins | one run per account; a stop is not undone by a backoff |
| Node registry and node invocations, `gateway/node-registry.ts` | connected nodes, pending invocations | register, unregister, invoke, answer, time out | nodes over WebSocket | each invocation is answered once; a reconnect does not unregister its successor |
| Process supervisor, `process/supervisor` | run records, adapters, timers | spawn, cancel by scope, time out, exit | exec tool, CLI backends | one terminal reason per run |
| Pairing, auth profiles, secrets, routing, sessions, plugins, media, CLI commands, TUI, wizard | configuration and stores | look-ups, edits, formatting | operators | mostly sequential edits and pure look-ups |
| `extensions/`, `apps/`, `ui/`, `packages/`, `skillset-frontend/`, `Swabble/`, `qa/` | per channel or client | adapters, clients, test rigs | the gateway's plugin SDK and protocol | outside the core |

### Hard behaviours

* **Interleaving at awaits.**  A signal lands while `params.start` is in flight; a message
  is enqueued while a drain is awaiting its run; a second recovery pass meets a live send.
* **Restarts in place.**  The process can restart without dying: tasks of the previous
  lifecycle go on executing and complete into state that was reset.
* **Crashes.**  Deliveries, cron jobs, tasks and subagent runs are persisted and recovered.
* **Timers against answers.**  Drain timeouts, watchdogs, approval expiry, wake retries.
* **Limits.**  Lane concurrency, queue caps with drop policies, retry budgets.

## The modules

| Module | Models | Composes |
|---|---|---|
| `CommandQueue` | `process/command-queue.ts` | |
| `CommandQueueProofs` | theorems about `CommandQueue` | `CommandQueue` |
| `GatewayRunLoop` | `cli/gateway-cli/run-loop.ts`, the drain of `agents/pi-embedded-runner/runs.ts` | `CommandQueue` |
| `GatewayRunLoopProofs` | theorems about `GatewayRunLoop` | `GatewayRunLoop`, `CommandQueueProofs` |
| `EmbeddedRunLanes` | the nesting of lanes in `agents/pi-embedded-runner/run.ts` and `cron/service/ops.ts` | `CommandQueue` |
| `EmbeddedRunLanesProofs` | theorems about `EmbeddedRunLanes` | `EmbeddedRunLanes`, `CommandQueueProofs` |
| `FollowupQueue` | `auto-reply/reply/queue/*.ts`, `utils/queue-helpers.ts` | |
| `FollowupQueueProofs` | theorems about `FollowupQueue` | `FollowupQueue` |
| `DeliveryQueue` | `infra/outbound/deliver.ts`, `delivery-queue-storage.ts`, `delivery-queue-recovery.ts` | |
| `Delivery` | what the outbound queue promises its callers | |
| `DeliveryQueueProofs` | theorems about `DeliveryQueue`, that it implements `Delivery` among them | `DeliveryQueue`, `Delivery` |
| `Heartbeat` | `infra/heartbeat-wake.ts`, the runner of `infra/heartbeat-runner.ts` | |
| `HeartbeatProofs` | theorems about `Heartbeat` | `Heartbeat` |
| `Cron` | `cron/service/ops.ts`, `timer.ts`, `jobs.ts`, `store.ts`, `locked.ts` | |
| `CronProofs` | theorems about `Cron` | `Cron` |
| `ExecApprovals` | `gateway/exec-approval-manager.ts`, `server-methods/approval-shared.ts` and `exec-approval.ts`, the gate `node-invoke-system-run-approval.ts`, the requester in `agents/bash-tools.exec-host-node.ts` | |
| `ExecApprovalsProofs` | theorems about `ExecApprovals` | `ExecApprovals` |
| `MC*` | the instances the runs check | one module each |

A few operators of each module are not used by it: they stand right before a
definition and are that definition with a plausible bug in it (`SettleWithoutPump`
before `SettleCurrent`, `UnclampedLimit` before `LaneLimit`).  Put in its place, each
makes some property fail; they show that the properties look at the code.

### CommandQueue

An entry is one call of `enqueueCommandInLane`: its task, its promise and, since it
starts at most once, its task id.  `status` is what its caller will be told.  `queue`,
`activeTaskIds`, `maxConcurrent` and `generation` are the fields of `LaneState`;
`LaneState.draining` is set and reset within one synchronous call and has no variable.
Every exported operation is an action, and every action ends with the pump
(`drainLane`) and the notification of waiters where the function ends with them, because
none of them awaits.  `Settle` is the continuation of a task's promise, with its
generation check; `WaiterTimeout` is the timer of `waitForActiveTasks`.

### GatewayRunLoop

Two coroutines share the process: the main loop (`loop`), which starts a server and then
waits for the restart promise, and the shutdown a signal begins (`phase`).  An action is
a segment between two awaits of either; the tasks of the command queue and the embedded
runs inside them go on underneath.  `Resume` is `restartResolver?.()`: it takes the loop
round, and through `resetAllLanes`, only if the loop is waiting for that promise.  The
signal itself is an input; how `infra/restart.ts` schedules it is the next module in the
plan.  Whether the port is still bound after a close that rejected is left open.

### EmbeddedRunLanes

The entries of the command queue are the tiers of a run: a cron task (manual cron runs
only), a task in the lane of its session, the run proper in a global lane.  A tier waits
for the one inside it.  The task of a session lane enqueues the inner tier within the
very call that starts it; `Quiet` keeps everything else out of that moment.  The cron
lane's `resolveGlobalLane` rule (cron work goes on in `nested`) is what the liveness
property is about: without it the runs wait for each other.

### FollowupQueue

One session key.  A queue is an object because the code treats it as one: a drain keeps the
reference it began with, while the registry may forget it and create another.  A drain
awaits the debounce, the run of a turn, and what `drainCollectQueueStep` and
`drainNextQueueItem` answer; each of these awaits is a state of the drain, and what follows
it an action (`DebounceOver`, `TurnSucceeds` and `TurnFails`, and for the answers
`CollectBatch`, `CollectSummary`, `ItemDrained` and `NothingDrained`).  The await of an
answer lasts no longer than a turn of the loop, but a message may come in it: those that
come between the comparison of the targets and the forming of the batch are remembered in
`late`.  `turn.pops` is how many items the code will take off the front after the await,
whatever is at the front by then. `Enqueue` fetches or creates the object, applies the
settings, looks for a duplicate, makes room by policy, and schedules the drain itself if the
run it had found active is not active any more.

### DeliveryQueue

Workers are the live calls of `deliverOutboundPayloads`, the startup recovery and the
reconnect drains.  Every file operation and every send is an action of its own, each may
fail, and the process may die between any two.  The state on disk (`pending`,
`retryCount`, `failed`) survives a crash, the rest (`worker`, `todo`, `claims`, `deferral`)
does not.  A worker is its `step`, the `entry` it is at and the `retryCount` it has `read`
there; what a pass has still to look at (`todo`) is a set, of which it takes the oldest.
The budget deferral of the recovery is kept as the code has it: one
`failDelivery` per remaining entry, all at once, without a claim, each a read and a later
write.  A delivery is taken by the channel as a whole or not at all; how payloads are split is
left out.  A sending that fails, by an exception or unnoticed, may still have reached the
channel: what is thrown after it, by a required pin or the mirror in the transcript, is a
failure to `failDelivery` like any other (`SendFails`).  `settled` remembers what was sent with
success, until the ack of it fails or is cut off by a crash, or a deferral writes the entry
back.  The `.delivered` markers have no variable: whoever finds one only unlinks it.  One timing
assumption is made, in `SendEnds`: a channel does not answer a recovery pass within the
moment between the rename that wrote an entry and the next turn of the live call that
asked for it.

### Delivery

The abstract channel: a delivery is accepted, kept, sent, and closed only once it was
sent, aborted or a best effort; one that was closed may be kept again and sent again.
`DeliveryQueue!Abstract` reads `accepted` off the entries ever written ahead and `kept` off
the files in the queue and in `failed/`, so claims, passes, retries, deferrals and crashes
all have to be stutters or one of these five steps.

### Heartbeat

Two layers.  The wake layer keeps per target key the highest priority asked for, one timer
of a kind (a retry is not pre-empted by a normal one), and calls the handler with one wake
after the other; a batch is what one call of the timer's callback is working through, and it
awaits the handler, so a batch has an answer for each key still to come (`left`, `at`).
There are names for one batch more than the code can have at a time.  The runners are the
lives of the gateway in one process: the handler is the `run` of the one that registered
last, and each has its own interval timer (`due`).  An action is the code between two
awaits: `Fire*` the timer's callback, `CallHandler` the next call of the handler,
`HandlerAnswers`, `RequestsInFlight` and `HandlerThrows` what comes of it, with the
`finally` (`Finally`) after the last.  `enabled` is the module flag that `set-heartbeats`
sets.

### Cron

One service over one file, started again after each crash.  `locked()` serializes the
sections of the operations, so a section is an action on `mem` and `disk`; what lies
between sections (`TickExecutes`, `TickExecuted`, `FinishManualRun` after
`PrepareManualRun`) is where runs overlap with edits.  A job's next run is `future`, `due`,
`soon` (put off by a retry after an error or a deferral of the catch-up) or `none`.  `marked` is
`runningAtMs`, `over` whether a one-shot has a final state.  `owed` is the history the
properties are about: a slot that came due and has not had a finished run.

### ExecApprovals

A request makes one registration, which has its name, so that registrations under one id
can be told apart as the code tells entries apart.  `pending` is the map; `resolved`,
`decision`, `resolvedBy` the record; `promise` what waiters are told, which stays when
`consumeAllowOnce` clears the record's decision.  `Settle` is the common end of `resolve` and
`expire`, with the timer that takes the place of the expiry timer.  The requester is that
of a command for a node host: request, the accepted answer, `waitDecision`, and the one
`node.invoke` it makes if it is willing (`Call`).  `NoRoute` and `WaitDecision` go by the id after
an await and so may meet another registration, or none.  The gate is there against everybody
else: `OtherCall` is `node.invoke` by any client, with any id, for anything, with or without the
claim of a fallback that only a client with the approvals scope may make (`vouches`).  The gate
(`Passes`, `Grants`) decides by the record it finds.

## The runs

| Run | Config | Result | Shows |
|---|---|---|---|
| `command_queue` | `CommandQueue.cfg` | holds | accepted entries wait exactly once in their lane (`QueuesHoldTheQueued`); active sets are the running tasks of the current generation (`ActiveAreCurrent`); no free slot beside queued work (`WorkConserving`); waiters are woken, and only when their tasks are over (`NoMissedWakeup`, `DrainedIsTrue`); starts keep order and limits (`StartsInOrderAndWithinLimit`); everything accepted settles (`AcceptedIsSettled`) |
| `run_loop` | `GatewayRunLoop.cfg` | holds | a process that leaves with code 0 has no lock (`LockFreeForSuccessor`); teardown waits for the drain (`TeardownAfterDrain`); every shutdown ends (`ShutdownResolves`); queued work outlives a hung task over an in-process restart (`QueuedWorkOutlivesHungTask`) |
| `embedded_run_lanes` | `EmbeddedRunLanes.cfg` | holds | one run at a time touches a session (`OneRunPerSession`); no circle of waiting between lanes (`AcceptedRunSettles`) |
| `followup_queue` | `FollowupQueue.cfg` | holds | without overflow and clear no message is lost (`AcceptedIsKept`) and all are run (`AcceptedIsRun`); always, a message is run at most once (`RunsAtMostOnce`), in order (`RunsInOrder`); a turn answers one authorization, and one target but for messages that came in the one await between the comparison and the batch (`OnlyLateArrivalsMix`; finding 2) |
| `followup_lost_in_flight` | `FollowupLost.cfg` | violated | finding 1 |
| `delivery_queue` | `DeliveryQueue.cfg` | holds | a delivery without `bestEffort` is sent, aborted or on disk (`ThrowingIsKept`); one sender at a time (`OneSender`); what was sent with success is sent again only if its ack failed or a deferral wrote it back (`SettledIsNotResent`); claims are given up (`ClaimsAreReleased`); it is the channel of `Delivery` (`ImplementsDelivery`) |
| `delivery_unnoticed_failure` | `DeliveryUnnoticed.cfg` | violated | finding 3 |
| `heartbeat` | `Heartbeat.cfg` | holds | no wake is lost or lowered by coalescing, failures, retries or another handler (`WakeIsKept`), and pending ones are taken (`WakesAreTaken`); batches overlap only after a restart (`OverlapOnlyAfterRestart`); the last runner stays the handler and has a timer or a wake on the way (`HeartbeatGoesOn`) |
| `heartbeat_stays_off` | `HeartbeatOff.cfg` | violated | finding 4 |
| `cron` | `Cron.cfg` | holds | a job runs once at a time (`OneRunPerJob`); a due slot stays due until a run of it finished (`SlotsAreKept`) and is taken up once (`SlotRunsOnce`); due jobs get their run (`DueJobsRun`); limits of concurrent and missed runs hold (`TypeOK`) |
| `cron_oneshot_retried` | `CronRetried.cfg` | violated | finding 5 |
| `exec_approvals` | `ExecApprovals.cfg` | holds | each registration has the one timer that settles or removes it (`TypeOK`); whoever calls, the gate forwards what was decided, an allow-once once, and undecided requests only past their timer for a client that vouches (`ForwardedAsDecided`; finding 6); requests end and ids become free (`RequestsEnd`) |

### Bounds

* `CommandQueue.cfg`: three entries on two lanes, one waiter, one restart, limits 0 (raised
  to 1) and 3.  Three entries are the fewest with one running and two queued, so that
  order, a pump that starts two at once, and a clear all show; one restart makes a
  completion stale.
* `GatewayRunLoop.cfg`: three tasks in one lane, one of them an agent run that may hang, one
  restart that goes round the loop (`MaxGeneration`); restarts that the loop takes no
  notice of are not counted.  `RespawnModes` has one answer that leaves and one that stays:
  the other two take the same branches.
* `EmbeddedRunLanes.cfg`: two manual cron runs and a chat run, two sessions.  The chat run
  shares a session with one cron run, so that each kind of lane is contended.  A limit of
  2 may be set at any time; before it is, every lane has 1.  There is no restart.
* `FollowupQueue.cfg`: three messages, two targets and two authorizations, caps 2 and 3 (a
  cap of 0 leaves the default), collect with summaries and followup with refusal, one
  clear.  Two messages fill the queue and the third overflows it; the third has another target,
  so it is the one that can join a batch late.  The violation run needs a cap of 1 only.
  `FollowupMixed.cfg` is the instance of the run with the property that finding 2 refutes.
  The policy `old` is in the module and in no run: it differs from `summarize` only in keeping
  no summary.
* `DeliveryQueue.cfg`: two deliveries, one of each kind, one drain key, two retries, one
  crash.  One delivery is enough for every race about an entry; the second gives a pass
  something to go on to, and the deferral an entry it does not hold.
* `Heartbeat.cfg`: two lives of the gateway, the untargeted key and one target, one request
  from outside beside the interval timers.  Two runners are what a registration needs to
  leave a batch running, and then two batches may run; a third name shows one too many, before
  a restart or after it.  The target is what a batch needs to have two answers to wait for.
* `Cron.cfg`: a recurring job and a one-shot, one caller of `run`, one worker, one missed job
  per restart, one crash, two edits.  With one worker and one missed job, the second due
  job has to queue or be deferred.  `CronRetried.cfg` needs less.
* `ExecApprovals.cfg`: two requests for one id and the same command, both with `askFallback`
  `full`; strict inline eval holds the second back.  Two calls by others, for this command or
  another, vouching or not: one may come before the requester's and one after it, and the
  second must find the allow-once spent.  The theorems cover any number of requests, ids and
  commands.  `ExecFallback.cfg` leaves the others out; it has the property that finding 6
  refutes.

### Fairness

* `CommandQueue`: every task that starts ends.  Agent runs carry a timeout.
* `GatewayRunLoop`: timers fire and operations on the lock file come back.  Nothing is asked
  of a start, of the close of the server, or of a hung task, and that is the point of
  `ShutdownResolves`: the drain is timed and the watchdog covers the close.
* `EmbeddedRunLanes`: running tasks go on, and runs proper end.  The timeouts of cron jobs
  are not fair: not every job has one, and the lanes have to work without.
* `FollowupQueue`: the turn that keeps the agent busy ends and finalizes, debounces end, and
  a followup turn that is retried for ever succeeds at last (strong fairness: between two
  tries the turn is not enabled).
* `DeliveryQueue`: file operations and sends end, in success or failure.  Nothing makes a
  call, a pass or a deferral begin or go on.
* `Heartbeat`: timers fire and handlers answer (`runHeartbeatOnce` is bounded by the timeout of
  the agent run).  Nobody has to request, start or stop anything.
* `Cron`: a start and a tick go on, jobs end (`runWithTimeout`), manual runs that were
  accepted go on.  Clients, the clock and the operator owe nothing.
* `ExecApprovals`: time passes and timers fire, deliveries end, a requester goes on to its
  call.  Other clients need not call, and approvers may stay silent for ever.

Deadlock is checked in every run except those whose system may have nothing left to do:
`embedded_run_lanes` and `exec_approvals`, where all runs and requests may be over, and the
two of cron, where all jobs may be removed or finished.

## Findings

1. **A message lost to an overflow** (`followup_lost_in_flight`).  The drain removes as many
   items from the front as it ran, after the await; an overflow meanwhile has removed
   them already, so others go.
2. **Targets mixed in one turn** (`followup_queue`).  Between the comparison of the targets and
   the forming of a batch the drain awaits an answer it has already; a message of another
   target that comes then joins the batch and is answered on the route of the first, while
   `docs/concepts/queue.md:31` promises that such messages drain individually.  The run shows
   what remains (`OnlyLateArrivalsMix`); `FollowupMixed.cfg` has the trace, of five steps.
3. **A failed delivery acked** (`delivery_unnoticed_failure`).  A recovery pass replays a
   `bestEffort` entry without an `onError`; without one, a failure is not noticed and the
   entry is acked.
4. **Heartbeats that stay off** (`heartbeat_stays_off`).  A wake answered "disabled" leaves the
   runner before the code that re-arms its interval timer; enabling heartbeats sets a flag
   and no timer, while `docs/cli/system.md:50` has it turn them back on.
5. **An interrupted one-shot run again** (`cron_oneshot_retried`).  Start keeps it out of the
   catch-up, as `cron/service/ops.ts:106` says, and leaves it enabled and past due, so the
   first tick runs it.
6. **`askFallback` `full` that does not allow** (`exec_approvals`).
   `docs/tools/exec-approvals.md:211-215` lets the fallback decide when no approver can be
   reached.  The requester of a command for a node host goes on then, but the gate refuses it:
   a record resolved by "no-approval-route" does not count as timed out, and after the expiry
   timer the record is past its `expiresAtMs` and the requester's client lacks the approvals
   scope.  The run shows what the gate lets through instead (`ForwardedAsDecided`);
   `ExecFallback.cfg` has the trace, of three steps.

`PROJECT.json` quotes the lines.  Findings 1, 3, 4 and 5 have a run of their own that ends in a
violation; 2 and 6 are the exceptions that a property of a passing run states, and their two
configurations are kept beside the runs (`tlc -config FollowupMixed.cfg MCFollowupQueue.tla`,
`tlc -config ExecFallback.cfg MCExecApprovals.tla`).

### Known limits

What the models have and the properties except, or leave unsaid, because the code does not
provide it.  No run is spent on these.

1. *Run loop.*  A restart signal handled while `params.start` is in flight calls
   `markGatewayDraining`; with no restart promise to resolve, the flag is not reset, the
   start completes, and the gateway refuses every enqueue, also after the "drain window"
   of `cli/gateway-cli/run-loop.ts:169`.
2. *Command queue.*  `resetAllLanes` forgets tasks that still execute after a drain timeout
   and starts the next of the lane beside them; `docs/concepts/queue.md:83` promises one run
   at a time in a session's lane.
3. *Followup queue.*  The summary state is cleared after the run that reported it, with what
   was dropped during the run.
4. *Delivery queue.*  A budget deferral may write an entry back that another pass acked
   between its read and its write; the message is sent again then, as it is after a failed ack
   and after what is thrown once the channel took it (`settled`).
5. *Cron.*  Disabling a job, and maintenance during the forced run of a disabled one, clears
   the marker under the run (`cleared`); an addition, and the last section of a start,
   recompute all jobs and move on slots that came due meanwhile (`advanced`), the latter
   against `cron/service/timer.ts:1114`.  Not in the model: `stop` during a tick, whose
   `finally` arms the timer again, so that after a hot reload the old service may go on
   beside the new one.
6. *Exec approvals.*  `NoRoute` answers null even when the request was decided during the
   delivery, and expires by id whatever registration the id has by then.

## Proofs

Every invariant that the passing runs check is proved too, for every value of the
constants that the assumptions allow, and so are the action properties of the command
queue, the run loop and cron, and that `DeliveryQueue` implements `Delivery`.  The assumptions
are those of the modules: limits and bounds are natural numbers, jobs and entries finitely
many, ids of different kinds different; TLC evaluates them in the runs.  Nothing is assumed of the
order or number of steps, so the bounds of the configurations (entries, messages, crashes,
restarts, clears, edits) are any numbers here.

None of the properties is inductive alone.  Each `*Proofs` module has an inductive invariant
(`IInv`; `GInv`, `LInv` and `HInv` in three of them), the theorem that it always holds
(`Invariance`), and one lemma per action beneath it.  TLC found these invariants to hold on
the instances of the runs before they were proved.

### `CommandQueueProofs`

`TypeOK` (`TypeCorrect`), `QueuesHoldTheQueued` (`NothingLost`), `ActiveAreCurrent`
(`StaleCompletionsAreIgnored`), `WorkConserving` (`NoIdleSlot`), `NoMissedWakeup`
(`WaitersAreServed`), `DrainedIsTrue` (`DrainedIsNeverPremature`) and the action property
`StartsInOrderAndWithinLimit` (`FirstComeFirstServed`).

That queues hold exactly the queued entries and active sets exactly the current running ones
is needed for the slots, for the pump decides by their sizes.  Waiters need two facts the
runs do not state: a task that runs has a generation its lane has reached (`NoFutureTask`;
otherwise a restart could make a stale task current again), and what a waiter's snapshot
holds has started (`SnapshotsHaveStarted`; otherwise an entry could start after its waiter
was told that all is over).

Every operation but the flag, the timeout and the clear goes through the pump, so the
argument has one main lemma, `PumpLemma`: from queues, active sets, generations and
statuses that agree, the pump yields some that agree again, starts only what was queued and
nothing before what is ahead of it, and leaves no free slot beside queued work in the lanes
it ran on.  It rests on the arithmetic of the loop (`StartableBounds`) and on what shifting a
prefix off a sequence without duplicates does (`ShiftSplits`, `PrefixCardinality`).

### `GatewayRunLoopProofs`

`LoopTypeOK` (`LoopTypeCorrect`), `LockFreeForSuccessor` (`LockIsGivenUp`) and the action property
`TeardownAfterDrain` (`DrainedBeforeTeardown`).

A step of the process is a step of the command queue, or leaves the queue alone, or is the
signal, which raises the flag and registers the drain's waiter at once.  So the queue's
`IInv` holds of the composed system, whose steps interleave with those of the loop
(`LoopInvariance`).  The lock is followed from the question whether it is held
(`hadLock`) over the release to the exit, between which only the shutdown itself takes it
(`LockFollowed`).  The drain's waiter, once registered, stays so until it is told
(`WaitersStayRegistered`), which with the queue's `DrainedIsTrue` is what the teardown goes by.

### `EmbeddedRunLanesProofs`

Every behaviour of the nested lanes is one of the command queue (`QueueBehaviour`, a
refinement), so all that is proved of the queue holds of runs.  `OneRunPerSession`
(`SessionsAreExclusive`) adds that nothing raises the limit of a session's lane
(`LanesFixed`), so its active set has one member at most, and that the task in it outlasts the
run proper that it waits for in another lane (`SessionTasksWait`): two runs of one session
would be two tasks in its lane.

### `FollowupQueueProofs`

`TypeOK` (`TypeCorrect`), `RunsAtMostOnce` (`NothingRunsTwice`), `OnlyLateArrivalsMix`
(`OnlyLateOnesMix`), `RunsInOrder` (`AnsweredInOrder`) and `AcceptedIsKept`
(`NothingAcceptedIsLost`).

A drain holds claims, the turn it runs and the groups still to run, on messages that stay
in the queue until the turn has succeeded, while others evict, clear and append.  After the
turn it removes as many items as it ran, not the items that it ran.  What makes this right, as
far as it is, is that an item is never further back in the queue than in the claim
(`ObjectOK`): evictions only move it forward, so the turn's messages are among those taken
off, perhaps with others, which is finding 1.  Messages of different queue objects are
different (`Apart`), a drain over an object that the registry has forgotten cost a clear
(`StraysCost`, which bounds the objects in use), and until the first clear there is one object,
in order (`Single`).  Without evictions a claim is exactly the front of the queue
(`ObjectWhole`), and nothing is lost.

For the targets an invariant of its own (`TInv`, `TargetsInvariant`) says what a drain that was told
"skipped" knows of its queue: the items that did not come late have one target, which the
forming of the batch, evictions and settings leave true.

### `DeliveryQueueProofs`

`TypeOK` (`TypeCorrect`), `ThrowingIsKept` (`NoThrowingDeliveryIsLost`), `OneSender`
(`ClaimsExclude`), `SettledIsNotResent` (`NoNeedlessResend`) and the refinement
`ImplementsDelivery` (`Implementation`).

The centre is `ClaimsFit`: who is at an entry has claimed it, alone.  `KeptFit`, `FreshFit`
and `AcksFit` say what follows for the files: what is being sent is on disk, what a live
call has still to send nobody has settled, and what is settled and still pending is being
acked by who holds it, so that no pass finds it and starts another sending.  Nothing is said
of failed sendings, which may or may not have reached the channel.  The deferral has no
claim and is the hard part: it may count an attempt beside the one that holds the entry.
`CountsFit` bounds `retryCount` by `MaxRetries`, one more for each life of the process whose
deferral is over (`Budget`, `Spent`); `ReadsFit` bounds what a deferral has read and has
still to write; and `PrunesFit` shows that a pass gives up an entry whose live call has yet
to start only after a deferral counted it.

For the refinement every action is mapped to one of the five steps of `Delivery` or to a
stutter (`SendsMap`, `AckMaps`, `LiveStepMaps`, `PassStepMaps`, `StutterMaps`); that an ack may
close the delivery and that a send was kept come from the invariant.

### `HeartbeatProofs`

`TypeOK` (`TypeCorrect`), `WakeIsKept` (`NoWakeIsLost`), `OverlapOnlyAfterRestart`
(`OverlapIsBounded`) and `HeartbeatGoesOn` (`LastRunnerGoesOn`).

A wake is either pending or taken by a batch that has not answered it
(`BatchesHoldWakes`), with at least the priority asked for.  Batches that run are counted against
registrations: `running` admits one, and only a registration resets it while one runs
(`RegistrationsAllow`); this also shows that the model never lacks a free batch.  The handler
is the runner that started last (`HandlerIsLast`), and that one always has its interval timer,
or a wake that will lead to its being set (`LastGoesOn`).

### `CronProofs`

`TypeOK` (`TypeCorrect`), `OneRunPerJob` (`NoJobRunsTwice`), `SlotsAreKept` (`NoSlotIsLost`)
and the action property `SlotRunsOnce` (`SlotsAreTakenOnce`).

Sections read one of two stores, memory or the file, and the properties speak of both.
`StoresFit` ties them: once the store is loaded they differ in markers only (`InSync`), what is
due is owed, and what is owed is due or `soon`, unless an addition or a start moved it on
(`SlotsFit`).  A lemma for each operation on jobs (`NormalizedIs`, `MaintainedFits`,
`RecomputedFits`, `AppliedIs`, `ReplacedIs`, ...) says what it keeps of that, and each action
is a composition of such operations.  `RunsAreMarked` says that a job with a run queued,
executing or to be finished is marked in both stores and in the hands of one tick, catch-up or
manual run; since none of the three takes up a marked job, a second run needs a marker that
was lost under the first, which `cleared` records.

### `ExecApprovalsProofs`

`TypeOK` (`TypeCorrect`), `ForwardedAsDecided` (`GateGoesByDecisions`), and that a resolved promise
never changes (`DecisionsAreFinal`), which no run states.

`ForwardedAsDecided` speaks of promises and the gate of records, so the invariant has to tie
the two (`RecordsFit`): a record's decision is the promise's until it is consumed, only an
expiry leaves `resolvedBy` null, and an allow-once that was forwarded has no decision any
more.  The gate's lemma (`InvokeKeeps`) is about any call, and serves for the requester's
and for everybody else's.  That an entry is under the id it asked for (`MapFits`) and that a
new request has nothing settled (`CallersFit`) is needed for the timers.  One lemma covers
the three ways to settle an entry (`SettleKeeps`), one the steps that leave the table alone,
and one the gate.

### Only model-checked

* Liveness: `AcceptedIsSettled`, `QueuedWorkOutlivesHungTask`, `ShutdownResolves`, `AcceptedIsRun`,
  `ClaimsAreReleased`, `AcceptedRunSettles`, `WakesAreTaken`, `DueJobsRun` and `RequestsEnd`.  The
  prover does neither fairness nor ENABLED.
* The runs that end in a violation: a counterexample on a small instance is all they need.
* No definition of the models is recursive; where the code loops, the models use sets and
  prefixes of sequences, so that no proof needs an induction over data.

## Not modelled

* Inside an agent run: model calls, tools, compaction, context.  A run is a task that ends.
* The channels, nodes, apps and clients: inputs, or a send that succeeds or fails.
* In the followup queue, `refreshQueuedFollowupSession` and the expiry of the dedupe cache.
* In the embedded runs' lanes, lanes of session-to-session sends and restarts of the process.
* In heartbeats, what `runHeartbeatOnce` does, due times and phases; in cron, `stop`, a second
  service over the same file, cron expressions, stuck markers, invalid jobs and failing
  writes, and what a job executes.
* In exec approvals, requesters for the gateway host, plugin approvals (the same table with
  ids of their own), prefixes of ids, policies that forbid a decision, and lost calls.
* The components that the plan below lists, and those of the inventory's last rows, which
  are sequential edits and look-ups.

`PROJECT.json` lists each component with its status and each hazard with the properties
that watch it, or the reason why none does yet.

## Plan

Ordered by importance; 1 to 9 are done.

1. `CommandQueue`, `CommandQueueProofs`: everything else runs on it.
2. `GatewayRunLoop`: the command queue with the process lifecycle.
3. `EmbeddedRunLanes`: the command queue with runs that nest a lane inside another.
4. `FollowupQueue`: enqueue, drop policies and drains with awaits.
5. `DeliveryQueue`: the write-ahead files with crashes, live sends and recovery.
6. `Delivery`: the channel `DeliveryQueue` implements.
7. `Heartbeat`: the wake layer and the runners over it.
8. `Cron`: jobs, markers, ticks, catch-up and manual runs over a crash.
9. `ExecApprovals`, `ExecApprovalsProofs`: registrations, decisions, expiry and the gate.
10. `RestartScheduler`, composed with `GatewayRunLoop`: coalescing, deferral while busy,
    authorization of the signal, one restart per request.
11. `GatewayLock`: several processes and a lock file; at most one holder.
12. A second cron service over the same file, as a hot reload makes one.
13. Session-to-session lanes in `EmbeddedRunLanes`; `refreshQueuedFollowupSession`; then reply
    runs and the registries.

The safety properties of the runs are all proved.  Theorems worth proving next, in this order:

1. An abstract specification of a lane, a queue with so many slots and one restart after
   another, and that `CommandQueue` implements it; then that `GatewayRunLoop` does, with the
   signal as a step of its own.
2. What the liveness properties rest on and that is safety: that a claim has a worker or a live
   call that will give it up (`ClaimsAreReleased`), that the waiting between lanes has no circle
   (`AcceptedRunSettles`), that a job that is due has the timer set or a tick under way
   (`DueJobsRun`), that a drain that is not idle awaits something that ends (`AcceptedIsRun`).
3. Action properties the runs leave unsaid: marks are only cleared by the run's end, an edit or
   maintenance; retry counts never fall but with their file; a batch's answers are final.
