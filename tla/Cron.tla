-------------------------------- MODULE Cron --------------------------------
(***************************************************************************)
(* The cron service of src/cron/service: the store of jobs in memory and on *)
(* disk, the timer and its ticks (timer.ts), startup catch-up, manual runs  *)
(* and edits (ops.ts), and crashes of the process.                          *)
(*                                                                          *)
(* locked() makes the sections of an operation follow those of others one   *)
(* by one, so a section is one action; jobs execute outside of it.  Of time *)
(* there is only whether a job's next run is due.  Jobs recur or run once,  *)
(* kind every or at: the replay of cron expressions by lastRunAtMs, the     *)
(* clearing of markers older than STUCK_RUN_MS and invalid jobs are left    *)
(* out.  The file can always be written, and only this service writes it.   *)
(***************************************************************************)
EXTENDS Naturals, FiniteSets

CONSTANTS
  Recurring,     \* the jobs of kind every
  OneShots,      \* the jobs of kind at
  Calls,         \* the calls of run, by a client or from the cron lane
  MaxConcurrent, \* maxConcurrentRuns
  MaxMissed,     \* maxMissedJobsPerRestart
  MaxCrashes,    \* bound: how often the process dies
  MaxEdits       \* bound: additions, updates and removals

Jobs == Recurring \cup OneShots

ASSUME JobsAssumption == IsFiniteSet(Jobs) /\ Recurring \cap OneShots = {}
ASSUME LimitsAssumption == MaxConcurrent \in Nat \ {0} /\ MaxMissed \in Nat
ASSUME BoundsAssumption == MaxCrashes \in Nat /\ MaxEdits \in Nat

VARIABLES
  disk,       \* the jobs in the file
  mem,        \* the jobs in state.store
  phase,      \* how far start has come
  timer,      \* whether state.timer is set
  running,    \* state.running
  tick,       \* the due jobs of the tick, and how far they are
  catchup,    \* the same of the startup catch-up
  deferred,   \* deferredJobIds of it
  skip,       \* interruptedOneShotIds of start
  call,       \* the manual runs
  created,    \* the jobs that were ever added
  crashes, edits,
  owed,       \* history: jobs with a slot that came due and no run since has finished
  advanced,   \* history: jobs whose due slot an addition or a start moved on
  cleared,    \* history: jobs whose marker was cleared while they had a run
  interrupted \* history: one-shots whose run was cut off, and not edited since

stores == <<disk, mem>>
scheduler == <<phase, timer, running, tick, catchup, deferred, skip>>
bounds == <<created, crashes, edits>>
slots == <<owed, advanced, interrupted>>
vars == <<stores, scheduler, call, bounds, slots, cleared>>

NoJob == [there |-> FALSE, enabled |-> FALSE, next |-> "none", marked |-> FALSE, over |-> FALSE]
NewJob == [NoJob EXCEPT !.there = TRUE, !.enabled = TRUE, !.next = "future"]
NoCall == [step |-> "idle", job |-> "none"]
Nothing == [j \in Jobs |-> "no"]

Init ==
  /\ created \in SUBSET Jobs
  /\ disk = [j \in Jobs |-> IF j \in created THEN NewJob ELSE NoJob]
  /\ mem = [j \in Jobs |-> NoJob]
  /\ phase = "new"
  /\ timer = FALSE
  /\ running = FALSE
  /\ tick = Nothing
  /\ catchup = Nothing
  /\ deferred = {}
  /\ skip = {}
  /\ call = [c \in Calls |-> NoCall]
  /\ crashes = 0
  /\ edits = 0
  /\ owed = {}
  /\ advanced = {}
  /\ cleared = {}
  /\ interrupted = {}

-----------------------------------------------------------------------------
(* The executions in progress.                                              *)

ManualRuns(j) == {c \in Calls : call[c].step = "executing" /\ call[c].job = j}

Runs(j) ==
  Cardinality(ManualRuns(j))
    + (IF tick[j] = "executing" THEN 1 ELSE 0)
    + (IF catchup[j] = "executing" THEN 1 ELSE 0)

(* Runs of j that are still to be made or to be finished. *)
Underway(j) == tick[j] # "no" \/ catchup[j] # "no" \/ ManualRuns(j) # {}

-----------------------------------------------------------------------------
(* The store.                                                               *)

(* The next run of an enabled job that lacks one, computeJobNextRunAtMs; an *)
(* enabled one-shot without one has run.                                    *)
Missing(j, job) ==
  IF job.enabled /\ job.next = "none" /\ j \in Recurring THEN [job EXCEPT !.next = "future"] ELSE job

(* normalizeJobTickState: disabled jobs lose next run and marker. *)
Normalized(job) == IF job.enabled THEN job ELSE [job EXCEPT !.next = "none", !.marked = FALSE]

(* recomputeNextRuns: what is due moves on too, unless it is a one-shot. *)
Recomputed(jobs) ==
  [j \in Jobs |->
     IF j \in Recurring /\ jobs[j].enabled /\ jobs[j].next = "due"
     THEN [jobs[j] EXCEPT !.next = "future"]
     ELSE Missing(j, Normalized(jobs[j]))]

MaintainedByRecompute(jobs) == Recomputed(jobs)

(* recomputeNextRunsForMaintenance.  An executed slot has always moved on   *)
(* with the result, so recomputeExpired finds none.                         *)
Maintained(jobs) == [j \in Jobs |-> Missing(j, Normalized(jobs[j]))]

Marked(jobs, S) == [j \in Jobs |-> IF j \in S THEN [jobs[j] EXCEPT !.marked = TRUE] ELSE jobs[j]]

Runnable(job) == job.enabled /\ ~job.marked /\ job.next = "due"

ResultsUnscheduled(j, job) ==
  IF j \in Recurring
  THEN {[job EXCEPT !.marked = FALSE, !.next = IF job.enabled THEN @ ELSE "none"]}
  ELSE {NoJob}

(* applyJobResult: a recurring job gets its next run; a one-shot is deleted, *)
(* disabled, or tried again soon after a transient error.                   *)
Results(j, job) ==
  IF j \in Recurring
  THEN {[job EXCEPT !.marked = FALSE, !.next = IF job.enabled THEN "future" ELSE "none"]}
  ELSE {NoJob,
        [job EXCEPT !.marked = FALSE, !.over = TRUE, !.enabled = FALSE, !.next = "none"],
        [job EXCEPT !.marked = FALSE, !.over = FALSE, !.next = "soon"]}

(* applyOutcomeToStoredJob for the jobs in S: the stores it can make. *)
Applied(jobs, S) ==
  LET found == {j \in S : jobs[j].there}
  IN  {[j \in Jobs |-> IF j \in found THEN result[j] ELSE jobs[j]] :
         result \in {r \in [found -> UNION {Results(j, jobs[j]) : j \in found}] :
                       \A j \in found : r[j] \in Results(j, jobs[j])}}

Persist(jobs) == mem' = jobs /\ disk' = jobs

ArmForUpcoming(jobs) ==
  timer' = \E j \in Jobs : jobs[j].enabled /\ jobs[j].next \in {"soon", "future"}

(* armTimer: nextWakeAtMs, or the recheck as long as a job is enabled. *)
ArmTimer(jobs) == timer' = \E j \in Jobs : jobs[j].enabled

(* The history of the markers lost under a run. *)
MarkersLost ==
  cleared' = {j \in Jobs :
    /\ Underway(j)'
    /\ \/ j \in cleared
       \/ disk[j].marked /\ ~disk'[j].marked
       \/ mem[j].marked /\ ~mem'[j].marked}

-----------------------------------------------------------------------------
(* Start, in four sections with the executions of its catch-up in between.  *)

Unmarked(jobs) == [j \in Jobs |-> [jobs[j] EXCEPT !.marked = FALSE]]

StartClears ==
  LET found == {j \in OneShots : disk[j].marked}
  IN  /\ phase = "new"
      /\ phase' = "loaded"
      /\ Persist(Unmarked(disk))
      /\ skip' = found
      /\ interrupted' = interrupted \cup found
      /\ UNCHANGED <<timer, running, tick, catchup, deferred, call, bounds, owed, advanced>>
      /\ MarkersLost

(* planStartupCatchup: the oldest missed jobs at once, the others later. *)
PlanCatchup ==
  LET missed == {j \in Jobs \ skip : Runnable(mem[j]) /\ ~mem[j].over}
  IN  /\ phase = "loaded"
      /\ \E now \in SUBSET missed :
           /\ Cardinality(now) = IF Cardinality(missed) < MaxMissed THEN Cardinality(missed) ELSE MaxMissed
           /\ catchup' = [j \in Jobs |-> IF j \in now THEN "queued" ELSE "no"]
           /\ deferred' = missed \ now
           /\ IF missed = {} THEN UNCHANGED stores
              ELSE Persist(Marked(mem, now))
      /\ phase' = IF missed = {} THEN "caughtUp" ELSE "catchingUp"
      /\ UNCHANGED <<timer, running, tick, skip, call, bounds, slots>>
      /\ MarkersLost

CatchupExecutes(j) ==
  /\ catchup[j] = "queued"
  /\ \A k \in Jobs : catchup[k] # "executing"
  /\ catchup' = [catchup EXCEPT ![j] = "executing"]
  /\ UNCHANGED <<stores, phase, timer, running, tick, deferred, skip, call, bounds, slots, cleared>>

CatchupExecuted(j) ==
  /\ catchup[j] = "executing"
  /\ catchup' = [catchup EXCEPT ![j] = "done"]
  /\ UNCHANGED <<stores, phase, timer, running, tick, deferred, skip, call, bounds, slots, cleared>>

Deferred(jobs) ==
  [j \in Jobs |-> IF j \in deferred /\ jobs[j].enabled THEN [jobs[j] EXCEPT !.next = "soon"] ELSE jobs[j]]

(* applyStartupCatchupOutcomes, on what is in memory. *)
ApplyCatchup ==
  LET done == {j \in Jobs : catchup[j] = "done"}
  IN  /\ phase = "catchingUp"
      /\ \A j \in Jobs : catchup[j] \in {"no", "done"}
      /\ phase' = "caughtUp"
      /\ \E jobs \in Applied(mem, done) : Persist(Maintained(Deferred(jobs)))
      /\ catchup' = Nothing
      /\ deferred' = {}
      /\ owed' = owed \ done
      /\ UNCHANGED <<timer, running, tick, skip, call, bounds, advanced, interrupted>>
      /\ MarkersLost

MovedOn(old, new) == {j \in Jobs : old[j].next = "due" /\ new[j].next = "future"}

(* The last section. *)
StartArms ==
  LET jobs == Recomputed(mem)
  IN  /\ phase = "caughtUp"
      /\ phase' = "on"
      /\ IF jobs = mem THEN UNCHANGED stores ELSE Persist(jobs)
      /\ ArmTimer(jobs)
      /\ advanced' = advanced \cup MovedOn(mem, jobs)
      /\ skip' = {}
      /\ UNCHANGED <<running, tick, catchup, deferred, call, bounds, owed, interrupted>>
      /\ MarkersLost

-----------------------------------------------------------------------------
(* Ticks.                                                                   *)

(* onTimer sets the timer again first, whether a tick is running or not. *)
FireWhileRunning ==
  /\ timer
  /\ running
  /\ UNCHANGED vars

Fire ==
  /\ timer
  /\ ~running
  /\ running' = TRUE
  /\ UNCHANGED <<stores, phase, timer, tick, catchup, deferred, skip, call, bounds, slots, cleared>>

Ticking == running /\ tick = Nothing

(* The first section of a tick, which reads the file again.  Without due    *)
(* jobs the tick is over.                                                   *)
TickBegins ==
  LET due == {j \in Jobs : Runnable(disk[j])}
  IN  /\ Ticking
      /\ IF due = {}
         THEN /\ Persist(Maintained(disk))
              /\ running' = FALSE
              /\ ArmTimer(Maintained(disk))
              /\ UNCHANGED tick
         ELSE /\ Persist(Marked(disk, due))
              /\ tick' = [j \in Jobs |-> IF j \in due THEN "queued" ELSE "no"]
              /\ UNCHANGED <<running, timer>>
      /\ UNCHANGED <<phase, catchup, deferred, skip, call, bounds, slots>>
      /\ MarkersLost

TickExecutesAtOnce(j) ==
  /\ tick[j] \in {"queued", "detached"}
  /\ tick' = [tick EXCEPT ![j] = "executing"]
  /\ mem' = IF tick[j] = "queued" /\ mem[j].there THEN [mem EXCEPT ![j].marked = TRUE] ELSE mem
  /\ UNCHANGED <<disk, phase, timer, running, catchup, deferred, skip, call, bounds, slots, cleared>>

(* The job of the tick is marked once more, which the store sees unless it  *)
(* was read again.                                                          *)
TickExecutes(j) ==
  /\ tick[j] \in {"queued", "detached"}
  /\ Cardinality({k \in Jobs : tick[k] = "executing"}) < MaxConcurrent
  /\ tick' = [tick EXCEPT ![j] = "executing"]
  /\ mem' = IF tick[j] = "queued" /\ mem[j].there THEN [mem EXCEPT ![j].marked = TRUE] ELSE mem
  /\ UNCHANGED <<disk, phase, timer, running, catchup, deferred, skip, call, bounds, slots, cleared>>

TickExecuted(j) ==
  /\ tick[j] = "executing"
  /\ tick' = [tick EXCEPT ![j] = "done"]
  /\ UNCHANGED <<stores, phase, timer, running, catchup, deferred, skip, call, bounds, slots>>
  /\ MarkersLost

(* The last section of a tick, and its finally. *)
TickEnds ==
  LET done == {j \in Jobs : tick[j] = "done"}
  IN  /\ done # {}
      /\ \A j \in Jobs : tick[j] \in {"no", "done"}
      /\ \E jobs \in Applied(disk, done) :
           /\ Persist(Maintained(jobs))
           /\ ArmTimer(Maintained(jobs))
      /\ tick' = Nothing
      /\ running' = FALSE
      /\ owed' = owed \ done
      /\ UNCHANGED <<phase, catchup, deferred, skip, call, bounds, advanced, interrupted>>
      /\ MarkersLost

-----------------------------------------------------------------------------
(* Manual runs.                                                             *)

Loaded == phase # "new"

(* inspectManualRunPreflight, of a forced run: others must be due as well. *)
Preflight(c, j) ==
  LET jobs == Maintained(mem)
  IN  /\ call[c].step = "idle"
      /\ Loaded
      /\ jobs[j].there
      /\ ~jobs[j].marked
      /\ mem' = jobs
      /\ call' = [call EXCEPT ![c] = [step |-> "checked", job |-> j]]
      /\ UNCHANGED <<disk, scheduler, bounds, slots>>
      /\ MarkersLost

PrepareUnchecked(c) ==
  LET j == call[c].job
  IN  /\ call[c].step = "checked"
      /\ Persist(Marked(mem, {j}))
      /\ call' = [call EXCEPT ![c].step = "executing"]
      /\ UNCHANGED <<scheduler, bounds, slots>>
      /\ MarkersLost

(* prepareManualRun looks again, for sections of others came in between. *)
PrepareManualRun(c) ==
  LET j == call[c].job
  IN  /\ call[c].step = "checked"
      /\ IF mem[j].there /\ ~mem[j].marked
         THEN /\ Persist(Marked(mem, {j}))
              /\ call' = [call EXCEPT ![c].step = "executing"]
         ELSE /\ call' = [call EXCEPT ![c] = NoCall]
              /\ UNCHANGED stores
      /\ UNCHANGED <<scheduler, bounds, slots>>
      /\ MarkersLost

(* finishPreparedManualRun: the result goes into the job in memory, and of  *)
(* memory only that job into the file's jobs, which are read again.         *)
FinishManualRun(c) ==
  LET j == call[c].job
  IN  /\ call[c].step = "executing"
      /\ IF mem[j].there
         THEN /\ \E job \in Results(j, mem[j]) :
                   LET jobs == Maintained([disk EXCEPT ![j] = IF @.there THEN job ELSE @])
                   IN  Persist(jobs) /\ ArmTimer(jobs)
              /\ tick' = [k \in Jobs |-> IF tick[k] = "queued" THEN "detached" ELSE tick[k]]
              /\ owed' = owed \ {j}
         ELSE UNCHANGED <<stores, timer, tick, owed>>
      /\ call' = [call EXCEPT ![c] = NoCall]
      /\ UNCHANGED <<phase, running, catchup, deferred, skip, bounds, advanced, interrupted>>
      /\ MarkersLost

-----------------------------------------------------------------------------
(* Edits, on what is in memory.  An update that neither enables or disables *)
(* a job nor changes its schedule changes nothing here.                     *)

Edit(jobs) ==
  /\ Loaded
  /\ edits < MaxEdits
  /\ edits' = edits + 1
  /\ Persist(jobs)
  /\ ArmTimer(jobs)
  /\ UNCHANGED <<phase, running, tick, catchup, deferred, skip, call, crashes>>
  /\ MarkersLost

(* The other jobs are recomputed with the new one. *)
Add(j) ==
  LET jobs == Recomputed(mem)
  IN  /\ j \notin created
      /\ created' = created \cup {j}
      /\ Edit([jobs EXCEPT ![j] = NewJob])
      /\ advanced' = advanced \cup MovedOn(mem, jobs)
      /\ UNCHANGED <<owed, interrupted>>

Disable(j) ==
  /\ mem[j].there
  /\ Edit([mem EXCEPT ![j] = Normalized([@ EXCEPT !.enabled = FALSE])])
  /\ owed' = owed \ {j}
  /\ interrupted' = interrupted \ {j}
  /\ UNCHANGED <<created, advanced>>

(* What an update that enables a job or changes its schedule makes of it: a *)
(* one-shot that has run has no next run, unless its time is a later one.   *)
Rescheduled(j, job) ==
  LET enabled == [job EXCEPT !.enabled = TRUE]
  IN  IF j \in Recurring
      THEN {[enabled EXCEPT !.next = "future"]}
      ELSE UNION {{[enabled EXCEPT !.next = n, !.over = o] : o \in {job.over, FALSE}} :
                    n \in {"due", "future"} \cup (IF job.over THEN {"none"} ELSE {})}

Reschedule(j) ==
  /\ mem[j].there
  /\ \E job \in Rescheduled(j, mem[j]) :
       /\ Edit([mem EXCEPT ![j] = job])
       /\ owed' = IF job.next = "due" THEN owed \cup {j} ELSE owed \ {j}
  /\ interrupted' = interrupted \ {j}
  /\ UNCHANGED <<created, advanced>>

(* The store is not loaded anew, so the other jobs stay as they are. *)
Remove(j) ==
  /\ mem[j].there
  /\ Edit([mem EXCEPT ![j] = NoJob])
  /\ owed' = owed \ {j}
  /\ interrupted' = interrupted \ {j}
  /\ UNCHANGED <<created, advanced>>

-----------------------------------------------------------------------------

(* Time passes: the next run of j is due. *)
Come(jobs, j) == IF jobs[j].next \in {"future", "soon"} THEN [jobs EXCEPT ![j].next = "due"] ELSE jobs

SlotComes(j) ==
  /\ disk' = Come(disk, j)
  /\ mem' = Come(mem, j)
  /\ <<disk', mem'>> # <<disk, mem>>
  /\ IF disk' # disk
     THEN owed' = owed \cup {j} /\ advanced' = advanced \ {j}
     ELSE UNCHANGED <<owed, advanced>>
  /\ UNCHANGED <<scheduler, call, bounds, interrupted, cleared>>

Crash ==
  /\ crashes < MaxCrashes
  /\ crashes' = crashes + 1
  /\ mem' = [j \in Jobs |-> NoJob]
  /\ phase' = "new"
  /\ timer' = FALSE
  /\ running' = FALSE
  /\ tick' = Nothing
  /\ catchup' = Nothing
  /\ deferred' = {}
  /\ skip' = {}
  /\ call' = [c \in Calls |-> NoCall]
  /\ UNCHANGED <<disk, created, edits, slots>>
  /\ MarkersLost

StartStep == StartClears \/ PlanCatchup \/ ApplyCatchup \/ StartArms

TickStep == Fire \/ FireWhileRunning \/ TickBegins \/ TickEnds

Execution(j) ==
  \/ CatchupExecutes(j) \/ CatchupExecuted(j)
  \/ TickExecutes(j) \/ TickExecuted(j)

Next ==
  \/ StartStep
  \/ TickStep
  \/ \E j \in Jobs : Execution(j)
  \/ \E c \in Calls :
       \/ \E j \in Jobs : Preflight(c, j)
       \/ PrepareManualRun(c)
       \/ FinishManualRun(c)
  \/ \E j \in Jobs : Add(j) \/ Disable(j) \/ Reschedule(j) \/ Remove(j) \/ SlotComes(j)
  \/ Crash

Spec == Init /\ [][Next]_vars

(* start goes on, timers fire, and executions end, for they have timeouts; *)
(* clients, the clock and the operator owe nothing.                         *)
FairSpec ==
  /\ Spec
  /\ WF_vars(StartStep)
  /\ WF_vars(TickStep)
  /\ \A j \in Jobs : WF_vars(Execution(j))
  /\ \A c \in Calls : WF_vars(PrepareManualRun(c) \/ FinishManualRun(c))

-----------------------------------------------------------------------------
(* Properties.                                                              *)

Stored == [there : BOOLEAN, enabled : BOOLEAN, next : {"none", "future", "soon", "due"},
           marked : BOOLEAN, over : BOOLEAN]

(* The types, and the limits: a tick executes no more than maxConcurrentRuns *)
(* jobs at once, and a startup catch-up one, of maxMissedJobsPerRestart.    *)
TypeOK ==
  /\ disk \in [Jobs -> Stored]
  /\ mem \in [Jobs -> Stored]
  /\ phase \in {"new", "loaded", "catchingUp", "caughtUp", "on"}
  /\ timer \in BOOLEAN
  /\ running \in BOOLEAN
  /\ tick \in [Jobs -> {"no", "queued", "detached", "executing", "done"}]
  /\ catchup \in [Jobs -> {"no", "queued", "executing", "done"}]
  /\ deferred \subseteq Jobs
  /\ skip \subseteq OneShots
  /\ call \in [Calls -> [step : {"idle", "checked", "executing"}, job : Jobs \cup {"none"}]]
  /\ owed \cup advanced \cup cleared \cup interrupted \subseteq Jobs
  /\ Cardinality({j \in Jobs : tick[j] = "executing"}) <= MaxConcurrent
  /\ Cardinality({j \in Jobs : catchup[j] = "executing"}) <= 1
  /\ Cardinality({j \in Jobs : catchup[j] # "no"}) <= MaxMissed

(* Ticks, startup catch-up and manual runs never execute a job twice at the *)
(* same time, unless its marker was cleared under a run, which disabling it *)
(* does, and any maintenance during the forced run of a disabled job.       *)
OneRunPerJob == \A j \in Jobs : Runs(j) <= 1 \/ j \in cleared

(* timer.ts:806, jobs.ts:494: a slot that came due stays due until a run of *)
(* the job has finished, through ticks that find nothing to do, manual runs *)
(* of other jobs, catch-up and crashes; additions and starts do move it on. *)
SlotsAreKept ==
  \A j \in owed \ advanced : disk[j].enabled /\ disk[j].next \in {"due", "soon"}

Plans(j) ==
  \/ tick[j] = "no" /\ tick'[j] = "queued"
  \/ catchup[j] = "no" /\ catchup'[j] = "queued"

(* A tick or a catch-up takes up a job only for a slot that came due since  *)
(* the last run of it finished.                                             *)
SlotRunsOnce == [][\A j \in Jobs : Plans(j) => j \in owed]_vars

(* A job that is enabled and due does not stay so: it gets its run, if it is *)
(* not edited.                                                              *)
DueJobsRun ==
  \A j \in Jobs :
    (mem[j].enabled /\ mem[j].next = "due") ~> ~(mem[j].enabled /\ mem[j].next = "due")

(* ops.ts:106: a one-shot is not tried again once its run was cut off.      *)
OneShotsNotRetried == [][\A j \in interrupted : ~Plans(j)]_vars
=============================================================================
