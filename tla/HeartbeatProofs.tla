--------------------------- MODULE HeartbeatProofs ---------------------------
(***************************************************************************)
(* Safety proofs for Heartbeat.  A wake is followed through the pending     *)
(* wakes and the batches; the batches that run at a time are counted        *)
(* against the registrations, each of which lets one more run; and the      *)
(* runner started last is shown to be the handler, with something on its    *)
(* way that sets its timer again.                                           *)
(***************************************************************************)
EXTENDS Heartbeat, FiniteSetTheorems, TLAPS

Wakes == [Keys -> {None} \cup Priorities]
Timers == {"none", "normal", "retry"}
Batch == [by : Runners \cup {NoRunner}, left : SUBSET Keys, taken : Wakes, at : Keys \cup {NoKey}]

Busy == {b \in Batches : batch[b] # Idle}

StartedInOrder == \A r \in Runners : runner[r] # "new" <=> r <= registrations

HandlerIsLast ==
  /\ handler # NoRunner => handler = registrations
  /\ \A r \in Runners : r = registrations /\ runner[r] = "on" => handler = r

BatchesHoldWakes == \A b \in Batches : \A k \in Unanswered(b) : batch[b].taken[k] # None

(* A batch that runs has a wake to answer. *)
BusyHaveWork == \A b \in Busy : Unanswered(b) # {}

RegistrationsAllow ==
  /\ Cardinality(Busy) <= registrations
  /\ ~running /\ Busy # {} => Cardinality(Busy) < registrations

(* The timer is set, or to be set again, only while a wake is pending. *)
TimersHaveWakes == timer # "none" \/ scheduled => pending # NoWakes

(* HeartbeatGoesOn, of the runner started last. *)
LastGoesOn ==
  \A r \in Runners :
    r = registrations /\ runner[r] = "on" /\ agents[r] => muted \/ WillRunAgain(r)

RunnersPart == StartedInOrder /\ HandlerIsLast
BatchesPart == BatchesHoldWakes /\ BusyHaveWork /\ RegistrationsAllow

HInv ==
  /\ TypeOK
  /\ WakeIsKept
  /\ RunnersPart
  /\ BatchesPart
  /\ TimersHaveWakes
  /\ LastGoesOn

-----------------------------------------------------------------------------
(* Priorities, queues and counts.                                           *)

LEMMA Numbers ==
  /\ Priorities = 1..3 /\ None = 0 /\ NoRunner = 0
  /\ Runners = 1..(Restarts + 1) /\ Restarts \in Nat
  /\ IsFiniteSet(Batches) /\ Cardinality(Runners) = Restarts + 1
  /\ NoWakes \in Wakes /\ Idle \in Batch
<1>1. Restarts \in Nat
  BY BoundsAssumption
<1>2. /\ IsFiniteSet(1..(Restarts + 1)) /\ Cardinality(1..(Restarts + 1)) = Restarts + 1
      /\ IsFiniteSet(1..(Restarts + 2))
  BY <1>1, FS_Interval
<1>3. NoWakes \in Wakes
  BY DEF NoWakes, Wakes
<1> QED
  BY <1>1, <1>2, <1>3
  DEF Priorities, Interval, Action, None, NoRunner, Runners, Batches, Idle, Batch

LEMMA TypesAre ==
  TypeOK => /\ pending \in Wakes /\ owed \in Wakes
            /\ timer \in Timers /\ batch \in [Batches -> Batch]
BY DEF TypeOK, Wakes, Timers, Batch

LEMMA QueueIsLarger ==
  ASSUME pending \in Wakes, NEW asked \in Wakes
  PROVE  /\ Queue(asked) \in Wakes
         /\ \A k \in Keys : asked[k] <= Queue(asked)[k] /\ pending[k] <= Queue(asked)[k]
BY Numbers DEF Wakes, Queue, Larger

LEMMA OneIsOne ==
  ASSUME NEW k \in Keys, NEW p \in {None} \cup Priorities
  PROVE  /\ One(k, p) \in Wakes
         /\ \A j \in Keys : One(k, p)[j] = IF j = k THEN p ELSE None
BY DEF One, NoWakes, Wakes

LEMMA ScheduleSets ==
  ASSUME NEW old \in Timers, NEW kind \in {"normal", "retry"}
  PROVE  Schedule(old, kind) \subseteq Timers
BY DEF Schedule, Timers

(* A map of wakes differs from the empty one in some wake. *)
LEMMA SomeWake ==
  ASSUME NEW w \in Wakes
  PROVE  w # NoWakes <=> \E k \in Keys : w[k] # None
<1>1. w \in [Keys -> 0..3]
  BY Numbers DEF Wakes
<1> QED
  BY <1>1, Numbers DEF NoWakes

LEMMA BusyFinite ==
  ASSUME NEW S \in SUBSET Batches
  PROVE  IsFiniteSet(S) /\ Cardinality(S) \in Nat
BY Numbers, FS_Subset, FS_CardinalityType

LEMMA BusyCounts ==
  ASSUME NEW S \in SUBSET Batches, NEW b \in Batches
  PROVE  /\ IsFiniteSet(S) /\ Cardinality(S) \in Nat
         /\ b \in S => Cardinality(S \ {b}) = Cardinality(S) - 1
         /\ b \notin S => Cardinality(S \cup {b}) = Cardinality(S) + 1
<1> QED
  BY BusyFinite, FS_RemoveElement, FS_AddElement

-----------------------------------------------------------------------------
(* Parts that a step leaves alone.                                          *)

LEMMA RunnersStay ==
  ASSUME RunnersPart, UNCHANGED <<registration, runner>>
  PROVE  RunnersPart'
BY DEF RunnersPart, StartedInOrder, HandlerIsLast, registration

LEMMA BatchesStay ==
  ASSUME BatchesPart, UNCHANGED <<batch, running, registrations>>
  PROVE  BatchesPart'
BY DEF BatchesPart, BatchesHoldWakes, BusyHaveWork, RegistrationsAllow, Busy, Unanswered

LEMMA InitHolds == Init => HInv
<1> SUFFICES ASSUME Init PROVE HInv
  OBVIOUS
<1> USE Numbers DEF Init
<1>1. TypeOK
  <2>1. batch \in [Batches -> Batch] /\ pending \in Wakes /\ owed \in Wakes
    OBVIOUS
  <2>2. registrations \in 0..Cardinality(Runners) /\ requests \in 0..MaxRequests
    BY BoundsAssumption
  <2> QED
    BY <2>1, <2>2 DEF TypeOK, Wakes, Batch
<1>2. WakeIsKept
  BY DEF WakeIsKept, NoWakes
<1>3. RunnersPart
  BY DEF RunnersPart, StartedInOrder, HandlerIsLast
<1>4. Busy = {}
  BY DEF Busy
<1>5. Cardinality(Busy) = 0
  BY <1>4, FS_EmptySet
<1>6. BatchesPart
  BY <1>4, <1>5 DEF BatchesPart, BatchesHoldWakes, BusyHaveWork, RegistrationsAllow, Unanswered, Idle
<1>7. TimersHaveWakes /\ LastGoesOn
  BY DEF TimersHaveWakes, LastGoesOn
<1> QED
  BY <1>1, <1>2, <1>3, <1>6, <1>7 DEF HInv

-----------------------------------------------------------------------------
(* Requests.                                                                *)

LEMMA RequestKeeps ==
  ASSUME HInv, NEW k \in Keys, NEW p \in Priorities, Request(k, p),
         UNCHANGED <<scheduled, running, registration, batch, runner>>
  PROVE  /\ pending' \in Wakes /\ owed' \in Wakes /\ timer' \in Timers
         /\ WakeIsKept' /\ RunnersPart' /\ BatchesPart' /\ TimersHaveWakes'
         /\ pending'[k] # None
         /\ \A j \in Keys : pending[j] # None => pending'[j] # None
<1> USE DEF HInv
<1>1. pending \in Wakes /\ owed \in Wakes /\ timer \in Timers /\ batch \in [Batches -> Batch]
  BY TypesAre
<1>2. /\ One(k, p) \in Wakes /\ p \in Nat /\ p # None
      /\ One(k, p)[k] = p
  BY OneIsOne, Numbers
<1>3. /\ pending' \in Wakes /\ timer' \in Timers
      /\ \A j \in Keys : One(k, p)[j] <= pending'[j] /\ pending[j] <= pending'[j]
  BY <1>1, <1>2, QueueIsLarger, ScheduleSets DEF Request
<1>4. /\ owed' \in Wakes
      /\ \A j \in Keys : owed'[j] = IF j = k THEN Larger(owed[j], p) ELSE owed[j]
  BY <1>1 DEF Request, Wakes, Larger
<1>5. \A j \in Keys : pending[j] \in Nat /\ pending'[j] \in Nat /\ owed[j] \in Nat
  BY <1>1, <1>3, Numbers DEF Wakes
<1>6. /\ pending'[k] # None
      /\ \A j \in Keys : pending[j] # None => pending'[j] # None
  BY <1>2, <1>3, <1>5, Numbers
<1>7. WakeIsKept'
  <2> SUFFICES ASSUME NEW j \in Keys, ~(owed'[j] <= pending'[j])
               PROVE  \E b \in Batches : j \in Unanswered(b)' /\ owed'[j] <= batch'[b].taken[j]
    BY DEF WakeIsKept
  <2>1. owed'[j] = owed[j] /\ ~(owed[j] <= pending[j])
    BY <1>2, <1>3, <1>4, <1>5 DEF Larger
  <2> QED
    BY <2>1 DEF WakeIsKept, Unanswered
<1>8. TimersHaveWakes'
  BY <1>3, <1>6, SomeWake DEF TimersHaveWakes
<1> QED
  BY <1>3, <1>4, <1>6, <1>7, <1>8, RunnersStay, BatchesStay DEF registration

LEMMA RequestHeartbeatNowKeeps ==
  ASSUME HInv, NEW k \in Keys, NEW p \in Asked, RequestHeartbeatNow(k, p)
  PROVE  HInv'
<1>1. p \in Priorities
  BY BoundsAssumption DEF Priorities, Interval, Default, Action
<1>2. /\ pending' \in Wakes /\ owed' \in Wakes /\ timer' \in Timers
      /\ WakeIsKept' /\ RunnersPart' /\ BatchesPart' /\ TimersHaveWakes'
      /\ \A j \in Keys : pending[j] # None => pending'[j] # None
  BY <1>1, RequestKeeps DEF RequestHeartbeatNow, runners
<1>3. requests' \in 0..MaxRequests
  BY BoundsAssumption DEF HInv, TypeOK, RequestHeartbeatNow
<1>4. TypeOK'
  BY <1>2, <1>3 DEF HInv, TypeOK, Wakes, Timers, RequestHeartbeatNow, registration, runners
<1>5. LastGoesOn'
  BY <1>2 DEF HInv, LastGoesOn, WillRunAgain, Unanswered, RequestHeartbeatNow, registration,
              runners, Keys
<1> QED
  BY <1>2, <1>4, <1>5 DEF HInv

LEMMA IntervalTimerKeeps ==
  ASSUME HInv, NEW r \in Runners, IntervalTimer(r)
  PROVE  HInv'
<1>1. All \in Keys /\ Interval \in Priorities
  BY Numbers DEF Keys, Interval
<1>2. /\ pending' \in Wakes /\ owed' \in Wakes /\ timer' \in Timers
      /\ WakeIsKept' /\ RunnersPart' /\ BatchesPart' /\ TimersHaveWakes'
      /\ pending'[All] # None
  BY <1>1, RequestKeeps DEF IntervalTimer
<1>3. TypeOK'
  BY <1>2 DEF HInv, TypeOK, Wakes, Timers, IntervalTimer, registration
<1>4. LastGoesOn'
  BY <1>2 DEF LastGoesOn, WillRunAgain
<1> QED
  BY <1>2, <1>3, <1>4 DEF HInv

-----------------------------------------------------------------------------
(* The timer of the wake layer.                                             *)

LEMMA FireWithoutHandlerKeeps ==
  ASSUME HInv, FireWithoutHandler
  PROVE  HInv'
<1> USE DEF HInv, FireWithoutHandler
<1>1. TypeOK'
  BY DEF TypeOK, registration, runners
<1>2. WakeIsKept'
  BY DEF WakeIsKept, Unanswered
<1>3. RunnersPart' /\ BatchesPart'
  BY RunnersStay, BatchesStay DEF registration, runners
<1>4. TimersHaveWakes'
  BY DEF TimersHaveWakes
<1>5. LastGoesOn'
  BY DEF LastGoesOn, WillRunAgain, Unanswered, registration, runners
<1> QED
  BY <1>1, <1>2, <1>3, <1>4, <1>5

LEMMA FireWhileRunningKeeps ==
  ASSUME HInv, FireWhileRunning
  PROVE  HInv'
<1> USE DEF HInv, FireWhileRunning
<1>1. TypeOK'
  BY DEF TypeOK, registration, runners
<1>2. WakeIsKept'
  BY DEF WakeIsKept, Unanswered
<1>3. RunnersPart' /\ BatchesPart'
  BY RunnersStay, BatchesStay DEF registration, runners
<1>4. TimersHaveWakes'
  BY DEF TimersHaveWakes
<1>5. LastGoesOn'
  BY DEF LastGoesOn, WillRunAgain, Unanswered, registration, runners
<1> QED
  BY <1>1, <1>2, <1>3, <1>4, <1>5

LEMMA FireBatchKeeps ==
  ASSUME HInv, FireBatch
  PROVE  HInv'
<1> USE DEF HInv
<1>1. PICK b \in Batches :
        /\ timer # "none" /\ handler # NoRunner /\ batch[b] = Idle
        /\ timer' = "none" /\ scheduled' = FALSE /\ running' = TRUE /\ pending' = NoWakes
        /\ batch' = [batch EXCEPT ![b] =
             [by |-> handler, left |-> {k \in Keys : pending[k] # None},
              taken |-> pending, at |-> NoKey]]
        /\ UNCHANGED <<registration, enabled, runners, requests, muted, owed>>
  BY DEF FireBatch, FireUnguarded
<1>2. pending \in Wakes /\ owed \in Wakes /\ timer \in Timers /\ batch \in [Batches -> Batch]
  BY TypesAre
<1> DEFINE new == [by |-> handler, left |-> {k \in Keys : pending[k] # None},
                   taken |-> pending, at |-> NoKey]
<1>3. new \in Batch
  BY <1>2 DEF TypeOK, Batch
<1>4. /\ new.by = handler /\ new.left = {k \in Keys : pending[k] # None}
      /\ new.taken = pending /\ new.at = NoKey
  OBVIOUS
<1>5. batch' \in [Batches -> Batch] /\ \A c \in Batches : batch'[c] = IF c = b THEN new ELSE batch[c]
  BY <1>1, <1>2, <1>3
<1> HIDE DEF new
<1>6. Unanswered(b) = {} /\ Unanswered(b)' = new.left
  BY <1>1, <1>4, <1>5 DEF Unanswered, Idle
<1>7. \A c \in Batches \ {b} : Unanswered(c)' = Unanswered(c)
  BY <1>5 DEF Unanswered
<1>8. new # Idle
  BY <1>1, <1>4 DEF Idle
<1>9. Busy' = Busy \cup {b} /\ b \notin Busy
  BY <1>1, <1>5, <1>8 DEF Busy
<1>10. TypeOK'
  BY <1>1, <1>5, Numbers DEF TypeOK, Wakes, Batch, registration, runners
<1>11. WakeIsKept'
  <2> SUFFICES ASSUME NEW k \in Keys
               PROVE  \/ owed'[k] <= pending'[k]
                      \/ \E c \in Batches : k \in Unanswered(c)' /\ owed'[k] <= batch'[c].taken[k]
    BY DEF WakeIsKept
  <2>1. owed'[k] = owed[k] /\ pending'[k] = 0
    BY <1>1, Numbers DEF NoWakes
  <2>2. CASE owed[k] <= pending[k]
    <3>1. CASE pending[k] = None
      BY <2>1, <2>2, <3>1, Numbers
    <3>2. CASE pending[k] # None
      BY <1>4, <1>5, <1>6, <2>1, <2>2, <3>2
    <3> QED
      BY <3>1, <3>2
  <2>3. CASE ~(owed[k] <= pending[k])
    <3>1. PICK c \in Batches : k \in Unanswered(c) /\ owed[k] <= batch[c].taken[k]
      BY <2>3 DEF WakeIsKept
    <3> QED
      BY <1>5, <1>6, <1>7, <2>1, <3>1
  <2> QED
    BY <2>2, <2>3
<1>12. RunnersPart'
  BY <1>1, RunnersStay DEF runners
<1>13. RegistrationsAllow'
  <2>1. registrations \in Nat /\ registrations >= 1 /\ registrations' = registrations
    BY <1>1, Numbers DEF TypeOK, RunnersPart, HandlerIsLast, registration
  <2>2. Cardinality(Busy) < registrations
    <3>1. ~running /\ (Busy # {} => Cardinality(Busy) < registrations)
      BY DEF FireBatch, BatchesPart, RegistrationsAllow
    <3>2. Busy = {} => Cardinality(Busy) = 0
      BY FS_EmptySet
    <3> QED
      BY <2>1, <3>1, <3>2
  <2>3. Cardinality(Busy') = Cardinality(Busy) + 1 /\ Cardinality(Busy) \in Nat
    BY <1>9, BusyCounts DEF Busy
  <2> QED
    BY <1>1, <2>1, <2>2, <2>3 DEF RegistrationsAllow
<1>14. BatchesHoldWakes'
  BY <1>4, <1>5, <1>6, <1>7 DEF BatchesPart, BatchesHoldWakes
<1>15. BusyHaveWork'
  <2>1. Unanswered(b)' # {}
    BY <1>1, <1>2, <1>4, <1>6, SomeWake DEF TimersHaveWakes
  <2> QED
    BY <1>7, <1>9, <2>1 DEF BatchesPart, BusyHaveWork, Busy
<1>16. TimersHaveWakes'
  BY <1>1 DEF TimersHaveWakes
<1>17. LastGoesOn'
  <2> SUFFICES ASSUME NEW r \in Runners, r = registrations', runner'[r] = "on", agents'[r], ~muted'
               PROVE  WillRunAgain(r)'
    BY DEF LastGoesOn
  <2>1. /\ WillRunAgain(r) /\ handler = r /\ due' = due
    BY <1>1 DEF LastGoesOn, RunnersPart, HandlerIsLast, registration, runners
  <2>2. ASSUME NEW c \in Batches, batch[c].by = r, All \in Unanswered(c) \/ batch[c].at # NoKey
        PROVE  WillRunAgain(r)'
    <3>1. c # b
      BY <1>1, <2>2, Numbers DEF Idle
    <3> QED
      BY <1>5, <1>7, <2>2, <3>1 DEF WillRunAgain
  <2>3. CASE pending[All] # None
    BY <1>4, <1>5, <1>6, <2>1, <2>3 DEF WillRunAgain, Keys
  <2> QED
    BY <2>1, <2>2, <2>3 DEF WillRunAgain
<1> QED
  BY <1>10, <1>11, <1>12, <1>13, <1>14, <1>15, <1>16, <1>17 DEF BatchesPart

-----------------------------------------------------------------------------
(* A batch.                                                                 *)

(* One batch moves: it ends, or it goes on with a wake to answer.           *)
Moved(b) ==
  /\ batch' \in [Batches -> Batch]
  /\ \A c \in Batches \ {b} : batch'[c] = batch[c]
  /\ Unanswered(b)' \subseteq Unanswered(b)
  /\ \/ batch'[b] = Idle /\ running' = FALSE
     \/ /\ batch'[b] # Idle /\ running' = running /\ Unanswered(b)' # {}
        /\ batch'[b].taken = batch[b].taken /\ batch'[b].by = batch[b].by

LEMMA OthersStay ==
  ASSUME NEW b \in Batches, Moved(b), NEW c \in Batches \ {b}
  PROVE  batch'[c] = batch[c] /\ Unanswered(c)' = Unanswered(c)
BY DEF Moved, Unanswered

LEMMA BatchMoves ==
  ASSUME HInv, NEW b \in Busy, Moved(b), registrations' = registrations
  PROVE  BatchesPart'
<1>1. b \in Batches /\ batch \in [Batches -> Batch] /\ registrations \in Nat
  BY TypesAre, Numbers DEF Busy, HInv, TypeOK
<1>2. \A c \in Batches \ {b} : batch'[c] = batch[c] /\ Unanswered(c)' = Unanswered(c)
  BY <1>1, OthersStay
<1>3. BatchesHoldWakes /\ BusyHaveWork /\ RegistrationsAllow
  BY DEF HInv, BatchesPart
<1>4. Busy \in SUBSET Batches
  BY DEF Busy
<1>5. Cardinality(Busy) \in Nat /\ Cardinality(Busy \ {b}) = Cardinality(Busy) - 1 /\ Busy # {}
  BY <1>1, <1>4, BusyCounts
<1>6. CASE batch'[b] = Idle /\ running' = FALSE
  <2>1. Busy' = Busy \ {b}
    BY <1>2, <1>6 DEF Busy
  <2>2. RegistrationsAllow'
    BY <1>1, <1>3, <1>5, <1>6, <2>1 DEF RegistrationsAllow
  <2>3. Unanswered(b)' = {}
    BY <1>6 DEF Unanswered, Idle
  <2>4. BatchesHoldWakes'
    BY <1>2, <1>3, <2>3 DEF BatchesHoldWakes
  <2>5. BusyHaveWork'
    BY <1>2, <1>3, <1>4, <2>1 DEF BusyHaveWork
  <2> QED
    BY <2>2, <2>4, <2>5 DEF BatchesPart
<1>7. CASE /\ batch'[b] # Idle /\ running' = running /\ Unanswered(b)' # {}
           /\ batch'[b].taken = batch[b].taken
  <2>1. Busy' = Busy
    BY <1>1, <1>2, <1>7 DEF Busy
  <2>2. RegistrationsAllow'
    BY <1>3, <1>7, <2>1 DEF RegistrationsAllow
  <2>3. Unanswered(b)' \subseteq Unanswered(b)
    BY DEF Moved
  <2>4. BatchesHoldWakes'
    BY <1>2, <1>3, <1>7, <2>3 DEF BatchesHoldWakes
  <2>5. BusyHaveWork'
    BY <1>2, <1>3, <1>4, <1>7, <2>1 DEF BusyHaveWork
  <2> QED
    BY <2>2, <2>4, <2>5 DEF BatchesPart
<1> QED
  BY <1>6, <1>7 DEF Moved

(* A wake the batch answers no more is answered, or pending again.          *)
LEMMA WakesMove ==
  ASSUME HInv, NEW b \in Batches, Moved(b), pending' \in Wakes,
         \A k \in Keys : pending[k] <= pending'[k],
         \A k \in Keys :
           \/ owed'[k] = None
           \/ /\ owed'[k] = owed[k]
              /\ \/ k \in Unanswered(b)' /\ batch'[b].taken = batch[b].taken
                 \/ k \notin Unanswered(b)
                 \/ batch[b].taken[k] <= pending'[k]
                 \/ ~(owed[k] <= batch[b].taken[k])
  PROVE  WakeIsKept'
<1> SUFFICES ASSUME NEW k \in Keys, ~(owed'[k] <= pending'[k])
             PROVE  \E c \in Batches : k \in Unanswered(c)' /\ owed'[k] <= batch'[c].taken[k]
  BY DEF WakeIsKept
<1>1. /\ pending[k] \in Nat /\ pending'[k] \in Nat /\ owed[k] \in Nat
      /\ batch[b].taken[k] \in Nat
  BY TypesAre, Numbers DEF HInv, Wakes, Batch
<1>2. owed'[k] = owed[k] /\ ~(owed[k] <= pending[k])
  BY <1>1, Numbers
<1>3. PICK c \in Batches : k \in Unanswered(c) /\ owed[k] <= batch[c].taken[k]
  BY <1>2 DEF HInv, WakeIsKept
<1>4. CASE c = b
  BY <1>1, <1>2, <1>3, <1>4, Numbers
<1>5. CASE c # b
  BY <1>2, <1>3, <1>5, OthersStay
<1> QED
  BY <1>4, <1>5

(* The runner started last does not lose what sets its timer again.         *)
LEMMA LastMoves ==
  ASSUME HInv, NEW b \in Batches, Moved(b), UNCHANGED <<registration, runner, agents>>,
         pending[All] # None => pending'[All] # None,
         \A r \in Runners : r = handler /\ runner[r] = "on" /\ agents[r] =>
           /\ due[r] => due'[r]
           /\ muted => muted' \/ due'[r]
           /\ \/ batch[b].by # r \/ muted' \/ due'[r] \/ pending'[All] # None
              \/ batch'[b].at # NoKey /\ batch'[b].by = batch[b].by
  PROVE  LastGoesOn'
<1> SUFFICES ASSUME NEW r \in Runners, r = registrations, runner[r] = "on", agents[r],
                    ~muted', ~due'[r], pending'[All] = None
             PROVE  \E c \in Batches : /\ batch'[c].by = r
                                       /\ All \in Unanswered(c)' \/ batch'[c].at # NoKey
  BY DEF LastGoesOn, WillRunAgain, registration
<1>1. handler = r
  BY DEF HInv, RunnersPart, HandlerIsLast
<1>2. ~muted /\ ~due[r] /\ pending[All] = None
  BY <1>1
<1>3. PICK c \in Batches : batch[c].by = r /\ (All \in Unanswered(c) \/ batch[c].at # NoKey)
  BY <1>2 DEF HInv, LastGoesOn, WillRunAgain
<1>4. CASE c = b
  BY <1>1, <1>3, <1>4
<1>5. CASE c # b
  BY <1>3, <1>5, OthersStay
<1> QED
  BY <1>4, <1>5

(* The wake k of batch b, which is being answered. *)
AnswersNow(b, k) == batch[b].at = k \/ (batch[b].at = NoKey /\ k \in batch[b].left)

LEMMA GoOnMoves ==
  ASSUME HInv, NEW b \in Batches, NEW k \in Keys, AnswersNow(b, k),
         NEW queued \in Wakes, NEW set \in SUBSET Timers, GoOn(b, k, queued, set)
  PROVE  /\ b \in Busy /\ k \in Unanswered(b)
         /\ Moved(b)
         /\ pending' = queued /\ timer' \in Timers /\ scheduled' = scheduled
         /\ running' \in BOOLEAN
         /\ \A j \in Unanswered(b) \ {k} : /\ j \in Unanswered(b)'
                                           /\ batch'[b].taken = batch[b].taken
         /\ (\A t \in set : t # "none" => queued # NoWakes) /\ (scheduled => queued # NoWakes)
              => TimersHaveWakes'
<1>1. batch \in [Batches -> Batch] /\ NoKey \notin Keys /\ running \in BOOLEAN
  BY TypesAre, KeysAssumption DEF HInv, TypeOK
<1>2. k \in Unanswered(b) /\ Unanswered(b) \ {k} = batch[b].left \ {k}
  BY <1>1 DEF AnswersNow, Unanswered
<1>3. b \in Busy
  BY <1>1, <1>2 DEF Busy, Idle, Unanswered
<1>4. CASE batch[b].left \ {k} = {}
  <2>1. batch' = [batch EXCEPT ![b] = Idle] /\ Finally(queued, set)
    BY <1>4 DEF GoOn
  <2>2. /\ running' = FALSE /\ pending' = queued /\ scheduled' = scheduled
        /\ IF queued # NoWakes \/ scheduled
           THEN timer' \in UNION {Schedule(t, "normal") : t \in set}
           ELSE timer' \in set
    BY <2>1 DEF Finally
  <2>3. timer' \in Timers
    BY <2>2, ScheduleSets
  <2>4. batch'[b] = Idle /\ batch' \in [Batches -> Batch] /\ \A c \in Batches \ {b} : batch'[c] = batch[c]
    BY <1>1, <2>1, Numbers
  <2>5. Unanswered(b)' = {}
    BY <2>4 DEF Unanswered, Idle
  <2>6. Moved(b)
    BY <2>2, <2>4, <2>5 DEF Moved
  <2>7. (\A t \in set : t # "none" => queued # NoWakes) /\ (scheduled => queued # NoWakes)
          => TimersHaveWakes'
    BY <2>2 DEF TimersHaveWakes
  <2> QED
    BY <1>2, <1>3, <1>4, <2>2, <2>3, <2>6, <2>7
<1>5. CASE batch[b].left \ {k} # {}
  <2>1. /\ batch' = [batch EXCEPT ![b].left = @ \ {k}, ![b].at = NoKey]
        /\ pending' = queued /\ timer' \in set /\ scheduled' = scheduled /\ running' = running
    BY <1>5 DEF GoOn
  <2> DEFINE new == [batch[b] EXCEPT !.left = @ \ {k}, !.at = NoKey]
  <2>2. /\ new \in Batch /\ new.left = batch[b].left \ {k} /\ new.at = NoKey
        /\ new.taken = batch[b].taken /\ new.by = batch[b].by
    BY <1>1 DEF Batch
  <2>3. batch' = [batch EXCEPT ![b] = new]
    BY <1>1, <2>1
  <2> HIDE DEF new
  <2>4. /\ batch'[b] = new /\ batch' \in [Batches -> Batch]
        /\ \A c \in Batches \ {b} : batch'[c] = batch[c]
    BY <1>1, <2>2, <2>3
  <2>5. Unanswered(b)' = batch[b].left \ {k}
    BY <2>2, <2>4 DEF Unanswered
  <2>6. new # Idle
    BY <1>5, <2>2 DEF Idle
  <2>7. Moved(b)
    BY <1>2, <1>5, <2>1, <2>2, <2>4, <2>5, <2>6 DEF Moved
  <2>8. (\A t \in set : t # "none" => queued # NoWakes) /\ (scheduled => queued # NoWakes)
          => TimersHaveWakes'
    BY <2>1 DEF TimersHaveWakes
  <2> QED
    BY <1>1, <1>2, <1>3, <2>1, <2>2, <2>4, <2>5, <2>7, <2>8
<1> QED
  BY <1>4, <1>5

(* What the runner's answer does to its timer. *)
LEMMA ScheduleNextMoves ==
  ASSUME HInv, NEW s \in Runners \cup {NoRunner}, ScheduleNext(s)
  PROVE  /\ due' \in [Runners -> BOOLEAN] /\ muted' \in BOOLEAN
         /\ \A r \in Runners : r = handler /\ runner[r] = "on" /\ agents[r] =>
              /\ due[r] => due'[r]
              /\ muted => muted' \/ due'[r]
              /\ s = r => due'[r]
<1>1. due \in [Runners -> BOOLEAN] /\ agents \in [Runners -> BOOLEAN] /\ muted \in BOOLEAN
  BY DEF HInv, TypeOK
<1>2. CASE s = NoRunner \/ runner[s] = "stopped"
  BY <1>1, <1>2, Numbers DEF ScheduleNext
<1>3. CASE s \in Runners /\ runner[s] # "stopped"
  BY <1>1, <1>3 DEF ScheduleNext
<1> QED
  BY <1>2, <1>3

LEMMA SettleMoves ==
  ASSUME HInv, NEW b \in Batches, NEW k \in Keys, Settle(b, k)
  PROVE  /\ owed' \in Wakes
         /\ \A j \in Keys \ {k} : owed'[j] = owed[j]
         /\ owed'[k] = None \/ (owed'[k] = owed[k] /\ ~(owed[k] <= batch[b].taken[k]))
BY TypesAre DEF HInv, Settle, Wakes

LEMMA CallHandlerKeeps ==
  ASSUME HInv, NEW b \in Batches, NEW k \in Keys, CallHandler(b, k)
  PROVE  HInv'
<1> DEFINE r == batch[b].by
<1>1. /\ batch \in [Batches -> Batch] /\ pending \in Wakes /\ owed \in Wakes
      /\ timer \in Timers /\ NoKey \notin Keys /\ muted \in BOOLEAN
      /\ agents \in [Runners -> BOOLEAN] /\ handler \in Runners \cup {NoRunner}
  BY TypesAre, KeysAssumption DEF HInv, TypeOK
<1>2. /\ k \in batch[b].left /\ batch[b].at = NoKey
      /\ UNCHANGED <<registration, enabled, runners, requests>>
  BY DEF CallHandler
<1>3. b \in Busy
  BY <1>2 DEF Busy, Idle
<1>4. RunnersPart'
  BY <1>2, RunnersStay DEF HInv, runners
<1>5. CASE AnswersDisabled(r)
  <2>1. /\ GoOn(b, k, pending, {timer}) /\ Settle(b, k)
        /\ muted' = (muted \/ (r = handler /\ agents[r]))
    BY <1>5 DEF CallHandler
  <2>2. {timer} \in SUBSET Timers /\ AnswersNow(b, k)
    BY <1>1, <1>2 DEF AnswersNow
  <2>3. /\ Moved(b) /\ pending' = pending /\ timer' \in Timers /\ scheduled' = scheduled
        /\ running' \in BOOLEAN
        /\ \A j \in Unanswered(b) \ {k} : j \in Unanswered(b)' /\ batch'[b].taken = batch[b].taken
        /\ TimersHaveWakes'
    BY <1>1, <2>1, <2>2, GoOnMoves DEF HInv, TimersHaveWakes
  <2>4. /\ owed' \in Wakes /\ \A j \in Keys \ {k} : owed'[j] = owed[j]
        /\ owed'[k] = None \/ (owed'[k] = owed[k] /\ ~(owed[k] <= batch[b].taken[k]))
    BY <2>1, SettleMoves
  <2>5. TypeOK'
    BY <1>1, <1>2, <2>1, <2>3, <2>4
    DEF HInv, TypeOK, Moved, Wakes, Timers, Batch, registration, runners
  <2>6. WakeIsKept'
    <3>1. \A j \in Keys : pending[j] <= pending'[j]
      BY <1>1, <2>3, Numbers DEF Wakes
    <3> QED
      BY <1>1, <2>3, <2>4, <3>1, WakesMove
  <2>7. BatchesPart'
    BY <1>2, <1>3, <2>3, BatchMoves DEF registration
  <2>8. LastGoesOn'
    BY <1>2, <2>1, <2>3, LastMoves DEF runners
  <2> QED
    BY <1>4, <2>3, <2>5, <2>6, <2>7, <2>8 DEF HInv
<1>6. CASE ~AnswersDisabled(r)
  <2>1. /\ batch' = [batch EXCEPT ![b].left = @ \ {k}, ![b].at = k]
        /\ UNCHANGED <<wakes, owed, muted>>
    BY <1>6 DEF CallHandler
  <2> DEFINE new == [batch[b] EXCEPT !.left = @ \ {k}, !.at = k]
  <2>2. /\ new \in Batch /\ new.left = batch[b].left \ {k} /\ new.at = k
        /\ new.taken = batch[b].taken /\ new.by = batch[b].by
    BY <1>1 DEF Batch
  <2>3. batch' = [batch EXCEPT ![b] = new]
    BY <1>1, <2>1
  <2> HIDE DEF new
  <2>4. /\ batch'[b] = new /\ batch' \in [Batches -> Batch]
        /\ \A c \in Batches \ {b} : batch'[c] = batch[c]
    BY <1>1, <2>2, <2>3
  <2>5. Unanswered(b)' = Unanswered(b) /\ Unanswered(b)' # {}
    BY <1>1, <1>2, <2>2, <2>4 DEF Unanswered
  <2>6. new # Idle
    BY <1>1, <2>2 DEF Idle
  <2>7. Moved(b)
    BY <2>1, <2>2, <2>4, <2>5, <2>6 DEF Moved, wakes
  <2>8. TypeOK'
    BY <1>2, <2>1, <2>4 DEF HInv, TypeOK, Wakes, Batch, wakes, registration, runners
  <2>9. WakeIsKept'
    <3>1. \A j \in Keys : pending[j] <= pending'[j]
      BY <1>1, <2>1, Numbers DEF Wakes, wakes
    <3>2. \A j \in Keys : j \in Unanswered(b)' \/ j \notin Unanswered(b)
      BY <2>5
    <3> QED
      BY <1>1, <2>1, <2>2, <2>4, <2>7, <3>1, <3>2, WakesMove DEF wakes
  <2>10. BatchesPart'
    BY <1>2, <1>3, <2>7, BatchMoves DEF registration
  <2>11. LastGoesOn'
    BY <1>1, <1>2, <2>1, <2>2, <2>4, <2>7, LastMoves DEF runners, wakes
  <2>12. TimersHaveWakes'
    BY <2>1 DEF HInv, TimersHaveWakes, wakes
  <2> QED
    BY <1>4, <2>8, <2>9, <2>10, <2>11, <2>12 DEF HInv
<1> QED
  BY <1>5, <1>6

(* What the three answers of a call have in common. *)
LEMMA AnswerKeeps ==
  ASSUME HInv, NEW b \in Batches, batch[b].at # NoKey,
         NEW queued \in Wakes, NEW set \in SUBSET Timers,
         GoOn(b, batch[b].at, queued, set),
         (\A t \in set : t # "none" => queued # NoWakes) /\ (scheduled => queued # NoWakes),
         \A j \in Keys : pending[j] <= queued[j],
         UNCHANGED <<registration, enabled, runner, agents, requests>>,
         due' \in [Runners -> BOOLEAN], muted' \in BOOLEAN,
         \A r \in Runners : r = handler /\ runner[r] = "on" /\ agents[r] =>
              /\ due[r] => due'[r]
              /\ muted => muted' \/ due'[r]
              /\ batch[b].by # r \/ due'[r] \/ queued[All] # None,
         \/ Settle(b, batch[b].at)
         \/ owed' = owed /\ batch[b].taken[batch[b].at] <= queued[batch[b].at]
  PROVE  HInv'
<1> DEFINE k == batch[b].at
<1>1. /\ batch \in [Batches -> Batch] /\ pending \in Wakes /\ owed \in Wakes
      /\ NoKey \notin Keys
  BY TypesAre, KeysAssumption DEF HInv, TypeOK
<1>2. k \in Keys /\ AnswersNow(b, k)
  BY <1>1 DEF Batch, AnswersNow
<1>3. /\ b \in Busy /\ Moved(b) /\ pending' = queued /\ timer' \in Timers /\ scheduled' = scheduled
      /\ running' \in BOOLEAN
      /\ \A j \in Unanswered(b) \ {k} : j \in Unanswered(b)' /\ batch'[b].taken = batch[b].taken
      /\ TimersHaveWakes'
  BY <1>2, GoOnMoves
<1>4. /\ owed' \in Wakes /\ \A j \in Keys \ {k} : owed'[j] = owed[j]
      /\ \/ owed'[k] = None
         \/ owed'[k] = owed[k] /\ ~(owed[k] <= batch[b].taken[k])
         \/ owed'[k] = owed[k] /\ batch[b].taken[k] <= queued[k]
  BY <1>1, <1>2, SettleMoves
<1>5. \A j \in Keys : pending[j] # None => pending'[j] # None
  <2>1. \A j \in Keys : pending[j] \in Nat /\ queued[j] \in Nat
    BY <1>1, Numbers DEF Wakes
  <2> QED
    BY <1>3, <2>1, Numbers
<1>6. TypeOK'
  BY <1>3, <1>4 DEF HInv, TypeOK, Moved, Wakes, Timers, Batch, registration
<1>7. WakeIsKept'
  BY <1>2, <1>3, <1>4, WakesMove
<1>8. BatchesPart' /\ RunnersPart'
  BY <1>3, BatchMoves, RunnersStay DEF registration, HInv
<1>9. LastGoesOn'
  BY <1>3, <1>5, LastMoves DEF Keys
<1> QED
  BY <1>3, <1>6, <1>7, <1>8, <1>9 DEF HInv

LEMMA HandlerAnswersKeeps ==
  ASSUME HInv, NEW b \in Batches, HandlerAnswers(b)
  PROVE  HInv'
<1>1. /\ batch[b].at # NoKey /\ ScheduleNext(batch[b].by)
      /\ GoOn(b, batch[b].at, pending, {timer}) /\ Settle(b, batch[b].at)
      /\ UNCHANGED <<registration, enabled, runner, agents, requests>>
  BY DEF HandlerAnswers
<1>2. /\ batch[b].by \in Runners \cup {NoRunner} /\ pending \in Wakes /\ {timer} \in SUBSET Timers
      /\ \A t \in {timer} : t # "none" => pending # NoWakes
      /\ scheduled => pending # NoWakes
  BY TypesAre DEF HInv, Batch, TimersHaveWakes
<1>3. \A j \in Keys : pending[j] <= pending[j]
  BY <1>2, Numbers DEF Wakes
<1>4. /\ due' \in [Runners -> BOOLEAN] /\ muted' \in BOOLEAN
      /\ \A r \in Runners : r = handler /\ runner[r] = "on" /\ agents[r] =>
           /\ due[r] => due'[r]
           /\ muted => muted' \/ due'[r]
           /\ batch[b].by = r => due'[r]
  BY <1>1, <1>2, ScheduleNextMoves
<1> QED
  BY <1>1, <1>2, <1>3, <1>4, AnswerKeeps

LEMMA RequestsInFlightKeeps ==
  ASSUME HInv, NEW b \in Batches, RequestsInFlight(b)
  PROVE  HInv'
<1> DEFINE k == batch[b].at
           queued == Queue(One(k, batch[b].taken[k]))
           set == Schedule(timer, "retry")
<1>1. /\ k # NoKey
      /\ IF k = All THEN UNCHANGED <<due, muted>> ELSE ScheduleNext(batch[b].by)
      /\ GoOn(b, k, queued, set)
      /\ UNCHANGED <<registration, enabled, runner, agents, requests, owed>>
  BY DEF RequestsInFlight
<1>2. /\ batch \in [Batches -> Batch] /\ pending \in Wakes /\ timer \in Timers
      /\ due \in [Runners -> BOOLEAN] /\ muted \in BOOLEAN
  BY TypesAre DEF HInv, TypeOK
<1>3. /\ batch[b].by \in Runners \cup {NoRunner} /\ k \in Keys
      /\ batch[b].taken[k] \in {None} \cup Priorities
  BY <1>1, <1>2 DEF Batch, Wakes
<1>4. /\ queued \in Wakes
      /\ \A j \in Keys : pending[j] <= queued[j]
      /\ batch[b].taken[k] <= queued[k]
  <2>1. /\ One(k, batch[b].taken[k]) \in Wakes
        /\ One(k, batch[b].taken[k])[k] = batch[b].taken[k]
    BY <1>3, OneIsOne
  <2> QED
    BY <1>2, <1>3, <2>1, QueueIsLarger
<1>5. batch[b].taken[k] # None
  BY <1>1 DEF HInv, BatchesPart, BatchesHoldWakes, Unanswered
<1>6. queued[k] # None /\ queued # NoWakes
  BY <1>3, <1>4, <1>5, SomeWake, Numbers DEF Wakes
<1>7. set \in SUBSET Timers
  BY <1>2, ScheduleSets
<1> HIDE DEF queued, set
<1>8. /\ due' \in [Runners -> BOOLEAN] /\ muted' \in BOOLEAN
      /\ \A r \in Runners : r = handler /\ runner[r] = "on" /\ agents[r] =>
           /\ due[r] => due'[r]
           /\ muted => muted' \/ due'[r]
           /\ batch[b].by # r \/ due'[r] \/ queued[All] # None
  <2>1. CASE k = All
    BY <1>1, <1>2, <1>6, <2>1
  <2>2. CASE k # All
    BY <1>1, <1>3, <2>2, ScheduleNextMoves
  <2> QED
    BY <2>1, <2>2
<1> QED
  BY <1>1, <1>4, <1>6, <1>7, <1>8, AnswerKeeps

LEMMA HandlerThrowsKeeps ==
  ASSUME HInv, NEW b \in Batches, HandlerThrows(b)
  PROVE  HInv'
<1> DEFINE queued == Queue(batch[b].taken)
           set == Schedule(timer, "retry")
<1>1. /\ batch[b].at # NoKey /\ ScheduleNext(batch[b].by)
      /\ batch' = [batch EXCEPT ![b] = Idle] /\ Finally(queued, set)
      /\ UNCHANGED <<registration, enabled, runner, agents, requests, owed>>
  BY DEF HandlerThrows
<1>2. batch \in [Batches -> Batch] /\ pending \in Wakes /\ timer \in Timers
  BY TypesAre DEF HInv
<1>3. /\ batch[b].by \in Runners \cup {NoRunner} /\ batch[b].at \in Keys
      /\ batch[b].taken \in Wakes
  BY <1>1, <1>2 DEF Batch
<1>4. /\ queued \in Wakes
      /\ \A j \in Keys : pending[j] <= queued[j] /\ batch[b].taken[j] <= queued[j]
  BY <1>2, <1>3, QueueIsLarger
<1>5. set \in SUBSET Timers
  BY <1>2, ScheduleSets
<1>6. queued # NoWakes
  <2>1. batch[b].taken[batch[b].at] # None
    BY <1>1 DEF HInv, BatchesPart, BatchesHoldWakes, Unanswered
  <2>2. batch[b].taken[batch[b].at] \in 0..3 /\ queued[batch[b].at] \in 0..3
    BY <1>3, <1>4, Numbers DEF Wakes
  <2>3. queued[batch[b].at] # None
    BY <1>3, <1>4, <2>1, <2>2, Numbers
  <2> QED
    BY <1>3, <1>4, <2>3, SomeWake
<1> HIDE DEF queued, set
<1>7. /\ running' = FALSE /\ pending' = queued /\ scheduled' = scheduled /\ timer' \in Timers
  BY <1>1, <1>5, ScheduleSets DEF Finally
<1>8. b \in Busy
  BY <1>1 DEF Busy, Idle
<1>9. /\ batch'[b] = Idle /\ batch' \in [Batches -> Batch]
      /\ \A c \in Batches \ {b} : batch'[c] = batch[c]
  BY <1>1, <1>2, Numbers
<1>10. Moved(b)
  BY <1>7, <1>9 DEF Moved, Unanswered, Idle
<1>11. /\ due' \in [Runners -> BOOLEAN] /\ muted' \in BOOLEAN
       /\ \A r \in Runners : r = handler /\ runner[r] = "on" /\ agents[r] =>
            /\ due[r] => due'[r]
            /\ muted => muted' \/ due'[r]
            /\ batch[b].by = r => due'[r]
  BY <1>1, <1>3, ScheduleNextMoves
<1>12. TypeOK'
  BY <1>1, <1>4, <1>7, <1>9, <1>11 DEF HInv, TypeOK, Wakes, Timers, Batch, registration
<1>13. WakeIsKept'
  BY <1>1, <1>4, <1>7, <1>10, WakesMove
<1>14. BatchesPart' /\ RunnersPart'
  BY <1>1, <1>8, <1>10, BatchMoves, RunnersStay DEF registration, HInv
<1>15. LastGoesOn'
  <2>1. pending[All] # None => pending'[All] # None
    BY <1>2, <1>4, <1>7, Numbers DEF Wakes, Keys
  <2> QED
    BY <1>1, <1>10, <1>11, <2>1, LastMoves
<1>16. TimersHaveWakes'
  BY <1>6, <1>7 DEF TimersHaveWakes
<1> QED
  BY <1>12, <1>13, <1>14, <1>15, <1>16 DEF HInv

-----------------------------------------------------------------------------
(* Runners.                                                                 *)

LEMMA StartKeeps ==
  ASSUME HInv, NEW r \in Runners, StartHeartbeatRunner(r)
  PROVE  HInv'
<1>1. /\ runner[r] = "new" /\ \A s \in Runners : s < r => runner[s] # "new"
      /\ handler' = r /\ registrations' = registrations + 1
      /\ running' = FALSE /\ scheduled' = FALSE /\ pending' = pending
      /\ timer' = (IF pending # NoWakes THEN "normal" ELSE "none")
      /\ runner' = [runner EXCEPT ![r] = "on"]
      /\ muted' = FALSE
      /\ UNCHANGED <<batch, enabled, requests, owed>>
  BY DEF StartHeartbeatRunner, Register
<1>2. PICK some \in BOOLEAN : /\ agents' = [agents EXCEPT ![r] = some]
                              /\ due' = [due EXCEPT ![r] = some]
  BY DEF StartHeartbeatRunner
<1>3. /\ registrations \in Nat /\ r \in Nat /\ Restarts \in Nat
      /\ runner \in [Runners -> {"new", "on", "stopped"}]
      /\ agents \in [Runners -> BOOLEAN] /\ due \in [Runners -> BOOLEAN]
  BY Numbers DEF HInv, TypeOK
<1>4. r = registrations + 1
  <2>1. r > registrations
    BY <1>1, <1>3 DEF HInv, RunnersPart, StartedInOrder
  <2>2. r - 1 <= registrations
    <3>1. CASE r = 1
      BY <1>3, <3>1
    <3>2. CASE r # 1
      <4>1. r - 1 \in Runners /\ r - 1 < r
        BY <1>3, <3>2, Numbers
      <4> QED
        BY <1>1, <4>1 DEF HInv, RunnersPart, StartedInOrder
    <3> QED
      BY <3>1, <3>2
  <2> QED
    BY <1>3, <2>1, <2>2
<1>5. TypeOK'
  <2>1. registrations' \in 0..Cardinality(Runners)
    BY <1>1, <1>3, <1>4, Numbers
  <2> QED
    BY <1>1, <1>2, <2>1 DEF HInv, TypeOK
<1>6. WakeIsKept'
  BY <1>1 DEF HInv, WakeIsKept, Unanswered
<1>7. RunnersPart'
  BY <1>1, <1>3, <1>4, Numbers DEF HInv, RunnersPart, StartedInOrder, HandlerIsLast
<1>8. BatchesPart'
  <2>1. Busy' = Busy /\ Cardinality(Busy) \in Nat
    BY <1>1, BusyFinite DEF Busy
  <2> QED
    BY <1>1, <1>3, <2>1
    DEF HInv, BatchesPart, BatchesHoldWakes, BusyHaveWork, RegistrationsAllow, Unanswered
<1>9. TimersHaveWakes'
  BY <1>1 DEF TimersHaveWakes
<1>10. LastGoesOn'
  BY <1>1, <1>2, <1>3, <1>4 DEF LastGoesOn, WillRunAgain
<1> QED
  BY <1>5, <1>6, <1>7, <1>8, <1>9, <1>10 DEF HInv

LEMMA StopKeeps ==
  ASSUME HInv, NEW r \in Runners, Stop(r)
  PROVE  HInv'
<1> USE DEF HInv
<1>1. /\ runner[r] = "on"
      /\ runner' = [runner EXCEPT ![r] = "stopped"]
      /\ agents' = [agents EXCEPT ![r] = FALSE]
      /\ due' = [due EXCEPT ![r] = FALSE]
      /\ handler' = (IF handler = r THEN NoRunner ELSE handler)
      /\ UNCHANGED <<wakes, registrations, batch, enabled, requests, muted, owed>>
  BY DEF Stop
<1>2. /\ runner \in [Runners -> {"new", "on", "stopped"}]
      /\ agents \in [Runners -> BOOLEAN] /\ due \in [Runners -> BOOLEAN]
  BY DEF TypeOK
<1>3. TypeOK'
  BY <1>1 DEF TypeOK, wakes
<1>4. WakeIsKept' /\ TimersHaveWakes'
  BY <1>1 DEF WakeIsKept, TimersHaveWakes, Unanswered, wakes
<1>5. BatchesPart'
  BY <1>1, BatchesStay DEF wakes
<1>6. RunnersPart'
  BY <1>1, <1>2 DEF RunnersPart, StartedInOrder, HandlerIsLast
<1>7. LastGoesOn'
  BY <1>1, <1>2 DEF LastGoesOn, WillRunAgain, Unanswered, wakes
<1> QED
  BY <1>3, <1>4, <1>5, <1>6, <1>7

LEMMA UpdateConfigKeeps ==
  ASSUME HInv, NEW r \in Runners, UpdateConfig(r)
  PROVE  HInv'
<1> USE DEF HInv
<1>1. PICK some \in BOOLEAN : /\ agents' = [agents EXCEPT ![r] = some]
                              /\ due' = [due EXCEPT ![r] = some]
  BY DEF UpdateConfig
<1>2. /\ runner[r] = "on" /\ muted' = (muted /\ r # handler)
      /\ UNCHANGED <<wakes, registration, batch, enabled, runner, requests, owed>>
  BY DEF UpdateConfig
<1>3. /\ agents \in [Runners -> BOOLEAN] /\ due \in [Runners -> BOOLEAN] /\ muted \in BOOLEAN
  BY DEF TypeOK
<1>4. TypeOK'
  BY <1>1, <1>2 DEF TypeOK, wakes, registration
<1>5. WakeIsKept' /\ TimersHaveWakes'
  BY <1>2 DEF WakeIsKept, TimersHaveWakes, Unanswered, wakes
<1>6. BatchesPart' /\ RunnersPart'
  BY <1>2, BatchesStay, RunnersStay DEF wakes, registration
<1>7. LastGoesOn'
  <2> SUFFICES ASSUME NEW s \in Runners, s = registrations, runner[s] = "on", agents'[s], ~muted'
               PROVE  WillRunAgain(s)'
    BY <1>2 DEF LastGoesOn, registration
  <2>1. CASE s = r
    BY <1>1, <1>3, <2>1 DEF WillRunAgain
  <2>2. CASE s # r
    <3>1. handler = s /\ agents[s] /\ due'[s] = due[s]
      BY <1>1, <1>3, <2>2 DEF RunnersPart, HandlerIsLast
    <3>2. WillRunAgain(s)
      BY <1>2, <1>3, <2>2, <3>1 DEF LastGoesOn
    <3> QED
      BY <1>2, <3>1, <3>2 DEF WillRunAgain, Unanswered, wakes
  <2> QED
    BY <2>1, <2>2
<1> QED
  BY <1>4, <1>5, <1>6, <1>7

LEMMA NothingMoves ==
  ASSUME HInv, enabled' \in BOOLEAN,
         UNCHANGED <<wakes, registration, batch, runners, requests, muted, owed>>
  PROVE  HInv'
<1> USE DEF HInv, wakes, registration, runners
<1>1. TypeOK'
  BY DEF TypeOK
<1>2. WakeIsKept' /\ TimersHaveWakes'
  BY DEF WakeIsKept, TimersHaveWakes, Unanswered
<1>3. BatchesPart' /\ RunnersPart'
  BY BatchesStay, RunnersStay
<1>4. LastGoesOn'
  BY DEF LastGoesOn, WillRunAgain, Unanswered
<1> QED
  BY <1>1, <1>2, <1>3, <1>4

LEMMA NextKeeps == HInv /\ [Next]_vars => HInv'
<1> SUFFICES ASSUME HInv, [Next]_vars PROVE HInv'
  OBVIOUS
<1>1. CASE UNCHANGED vars \/ SetHeartbeatsEnabled
  BY <1>1, NothingMoves DEF vars, SetHeartbeatsEnabled, HInv, TypeOK
<1>2. ASSUME NEW r \in Runners,
             StartHeartbeatRunner(r) \/ Stop(r) \/ UpdateConfig(r) \/ IntervalTimer(r)
      PROVE  HInv'
  BY <1>2, StartKeeps, StopKeeps, UpdateConfigKeeps, IntervalTimerKeeps
<1>3. ASSUME NEW b \in Batches, BatchStep(b)
      PROVE  HInv'
  BY <1>3, CallHandlerKeeps, HandlerAnswersKeeps, RequestsInFlightKeeps, HandlerThrowsKeeps
  DEF BatchStep
<1>4. CASE Fire
  BY <1>4, FireWithoutHandlerKeeps, FireWhileRunningKeeps, FireBatchKeeps DEF Fire
<1> QED
  BY <1>1, <1>2, <1>3, <1>4, RequestHeartbeatNowKeeps DEF Next

(* In every reachable state of wake layer and runners, however often the    *)
(* gateway starts anew and whatever is asked for, the invariant holds.      *)
THEOREM Invariance == Spec => []HInv
BY InitHolds, NextKeeps, PTL DEF Spec

-----------------------------------------------------------------------------
(* The theorems.                                                            *)

(* The state of heartbeat-wake.ts and heartbeat-runner.ts has its types.    *)
THEOREM TypeCorrect == Spec => []TypeOK
<1>1. HInv => TypeOK
  BY DEF HInv
<1> QED
  BY <1>1, Invariance, PTL

(* heartbeat-wake.ts loses no wake and lowers the priority of none, through *)
(* coalescing, retries, failures and new registrations.                     *)
THEOREM NoWakeIsLost == Spec => []WakeIsKept
<1>1. HInv => WakeIsKept
  BY DEF HInv
<1> QED
  BY <1>1, Invariance, PTL

(* The flag running keeps batches apart, and each registration, which       *)
(* resets it, costs at most one overlap.                                    *)
THEOREM OverlapIsBounded == Spec => []OverlapOnlyAfterRestart
<1>1. HInv => OverlapOnlyAfterRestart
  <2> SUFFICES ASSUME HInv PROVE Cardinality(Busy) <= Larger(registrations, 1)
    BY DEF OverlapOnlyAfterRestart, Busy
  <2>1. Cardinality(Busy) \in Nat /\ registrations \in Nat
    BY BusyFinite, Numbers DEF Busy, HInv, TypeOK
  <2> QED
    BY <2>1 DEF HInv, BatchesPart, RegistrationsAllow, Larger
<1> QED
  BY <1>1, Invariance, PTL

(* The heartbeat of the runner started last goes on, whatever older ones    *)
(* and their batches still do.                                              *)
THEOREM LastRunnerGoesOn == Spec => []HeartbeatGoesOn
<1>1. HInv => HeartbeatGoesOn
  <2> SUFFICES ASSUME HInv, NEW r \in Runners, LastStarted(r), runner[r] = "on", agents[r]
               PROVE  handler = r /\ (muted \/ WillRunAgain(r))
    BY DEF HeartbeatGoesOn
  <2>1. registrations \in 0..(Restarts + 1) /\ Restarts \in Nat
    BY Numbers DEF HInv, TypeOK
  <2>2. r <= registrations /\ registrations \in Runners
    BY <2>1, Numbers DEF HInv, RunnersPart, StartedInOrder
  <2>3. ~(registrations > r)
    BY <2>1, <2>2 DEF LastStarted, HInv, RunnersPart, StartedInOrder
  <2>4. r = registrations
    BY <2>1, <2>2, <2>3, Numbers
  <2> QED
    BY <2>4 DEF HInv, RunnersPart, HandlerIsLast, LastGoesOn
<1> QED
  BY <1>1, Invariance, PTL
=============================================================================
