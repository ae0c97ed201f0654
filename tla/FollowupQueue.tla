---------------------------- MODULE FollowupQueue ----------------------------
(***************************************************************************)
(* The followup queue of one session key, src/auto-reply/reply/queue/*.ts   *)
(* over src/utils/queue-helpers.ts: messages that arrive while the agent is *)
(* busy are queued, dropped by policy, and drained in agent turns.          *)
(*                                                                          *)
(* A queue is an object: a drain keeps the reference it began with, while   *)
(* the registry FOLLOWUP_QUEUES may drop the object and create another for  *)
(* the same key.  A drain awaits the debounce, the run of a turn and, where *)
(* it calls drainCollectQueueStep or drainNextQueueItem, their answer; what *)
(* lies between is one action, and messages may arrive at each await.  The  *)
(* only caller of enqueue leaves restartIfIdle off and asks itself whether  *)
(* the run it found active still is.  Every enqueue brings a callback with  *)
(* it, so the table of remembered callbacks has no variable here.  A        *)
(* summary is a list of lines; the messages it stands for are what matters  *)
(* of it.                                                                   *)
(***************************************************************************)
EXTENDS Naturals, Sequences, FiniteSets

CONSTANTS
  Messages,     \* the messages, told apart by message id and routing
  Route,        \* the routing key of a message; Unkeyed or Cross when it has none
  Auth,         \* resolveFollowupAuthorizationKey of a message's run
  Settings,     \* the queue settings an enqueue may bring
  DefaultCap,   \* DEFAULT_QUEUE_CAP, scaled down
  MaxClears     \* bound: how often the session's queues are cleared

Unkeyed == "unkeyed"
Cross == "cross"
Modes == {"collect", "followup"}   \* the drain tells collect from every other mode
DropPolicies == {"old", "new", "summarize"}

(* Queue objects, reused once no drain and no registry entry knows them: a  *)
(* clear detaches at most one, so one more than the clears is enough.       *)
Objects == 1..(MaxClears + 1)

ASSUME SettingsAssumption == Settings \subseteq [mode : Modes, cap : Nat, dropPolicy : DropPolicies]
ASSUME CapAssumption == DefaultCap \in Nat \ {0}
ASSUME ClearsAssumption == MaxClears \in Nat

VARIABLES
  queues,      \* the queue objects
  current,     \* FOLLOWUP_QUEUES.get(key): an object, or 0
  recent,      \* RECENT_QUEUE_MESSAGE_IDS
  run,         \* the agent turn of the session that is not a followup:
               \* "none", "active", or "finalizing" once it is not active any more
  clears,      \* how often clearSessionQueues ran
  accepted,    \* history: the messages enqueued, in order
  ran,         \* history: the messages whose turn succeeded, in order
  evicted,     \* history: the messages the drop policy took off a queue
  cleared      \* history: the messages a clear took away

history == <<accepted, ran, evicted, cleared>>
vars == <<queues, current, recent, run, clears, history>>

(* What drainCollectQueueStep and drainNextQueueItem answer; "none" is the  *)
(* latter's false.                                                          *)
Answers == {"skipped", "empty", "drained", "none"}

(* alone: the turn of drainNextQueueItem, for one item. *)
NoTurn == [msgs |-> <<>>, pops |-> 0, summary |-> FALSE, alone |-> FALSE]

NewQueue ==
  [items |-> <<>>, mode |-> "collect", cap |-> DefaultCap, dropPolicy |-> "summarize",
   dropped |-> {}, lastRun |-> FALSE,
   drain |-> "idle", turn |-> NoTurn, groups |-> <<>>, forceIndividual |-> FALSE,
   late |-> {}]   \* history: those that came since the drain compared the targets

Init ==
  /\ queues = [o \in Objects |-> NewQueue]
  /\ current = 0
  /\ recent = {}
  /\ run = "active"
  /\ clears = 0
  /\ accepted = <<>>
  /\ ran = <<>>
  /\ evicted = {}
  /\ cleared = {}

MembersOf(s) == {s[i] : i \in 1..Len(s)}

DropFirst(s, n) == SubSeq(s, n + 1, Len(s))

HasWork(q) == q.items # <<>> \/ q.dropped # {}

-----------------------------------------------------------------------------
(* Enqueueing.                                                              *)

RawCap(q, s) == s.cap

(* A cap that is not positive leaves the one in force. *)
EffectiveCap(q, s) == IF s.cap > 0 THEN s.cap ELSE q.cap

ApplySettings(q, s) ==
  [q EXCEPT !.mode = s.mode, !.cap = EffectiveCap(q, s), !.dropPolicy = s.dropPolicy]

Full(q) == Len(q.items) >= q.cap

(* How many items go to make room for one more. *)
Overflow(q) == IF Full(q) THEN Len(q.items) - q.cap + 1 ELSE 0

Overflowing(q) == MembersOf(SubSeq(q.items, 1, Overflow(q)))

MakeRoom(q) ==
  [q EXCEPT !.items = DropFirst(q.items, Overflow(q)),
            !.dropped = IF q.dropPolicy = "summarize" THEN @ \cup Overflowing(q) ELSE @]

Push(q, m) ==
  [q EXCEPT !.items = Append(@, m), !.lastRun = TRUE,
            !.late = IF q.drain = "skipped" THEN @ \cup {m} ELSE @]

-----------------------------------------------------------------------------
(* What a drain does next.                                                  *)

PendingSummary(q) == q.dropPolicy = "summarize" /\ q.dropped # {}

NeverCrossChannel(items) == FALSE

HasCrossChannelItems(items) ==
  LET routes == {Route[m] : m \in MembersOf(items)}
  IN  \/ Cross \in routes
      \/ Cardinality(routes) > 1

(* The longest prefix of one authorization. *)
FirstGroup(items) ==
  LET one(n) == \A i \in 1..n : Auth[items[i]] = Auth[items[1]]
      end == CHOOSE n \in 1..Len(items) : one(n) /\ (n < Len(items) => ~one(n + 1))
  IN  SubSeq(items, 1, end)

RunItem(q) ==
  [q EXCEPT !.drain = "running", !.groups = <<>>,
            !.turn = [msgs |-> <<Head(q.items)>>, pops |-> 1, summary |-> FALSE, alone |-> TRUE]]

(* A turn for the summary; in followup mode it takes the routing of the     *)
(* first item, and the item with it.                                        *)
RunSummary(q, pops) ==
  [q EXCEPT !.drain = "running", !.groups = <<>>,
            !.turn = [msgs |-> <<>>, pops |-> pops, summary |-> TRUE, alone |-> pops > 0]]

RunGroup(q, items, summary) ==
  LET group == FirstGroup(items)
  IN  [q EXCEPT !.drain = "running",
                !.groups = DropFirst(items, Len(group)),
                !.turn = [msgs |-> group, pops |-> Len(group), summary |-> summary,
                          alone |-> FALSE]]

Answering(q, answer) == [q EXCEPT !.drain = answer]

(* drainCollectQueueStep, up to the run it awaits or to its answer. *)
CollectStep(q) ==
  LET next == [q EXCEPT !.forceIndividual = @ \/ HasCrossChannelItems(q.items)]
  IN  CASE ~next.forceIndividual -> Answering(next, "skipped")
        [] next.forceIndividual /\ q.items = <<>> -> Answering(next, "empty")
        [] next.forceIndividual /\ q.items # <<>> -> RunItem(next)

(* The same of drainNextQueueItem, in the modes that do not collect. *)
FollowupStep(q) ==
  CASE q.items = <<>> -> Answering(q, "none")
    [] q.items # <<>> /\ PendingSummary(q) -> RunSummary(q, 1)
    [] q.items # <<>> /\ ~PendingSummary(q) -> RunItem(q)

NextStep(q) == IF q.mode = "collect" THEN CollectStep(q) ELSE FollowupStep(q)

(* The items and the summary that a successful run has used up.  The items  *)
(* go at once, the summary once the answer is there.                        *)
UsedUpWithoutSplice(q) == q

UsedUp(q) == [q EXCEPT !.items = DropFirst(@, q.turn.pops)]

SummaryTold(q) == [q EXCEPT !.dropped = IF q.turn.summary THEN {} ELSE @]

Drained(q) == [q EXCEPT !.drain = "drained", !.turn = [NoTurn EXCEPT !.summary = q.turn.summary]]

Idle(q) == [q EXCEPT !.drain = "idle", !.turn = NoTurn, !.groups = <<>>, !.forceIndividual = FALSE,
                           !.late = {}]

Debouncing(q) == [q EXCEPT !.drain = "debounce", !.turn = NoTurn, !.groups = <<>>, !.late = {}]

(* scheduleFollowupDrain, over the objects qs: a drain that finds no work   *)
(* goes straight to its finally and deletes the queue.                      *)
ScheduleFor(c, qs) ==
  IF c = 0 \/ qs[c].drain # "idle"
  THEN /\ queues' = qs
       /\ current' = c
  ELSE IF HasWork(qs[c])
  THEN /\ queues' = [qs EXCEPT ![c] = Debouncing(@)]
       /\ current' = c
  ELSE /\ queues' = qs
       /\ current' = 0

Schedule(qs) == ScheduleFor(current, qs)

EndWithoutReschedule(o, q) ==
  /\ queues' = [queues EXCEPT ![o] = Idle(q)]
  /\ current' = IF HasWork(q) THEN current ELSE 0

(* The finally of a drain of o, whose queue is then q: the registry entry   *)
(* goes by key, whichever object it holds.                                  *)
EndDrain(o, q) ==
  IF HasWork(q)
  THEN Schedule([queues EXCEPT ![o] = Idle(q)])
  ELSE /\ queues' = [queues EXCEPT ![o] = Idle(q)]
       /\ current' = 0

-----------------------------------------------------------------------------
(* Actions.                                                                 *)

FreeObject == CHOOSE o \in Objects : queues[o].drain = "idle"

(* isRunActive: a turn of the session is active, be it a followup. *)
MayFindRunActive(is) ==
  /\ run = "active" => is
  /\ is => run = "active" \/ \E o \in Objects : queues[o].drain = "running"

(* A message that found the run active is enqueued, by enqueueFollowupRun;  *)
(* the run may be over by then, and the drain is scheduled right here.  The *)
(* object is fetched or created, and takes the settings, before the message *)
(* is found to be a duplicate or refused.                                   *)
Enqueue(m, s, isActive) ==
  LET o == IF current = 0 THEN FreeObject ELSE current
      q == ApplySettings(IF current = 0 THEN NewQueue ELSE queues[o], s)
      known == m \in recent \cup MembersOf(q.items)
      refused == Full(q) /\ q.dropPolicy = "new"
      Store(next) ==
        LET qs == [queues EXCEPT ![o] = next]
        IN  IF isActive THEN queues' = qs /\ current' = o ELSE ScheduleFor(o, qs)
  IN  /\ MayFindRunActive(isActive)
      /\ \/ /\ known
            /\ Store(q)
            /\ UNCHANGED <<recent, history>>
         \/ /\ ~known
            /\ refused
            /\ Store([q EXCEPT !.lastRun = TRUE])
            /\ UNCHANGED <<recent, history>>
         \/ /\ ~known
            /\ ~refused
            /\ Store(Push(MakeRoom(q), m))
            /\ recent' = recent \cup {m}
            /\ accepted' = Append(accepted, m)
            /\ evicted' = evicted \cup Overflowing(q)
            /\ UNCHANGED <<ran, cleared>>
      /\ UNCHANGED <<run, clears>>

(* A turn that is not a followup: it begins, is not active any more, and    *)
(* then finalizes.                                                          *)
RunBegins ==
  /\ run = "none"
  /\ run' = "active"
  /\ UNCHANGED <<queues, current, recent, clears, history>>

RunOver ==
  /\ run = "active"
  /\ run' = "finalizing"
  /\ UNCHANGED <<queues, current, recent, clears, history>>

FinalizeWithFollowup ==
  /\ run = "finalizing"
  /\ run' = "none"
  /\ Schedule(queues)
  /\ UNCHANGED <<recent, clears, history>>

(* The body of the while loop, up to its first await after the debounce. *)
DebounceOver(o) ==
  LET q == queues[o]
  IN  /\ q.drain = "debounce"
      /\ IF q.mode # "collect" /\ PendingSummary(q) /\ ~q.lastRun
         THEN EndDrain(o, q)
         ELSE /\ queues' = [queues EXCEPT ![o] = NextStep(q)]
              /\ UNCHANGED current
      /\ UNCHANGED <<recent, run, clears, history>>

(* The targets did not differ when they were compared: the items that are   *)
(* there by now are the batch.                                              *)
CollectBatch(o) ==
  LET q == queues[o]
  IN  /\ q.drain = "skipped"
      /\ q.items # <<>>
      /\ queues' = [queues EXCEPT ![o] = RunGroup(q, q.items, PendingSummary(q))]
      /\ UNCHANGED <<current, recent, run, clears, history>>

(* There was nothing to collect, or it is gone by now: a summary may be     *)
(* left to tell.                                                            *)
CollectSummary(o) ==
  LET q == queues[o]
  IN  /\ q.drain = "empty" \/ (q.drain = "skipped" /\ q.items = <<>>)
      /\ IF PendingSummary(q) /\ q.lastRun
         THEN /\ queues' = [queues EXCEPT ![o] = RunSummary(q, 0)]
              /\ UNCHANGED current
         ELSE EndDrain(o, q)
      /\ UNCHANGED <<recent, run, clears, history>>

NothingDrained(o) ==
  /\ queues[o].drain = "none"
  /\ EndDrain(o, queues[o])
  /\ UNCHANGED <<recent, run, clears, history>>

(* Back at the head of the loop, with the queue q. *)
GoRound(o, q) ==
  IF HasWork(q)
  THEN /\ queues' = [queues EXCEPT ![o] = Debouncing(q)]
       /\ UNCHANGED current
  ELSE EndDrain(o, q)

ItemDrained(o) ==
  /\ queues[o].drain = "drained"
  /\ GoRound(o, SummaryTold(queues[o]))
  /\ UNCHANGED <<recent, run, clears, history>>

TurnSucceeds(o) ==
  LET q == UsedUp(queues[o])
  IN  /\ q.drain = "running"
      /\ ran' = ran \o q.turn.msgs
      /\ IF q.turn.alone
         THEN /\ queues' = [queues EXCEPT ![o] = Drained(q)]
              /\ UNCHANGED current
         ELSE IF q.groups # <<>>
         THEN /\ queues' = [queues EXCEPT ![o] = RunGroup(SummaryTold(q), q.groups, FALSE)]
              /\ UNCHANGED current
         ELSE GoRound(o, SummaryTold(q))
      /\ UNCHANGED <<recent, run, clears, accepted, evicted, cleared>>

TurnFailsForGood(o) ==
  /\ queues[o].drain = "running"
  /\ EndDrain(o, SummaryTold(UsedUp(queues[o])))
  /\ UNCHANGED <<recent, run, clears, history>>

TurnFailsToTheBack(o) ==
  LET q == queues[o]
      n == IF q.turn.pops < Len(q.items) THEN q.turn.pops ELSE Len(q.items)
  IN  /\ q.drain = "running"
      /\ EndDrain(o, [q EXCEPT !.items = DropFirst(@, n) \o SubSeq(@, 1, n)])
      /\ UNCHANGED <<recent, run, clears, history>>

TurnFails(o) ==
  /\ queues[o].drain = "running"
  /\ EndDrain(o, queues[o])
  /\ UNCHANGED <<recent, run, clears, history>>

(* clearSessionQueues, for this key.  A drain in flight keeps its object.   *)
ClearSessionQueues ==
  /\ current # 0
  /\ clears < MaxClears
  /\ queues' = [queues EXCEPT ![current].items = <<>>, ![current].dropped = {},
                              ![current].lastRun = FALSE]
  /\ cleared' = cleared \cup MembersOf(queues[current].items) \cup queues[current].dropped
  /\ current' = 0
  /\ clears' = clears + 1
  /\ UNCHANGED <<recent, run, accepted, ran, evicted>>

DrainStep(o) ==
  \/ DebounceOver(o)
  \/ CollectBatch(o)
  \/ CollectSummary(o)
  \/ NothingDrained(o)
  \/ ItemDrained(o)

Next ==
  \/ \E m \in Messages, s \in Settings, isActive \in BOOLEAN : Enqueue(m, s, isActive)
  \/ RunBegins
  \/ RunOver
  \/ FinalizeWithFollowup
  \/ \E o \in Objects : DrainStep(o) \/ TurnSucceeds(o) \/ TurnFails(o)
  \/ ClearSessionQueues

Spec == Init /\ [][Next]_vars

(* The turn that keeps the agent busy ends and finalizes; a debounce ends,  *)
(* and an answer is taken up; a turn that is retried for ever succeeds      *)
(* once.                                                                    *)
FairSpec ==
  /\ Spec
  /\ WF_vars(RunOver) /\ WF_vars(FinalizeWithFollowup)
  /\ \A o \in Objects : WF_vars(DrainStep(o)) /\ SF_vars(TurnSucceeds(o))

-----------------------------------------------------------------------------
(* Properties.                                                              *)

Turn == [msgs : Seq(Messages), pops : Nat, summary : BOOLEAN, alone : BOOLEAN]

Queue ==
  [items : Seq(Messages), mode : Modes, cap : Nat \ {0}, dropPolicy : DropPolicies,
   dropped : SUBSET Messages, lastRun : BOOLEAN,
   drain : {"idle", "debounce", "running"} \cup Answers, turn : Turn,
   groups : Seq(Messages), forceIndividual : BOOLEAN, late : SUBSET Messages]

TypeOK ==
  /\ queues \in [Objects -> Queue]
  /\ current \in {0} \cup Objects
  /\ recent \in SUBSET Messages
  /\ run \in {"none", "active", "finalizing"}
  /\ clears \in 0..MaxClears
  /\ accepted \in Seq(Messages)
  /\ ran \in Seq(Messages)
  /\ evicted \in SUBSET Messages
  /\ cleared \in SUBSET Messages

(* A message waits in the object the registry holds, or in one a drain      *)
(* still works on.                                                          *)
Waiting(m) ==
  \E o \in Objects :
    /\ o = current \/ queues[o].drain # "idle"
    /\ m \in MembersOf(queues[o].items)

(* While no queue overflowed and none was cleared, every accepted message   *)
(* waits until its turn has succeeded: failed turns, restarted drains and   *)
(* batches that split or fail half way lose none.                           *)
AcceptedIsKept ==
  evicted = {} /\ clears = 0 => \A m \in MembersOf(accepted) : Waiting(m) \/ m \in MembersOf(ran)

(* docs/concepts/queue.md:30 has a message enqueued "for the next agent     *)
(* turn": it waits until it has run, unless the drop policy or a clear took *)
(* it.                                                                      *)
AcceptedIsRunOrDropped ==
  \A m \in MembersOf(accepted) :
    Waiting(m) \/ m \in MembersOf(ran) \/ m \in evicted \/ m \in cleared

(* No message is answered twice, redelivered, retried or batched as it may  *)
(* be, and whatever overflowed or was cleared while its turn ran.           *)
RunsAtMostOnce == \A i, j \in 1..Len(ran) : ran[i] = ran[j] => i = j

(* Turns succeed in the order the messages were accepted in, as long as no  *)
(* clear sets a second drain beside the first.                              *)
RunsInOrder ==
  clears = 0 =>
    \A i, j \in 1..Len(ran), a, b \in 1..Len(accepted) :
      i < j /\ ran[i] = accepted[a] /\ ran[j] = accepted[b] => a < b

(* docs/concepts/queue.md:31: a turn answers messages of one target only.   *)
(* The code does not keep this, see OnlyLateArrivalsMix; no run checks it.  *)
TurnsDoNotMixTargets ==
  \A o \in Objects : \A m, n \in MembersOf(queues[o].turn.msgs) : Route[m] = Route[n]

(* A turn answers messages of one authorization, and of one target but for  *)
(* those that came in the one moment between the comparison of the targets  *)
(* and the forming of the batch: those that came before, or while an        *)
(* earlier group of the batch was run, never mix.                           *)
OnlyLateArrivalsMix ==
  \A o \in Objects : \A m, n \in MembersOf(queues[o].turn.msgs) :
    /\ Auth[m] = Auth[n]
    /\ Route[m] = Route[n] \/ {m, n} \cap queues[o].late # {}

(* An accepted message is run in the end, unless an overflow or a clear     *)
(* intervenes: no drain is forgotten.                                       *)
AcceptedIsRun ==
  \A m \in Messages :
    (m \in MembersOf(accepted)) ~> (m \in MembersOf(ran) \/ evicted # {} \/ clears > 0)
=============================================================================
