---------------------------- MODULE DeliveryQueue ----------------------------
(***************************************************************************)
(* The write-ahead queue of outbound messages: deliverOutboundPayloads in   *)
(* src/infra/outbound/deliver.ts writes an entry before it sends, and       *)
(* delivery-queue-recovery.ts sends again what is left, once after a start  *)
(* (recovery) and whenever a channel reconnects (drains).                   *)
(*                                                                          *)
(* Workers are the live calls, named by the delivery they make, and the     *)
(* passes.  Every await on a file or on the channel ends an action, but for *)
(* the scan at the head of a pass, whose result is only a list of ids to    *)
(* look at again.  A delivery is sent as a whole or not: what a channel     *)
(* took of one that failed half way is not told apart from nothing.  A file *)
(* operation succeeds or leaves the file as it was, for writes go through a *)
(* temporary file.  The .delivered markers have no variable: whoever finds  *)
(* one only unlinks it.  An entry was attempted (lastAttemptAt) exactly if  *)
(* its retryCount is not 0; how much time passed since is left open.        *)
(***************************************************************************)
EXTENDS Naturals, Sequences, FiniteSets

CONSTANTS
  Deliveries,   \* the calls of deliverOutboundPayloads, which are their entries' ids
  BestEffort,   \* those with bestEffort
  Reporting,    \* those whose caller gave an onError
  DrainKeys,    \* the drain keys
  Matches,      \* the deliveries a drain key selects
  MaxRetries,   \* MAX_RETRIES, scaled down
  MaxCrashes    \* bound: how often the process dies

Recovery == "recovery"
Passes == {Recovery} \cup DrainKeys
Workers == Deliveries \cup Passes

ASSUME BestEffortAssumption == BestEffort \subseteq Deliveries /\ Reporting \subseteq Deliveries
ASSUME PassesAssumption == Deliveries \cap Passes = {} /\ Recovery \notin DrainKeys
ASSUME MatchesAssumption == Matches \in [DrainKeys -> SUBSET Deliveries]
ASSUME BoundsAssumption == MaxRetries \in Nat \ {0} /\ MaxCrashes \in Nat

VARIABLES
  pending,      \* the deliveries with an {id}.json
  retryCount,   \* the retryCount in it, 0 where there is none
  failed,       \* the deliveries with a file in failed/
  step,         \* what a worker is at
  entry,        \* with which entry; itself if it holds none
  read,         \* the retryCount it read there
  todo,         \* the entries a pass has still to look at
  claims,       \* entriesInProgress
  deferral,     \* the failDelivery calls of deferRemainingEntriesForBudget
  deferralRead, \* the retryCount they read
  recovered,    \* whether this process began its recovery
  crashes,      \* how often the process died
  enqueued,     \* the deliveries written ahead, by enqueuedAt
  sent,         \* history: the deliveries the channel took
  aborted,      \* history: the deliveries called off, by the caller or by a hook
  settled       \* history: the deliveries sent with success, until their ack fails or
                \* is cut off by a crash, or a deferral writes the entry back

files == <<pending, retryCount, failed>>
worker == <<step, entry, read>>
deferrals == <<deferral, deferralRead>>
memory == <<worker, todo, claims, deferrals, recovered>>
history == <<enqueued, sent, aborted, settled>>
vars == <<files, memory, crashes, history>>

Steps == {"idle", "written", "direct", "loading", "sending", "acking", "unlinking",
          "failing", "writing", "moving", "pruning", "done"}

Init ==
  /\ pending = {}
  /\ retryCount = [d \in Deliveries |-> 0]
  /\ failed = {}
  /\ step = [w \in Workers |-> "idle"]
  /\ entry = [w \in Workers |-> w]
  /\ read = [w \in Workers |-> 0]
  /\ todo = [p \in Passes |-> {}]
  /\ claims = {}
  /\ deferral = [d \in Deliveries |-> "none"]
  /\ deferralRead = [d \in Deliveries |-> 0]
  /\ recovered = FALSE
  /\ crashes = 0
  /\ enqueued = <<>>
  /\ sent = {}
  /\ aborted = {}
  /\ settled = {}

MembersOf(s) == {s[i] : i \in 1..Len(s)}

Goto(w, next) ==
  /\ step' = [step EXCEPT ![w] = next]
  /\ UNCHANGED <<entry, read>>

(* claimRecoveryEntry *)
ClaimFreely(d) == TRUE
CanClaim(d) == d \notin claims

(* A worker that is through with its entry; a live call keeps its own. *)
Leave(w) ==
  /\ step' = [step EXCEPT ![w] = IF w \in Passes THEN "idle" ELSE "done"]
  /\ entry' = [entry EXCEPT ![w] = w]
  /\ read' = [read EXCEPT ![w] = 0]

LetGoWithoutRelease(w) == Leave(w) /\ UNCHANGED claims

(* The finally of withActiveDeliveryClaim and of the body of a pass's loop. *)
LetGo(w) == Leave(w) /\ claims' = claims \ {entry[w]}

WriteEntry(d, count) ==
  /\ pending' = pending \cup {d}
  /\ retryCount' = [retryCount EXCEPT ![d] = count]

(* The entry leaves the queue, by a rename. *)
RemoveEntry(d) ==
  /\ pending' = pending \ {d}
  /\ retryCount' = [retryCount EXCEPT ![d] = 0]

-----------------------------------------------------------------------------
(* The live call, up to its send.                                           *)

EnqueueDelivery(d) ==
  /\ step[d] = "idle"
  /\ \/ /\ WriteEntry(d, 0)
        /\ enqueued' = Append(enqueued, d)
        /\ Goto(d, "written")
     \/ /\ Goto(d, "direct")     \* the write failed: sent without an entry
        /\ UNCHANGED <<pending, retryCount, enqueued>>
  /\ UNCHANGED <<failed, todo, claims, deferrals, recovered, crashes,
                 sent, aborted, settled>>

SendDirectly(d) ==
  /\ step[d] = "direct"
  /\ Goto(d, "done")
  /\ sent' \in {sent, sent \cup {d}}
  /\ UNCHANGED <<files, todo, claims, deferrals, recovered, crashes,
                 enqueued, aborted, settled>>

(* withActiveDeliveryClaim: a pass may have found the entry already. *)
StartLive(d) ==
  /\ step[d] = "written"
  /\ IF CanClaim(d)
     THEN Goto(d, "sending") /\ claims' = claims \cup {d}
     ELSE Goto(d, "done") /\ UNCHANGED claims
  /\ UNCHANGED <<files, todo, deferrals, recovered, crashes, history>>

-----------------------------------------------------------------------------
(* Sending, by a live call or a pass.                                       *)

(* A pass may claim an entry in the moment between the rename that wrote it *)
(* and the next turn of its live call, but the channel does not answer      *)
(* within that moment.                                                      *)
SendEnds(w) ==
  /\ step[w] = "sending"
  /\ step[entry[w]] # "written"

SendSucceeds(w) ==
  /\ SendEnds(w)
  /\ Goto(w, "acking")
  /\ sent' = sent \cup {entry[w]}
  /\ settled' = settled \cup {entry[w]}
  /\ UNCHANGED <<files, todo, claims, deferrals, recovered, crashes, enqueued, aborted>>

(* A message_sending hook cancels, or a live call without bestEffort ends   *)
(* in an AbortError: from its abort signal, or from an adapter that gave up *)
(* by itself.                                                               *)
SendAborted(w) ==
  /\ SendEnds(w)
  /\ Goto(w, "acking")
  /\ aborted' = aborted \cup {entry[w]}
  /\ UNCHANGED <<files, todo, claims, deferrals, recovered, crashes, enqueued, sent, settled>>

(* With bestEffort the failure of a payload is not thrown, and without an   *)
(* onError it is not noticed.  A pass has no onError.                       *)
FailsUnnoticed(w) ==
  /\ entry[w] \in BestEffort
  /\ w \in Passes \/ w \notin Reporting

SendFailsAndIsAcked(w) ==
  /\ SendEnds(w)
  /\ Goto(w, "acking")
  /\ UNCHANGED <<files, todo, claims, deferrals, recovered, crashes, history>>

(* The channel may have taken the message by then: what is thrown after its *)
(* send, by a required pin or by the mirror in the transcript, is a failure *)
(* too.  What is thrown outside the loop over the payloads is noticed even  *)
(* with bestEffort.                                                         *)
SendFails(w) ==
  /\ SendEnds(w)
  /\ Goto(w, "failing") \/ (FailsUnnoticed(w) /\ Goto(w, "acking"))
  /\ sent' \in {sent, sent \cup {entry[w]}}
  /\ UNCHANGED <<files, todo, claims, deferrals, recovered, crashes, enqueued, aborted, settled>>

(* isPermanentDeliveryError: only passes ask. *)
SendFailsForGood(p) ==
  /\ SendEnds(p)
  /\ Goto(p, "moving")
  /\ sent' \in {sent, sent \cup {entry[p]}}
  /\ UNCHANGED <<files, todo, claims, deferrals, recovered, crashes, enqueued, aborted, settled>>

-----------------------------------------------------------------------------
(* What follows a send.                                                     *)

(* ackDelivery up to its rename.  A live call swallows an error; in a pass  *)
(* it counts as a failed attempt.                                           *)
AckDelivery(w) ==
  LET d == entry[w]
  IN  /\ step[w] = "acking"
      /\ \/ /\ d \in pending
            /\ RemoveEntry(d)
            /\ Goto(w, "unlinking")
            /\ UNCHANGED <<claims, settled>>
         \/ /\ d \notin pending
            /\ LetGo(w)
            /\ UNCHANGED <<pending, retryCount, settled>>
         \/ /\ d \in pending
            /\ IF w \in Passes THEN Goto(w, "failing") /\ UNCHANGED claims ELSE LetGo(w)
            /\ settled' = settled \ {d}
            /\ UNCHANGED <<pending, retryCount>>
      /\ UNCHANGED <<failed, todo, deferrals, recovered, crashes, enqueued, sent, aborted>>

UnlinkMarker(w) ==
  /\ step[w] = "unlinking"
  /\ LetGo(w)
  /\ UNCHANGED <<files, todo, deferrals, recovered, crashes, history>>

(* failDelivery reads the entry and writes it back. *)
FailDelivery(w) ==
  LET d == entry[w]
  IN  /\ step[w] = "failing"
      /\ IF d \in pending
         THEN /\ step' = [step EXCEPT ![w] = "writing"]
              /\ read' = [read EXCEPT ![w] = retryCount[d]]
              /\ UNCHANGED <<entry, claims>>
         ELSE LetGo(w)
      /\ UNCHANGED <<files, todo, deferrals, recovered, crashes, history>>

WriteFailure(w) ==
  LET d == entry[w]
  IN  /\ step[w] = "writing"
      /\ \/ WriteEntry(d, read[w] + 1)
         \/ UNCHANGED <<pending, retryCount>>
      /\ LetGo(w)
      /\ UNCHANGED <<failed, todo, deferrals, recovered, crashes, history>>

(* moveToFailed.  A drain that cannot prune an entry throws.                *)
MoveToFailed(p) ==
  LET d == entry[p]
  IN  /\ step[p] \in {"moving", "pruning"}
      /\ \/ /\ d \in pending
            /\ RemoveEntry(d)
            /\ failed' = failed \cup {d}
            /\ UNCHANGED todo
         \/ /\ d \notin pending
            /\ UNCHANGED <<pending, retryCount, failed, todo>>
         \/ /\ d \in pending
            /\ todo' = IF p # Recovery /\ step[p] = "pruning"
                       THEN [todo EXCEPT ![p] = {}] ELSE todo
            /\ UNCHANGED <<pending, retryCount, failed>>
      /\ LetGo(p)
      /\ UNCHANGED <<deferrals, recovered, crashes,
                     enqueued, sent, aborted, settled>>

-----------------------------------------------------------------------------
(* The passes.                                                              *)

InProgress(p) == todo[p] # {} \/ step[p] # "idle"

(* loadPendingDeliveries, and the selection from its result.                *)
BeginPass(p) ==
  /\ ~InProgress(p)
  /\ p = Recovery => ~recovered
  /\ recovered' = (recovered \/ p = Recovery)
  /\ todo' = [todo EXCEPT ![p] = IF p = Recovery THEN pending ELSE pending \cap Matches[p]]
  /\ UNCHANGED <<files, worker, claims, deferrals, crashes, history>>

(* A pass looks at its entries in the order they were enqueued in. *)
OldestOf(d, S) ==
  \E i \in 1..Len(enqueued) : enqueued[i] = d /\ \A j \in 1..(i - 1) : enqueued[j] \notin S

ClaimNext(p) ==
  \E d \in todo[p] :
    /\ OldestOf(d, todo[p])
    /\ step[p] = "idle"
    /\ todo' = [todo EXCEPT ![p] = @ \ {d}]
    /\ IF CanClaim(d)
       THEN /\ claims' = claims \cup {d}
            /\ step' = [step EXCEPT ![p] = "loading"]
            /\ entry' = [entry EXCEPT ![p] = d]
            /\ UNCHANGED read
       ELSE UNCHANGED <<claims, worker>>
    /\ UNCHANGED <<files, deferrals, recovered, crashes, history>>

(* isEntryEligibleForRecoveryRetry: at once after a crash, in time later. *)
MayBeEarly(d) == retryCount[d] > 0

LoadStale(p) ==
  /\ step[p] = "loading"
  /\ Goto(p, "sending")
  /\ UNCHANGED <<files, todo, claims, deferrals, recovered, crashes, history>>

LoadAndPruneLate(p) ==
  LET d == entry[p]
  IN  /\ step[p] = "loading"
      /\ \/ /\ d \notin pending \/ MayBeEarly(d)
            /\ LetGo(p)
         \/ /\ d \in pending
            /\ Goto(p, IF retryCount[d] > MaxRetries THEN "pruning" ELSE "sending")
            /\ UNCHANGED claims
      /\ UNCHANGED <<files, todo, deferrals, recovered, crashes, history>>

(* loadPendingDelivery and what the pass makes of its answer. *)
LoadPendingDelivery(p) ==
  LET d == entry[p]
  IN  /\ step[p] = "loading"
      /\ \/ /\ d \notin pending
            /\ LetGo(p)
         \/ /\ d \in pending
            /\ retryCount[d] >= MaxRetries
            /\ Goto(p, "pruning")
            /\ UNCHANGED claims
         \/ /\ d \in pending
            /\ retryCount[d] < MaxRetries
            /\ Goto(p, "sending")
            /\ UNCHANGED claims
         \/ /\ d \in pending
            /\ retryCount[d] < MaxRetries
            /\ MayBeEarly(d)
            /\ LetGo(p)
      /\ UNCHANGED <<files, todo, deferrals, recovered, crashes, history>>

(* The recovery's time is up: every entry it has left is failed, all at     *)
(* once and claimed or not.                                                 *)
BudgetExceeded ==
  /\ todo[Recovery] # {}
  /\ step[Recovery] = "idle"
  /\ todo' = [todo EXCEPT ![Recovery] = {}]
  /\ deferral' = [d \in Deliveries |-> IF d \in todo[Recovery] THEN "reading" ELSE "none"]
  /\ UNCHANGED <<files, worker, claims, deferralRead, recovered, crashes, history>>

DeferRead(d) ==
  /\ deferral[d] = "reading"
  /\ deferral' = [deferral EXCEPT ![d] = IF d \in pending THEN "writing" ELSE "none"]
  /\ deferralRead' = [deferralRead EXCEPT ![d] = retryCount[d]]
  /\ UNCHANGED <<files, worker, todo, claims, recovered, crashes, history>>

DeferWrite(d) ==
  /\ deferral[d] = "writing"
  /\ WriteEntry(d, deferralRead[d] + 1)
  /\ settled' = IF d \in pending THEN settled ELSE settled \ {d}
  /\ deferral' = [deferral EXCEPT ![d] = "none"]
  /\ deferralRead' = [deferralRead EXCEPT ![d] = 0]
  /\ UNCHANGED <<failed, worker, todo, claims, recovered, crashes,
                 enqueued, sent, aborted>>

-----------------------------------------------------------------------------

(* The process dies and is started again. *)
Crash ==
  /\ crashes < MaxCrashes
  /\ crashes' = crashes + 1
  /\ step' = [w \in Workers |-> IF w \in Passes \/ step[w] = "idle" THEN "idle" ELSE "done"]
  /\ entry' = [w \in Workers |-> w]
  /\ read' = [w \in Workers |-> 0]
  /\ todo' = [p \in Passes |-> {}]
  /\ claims' = {}
  /\ deferral' = [d \in Deliveries |-> "none"]
  /\ deferralRead' = [d \in Deliveries |-> 0]
  /\ recovered' = FALSE
  /\ settled' = settled \ {entry[w] : w \in {v \in Workers : step[v] = "acking"}}
  /\ UNCHANGED <<files, enqueued, sent, aborted>>

LiveStep(d) ==
  \/ StartLive(d)
  \/ SendDirectly(d)

PassStep(p) ==
  \/ ClaimNext(p)
  \/ LoadPendingDelivery(p)
  \/ SendFailsForGood(p)
  \/ MoveToFailed(p)

WorkerStep(w) ==
  \/ w \in Deliveries /\ LiveStep(w)
  \/ w \in Passes /\ PassStep(w)
  \/ SendSucceeds(w)
  \/ SendAborted(w)
  \/ SendFails(w)
  \/ AckDelivery(w)
  \/ UnlinkMarker(w)
  \/ FailDelivery(w)
  \/ WriteFailure(w)

DeferStep(d) == DeferRead(d) \/ DeferWrite(d)

Next ==
  \/ \E d \in Deliveries : EnqueueDelivery(d) \/ DeferStep(d)
  \/ \E p \in Passes : BeginPass(p)
  \/ \E w \in Workers : WorkerStep(w)
  \/ BudgetExceeded
  \/ Crash

Spec == Init /\ [][Next]_vars

(* What is begun goes on: file operations end, and so does every send, in   *)
(* success or failure.  Nothing makes calls or passes begin.                *)
FairSpec == Spec /\ \A w \in Workers : WF_vars(WorkerStep(w))

-----------------------------------------------------------------------------
(* Properties.                                                              *)

(* Only deferrals, one for each start, take a retryCount past MAX_RETRIES.  *)
TypeOK ==
  /\ pending \subseteq Deliveries
  /\ retryCount \in [Deliveries -> 0..(MaxRetries + MaxCrashes + 1)]
  /\ failed \subseteq Deliveries
  /\ step \in [Workers -> Steps]
  /\ entry \in [Workers -> Workers]
  /\ read \in [Workers -> Nat]
  /\ todo \in [Passes -> SUBSET Deliveries]
  /\ claims \subseteq Deliveries
  /\ deferral \in [Deliveries -> {"none", "reading", "writing"}]
  /\ deferralRead \in [Deliveries -> Nat]
  /\ recovered \in BOOLEAN
  /\ crashes \in 0..MaxCrashes
  /\ enqueued \in Seq(Deliveries)
  /\ \A h \in {sent, aborted, settled} : h \subseteq Deliveries

(* deliver.ts:649, "persist before sending, remove after success": what was *)
(* written ahead is sent, called off, or still to be found in the queue or  *)
(* in failed/, whatever fails and whenever the process dies.                *)
CompleteOrKept ==
  \A d \in MembersOf(enqueued) : d \in sent \cup aborted \cup pending \cup failed

(* The same of the deliveries without bestEffort, whose failures are thrown. *)
ThrowingIsKept ==
  \A d \in MembersOf(enqueued) \ BestEffort : d \in sent \cup aborted \cup pending \cup failed

(* A live call, a recovery and drains of several keys never send one entry  *)
(* at the same time, nor does one send what another is about to ack.        *)
OneSender ==
  \A v, w \in Workers :
    /\ step[v] \in {"sending", "acking", "failing", "writing", "moving"}
    /\ step[w] \in {"sending", "acking", "failing", "writing", "moving"}
    /\ entry[v] = entry[w]
    => v = w

(* A message whose sending succeeded is not sent again, by whichever pass   *)
(* looks at its entry and however old its snapshot is, unless something     *)
(* went wrong since: its ack failed or a crash cut it off, or a deferral    *)
(* wrote the entry back.  Each further sending needs a cause of its own.    *)
SettledIsNotResent == \A w \in Workers : step[w] = "sending" => entry[w] \notin settled

(* What the queue promises holds of all its files, passes and crashes: see  *)
(* Delivery.  What lies in failed/ is kept.                                 *)
Abstract == INSTANCE Delivery WITH
  accepted <- MembersOf(enqueued),
  kept <- (pending \cup failed)

ImplementsDelivery == Abstract!Spec

(* A claim is given up in the end, by whichever way its worker leaves: one  *)
(* that is kept hides the entry from every pass of this process.            *)
ClaimsAreReleased == \A d \in Deliveries : (d \in claims) ~> (d \notin claims)
=============================================================================
