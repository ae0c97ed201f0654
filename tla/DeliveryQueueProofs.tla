------------------------ MODULE DeliveryQueueProofs ------------------------
(***************************************************************************)
(* Safety proofs for DeliveryQueue, and that it implements Delivery, for    *)
(* any deliveries, drain keys, retries and number of crashes.               *)
(***************************************************************************)
EXTENDS DeliveryQueue, SequenceTheorems, TLAPS

Enqueued == MembersOf(enqueued)

(* The steps of a worker that has a claim, those that follow its send, and  *)
(* those at which the attempt is still to be counted.                       *)
Holding == {"loading", "sending", "acking", "unlinking", "failing", "writing", "moving", "pruning"}
AfterSend == {"acking", "unlinking", "failing", "writing", "moving"}
Uncounted == {"sending", "acking", "failing", "writing"}

(* A live call keeps its own entry; a pass has nothing or holds one that    *)
(* was enqueued.                                                            *)
WorkersFit ==
  /\ \A d \in Deliveries :
       /\ entry[d] = d
       /\ step[d] \notin {"loading", "moving", "pruning"}
  /\ \A p \in Passes :
       /\ step[p] \in Holding \cup {"idle"}
       /\ step[p] \in Holding => entry[p] \in Enqueued

(* Who holds an entry has claimed it, alone.                                *)
ClaimsFit ==
  /\ \A w \in Workers : step[w] \in Holding => entry[w] \in claims
  /\ \A v, w \in Workers :
       /\ step[v] \in Holding
       /\ step[w] \in Holding
       /\ entry[v] = entry[w]
       => v = w

(* What the files, the passes and the deferral know was enqueued, and a     *)
(* call that has not enqueued its delivery is known to nobody.              *)
EntriesFit ==
  /\ pending \subseteq Enqueued
  /\ \A p \in Passes : todo[p] \subseteq Enqueued
  /\ \A d \in Deliveries : deferral[d] # "none" => d \in Enqueued
  /\ \A d \in Deliveries : step[d] \in {"idle", "direct"} => d \notin Enqueued

(* Until a live call has gone past its claim, nobody has settled its entry. *)
FreshFit ==
  /\ \A d \in Deliveries : step[d] \in {"idle", "direct", "written"} => d \notin settled
  /\ \A w \in Workers :
       step[w] \in AfterSend => step[entry[w]] # "written"

(* An entry that is to be sent, or its failure to be written, is there.     *)
KeptFit ==
  /\ \A d \in Deliveries : step[d] = "written" => d \in pending \cup failed
  /\ \A w \in Workers : step[w] = "sending" => entry[w] \in pending \cup failed
  /\ \A w \in Workers : step[w] = "writing" => entry[w] \in pending

(* What is acked may be, and what is settled and pending is being acked.    *)
AcksFit ==
  /\ \A w \in Workers :
       step[w] = "acking" => entry[w] \in sent \cup aborted \cup BestEffort
  /\ \A d \in settled \cap pending :
       \E w \in Workers : step[w] = "acking" /\ entry[w] = d

(* This process will not defer d any more. *)
Spent(d) == recovered /\ todo[Recovery] = {} /\ deferral[d] = "none"

(* How far retryCount may have come: one more for each life of the process, *)
(* once its deferral is spent.                                              *)
Budget(d) == MaxRetries + crashes + (IF Spent(d) THEN 1 ELSE 0)

DeferralsFit ==
  /\ todo[Recovery] # {} => recovered
  /\ \A d \in Deliveries : deferral[d] # "none" => recovered /\ todo[Recovery] = {}

CountsFit ==
  /\ \A d \in Deliveries : retryCount[d] <= Budget(d)
  /\ \A w \in Workers :
       step[w] \in Uncounted => retryCount[entry[w]] < Budget(entry[w])
  /\ \A w \in Workers : step[w] = "writing" =>
       /\ read[w] < Budget(entry[w])
       /\ ~Spent(entry[w]) => read[w] = retryCount[entry[w]]
  /\ \A d \in Deliveries : step[d] = "written" =>
       \/ retryCount[d] = 0 /\ d \in pending
       \/ retryCount[d] \in {0, 1} /\ Spent(d)

(* An entry whose live call has yet to start is given up by a pass only     *)
(* after a deferral counted it.                                             *)
PrunesFit ==
  \A p \in Passes : step[p] = "pruning" /\ step[entry[p]] = "written" => Spent(entry[p])

(* What a deferral has read is not more than what the entry says, and       *)
(* leaves room for who is at the entry.                                     *)
ReadsFit ==
  \A d \in Deliveries : deferral[d] = "writing" =>
    /\ deferralRead[d] <= MaxRetries + crashes
    /\ d \in pending => deferralRead[d] <= retryCount[d]
    /\ step[d] = "written" => deferralRead[d] < MaxRetries + crashes
    /\ \A w \in Workers :
         step[w] \in Uncounted /\ entry[w] = d => deferralRead[d] < MaxRetries + crashes

IInv ==
  /\ TypeOK
  /\ WorkersFit
  /\ ClaimsFit
  /\ EntriesFit
  /\ FreshFit
  /\ KeptFit
  /\ AcksFit
  /\ DeferralsFit
  /\ CountsFit
  /\ PrunesFit
  /\ ReadsFit
  /\ ThrowingIsKept
  /\ SettledIsNotResent

-----------------------------------------------------------------------------
(* Facts about the operators of the model.                                  *)

LEMMA MembersOfAppend ==
  ASSUME NEW S, NEW s \in Seq(S), NEW e \in S
  PROVE  MembersOf(Append(s, e)) = MembersOf(s) \cup {e}
BY AppendProperties, LenProperties DEF MembersOf

LEMMA MembersOfType ==
  ASSUME NEW S, NEW s \in Seq(S)
  PROVE  MembersOf(s) \subseteq S
BY ElementOfSeq DEF MembersOf

LEMMA WorkersAre ==
  /\ Workers = Deliveries \cup Passes
  /\ Recovery \in Passes
  /\ \A d \in Deliveries : d \notin Passes
BY PassesAssumption DEF Workers, Passes

(* Who holds an entry holds it alone, and its live call has enqueued it.    *)
LEMMA HeldEntries ==
  ASSUME IInv, NEW w \in Workers, step[w] \in Holding
  PROVE  /\ entry[w] \in Deliveries
         /\ step[entry[w]] \notin {"idle", "direct"}
         /\ entry[w] \in claims
         /\ \A v \in Workers \ {w} : step[v] \in Holding => entry[v] # entry[w]
         /\ w \in Deliveries => entry[w] = w
<1>1. Enqueued \subseteq Deliveries
  BY MembersOfType DEF IInv, TypeOK, Enqueued
<1>2. CASE w \in Deliveries
  <2>1. entry[w] = w
    BY <1>2 DEF IInv, WorkersFit
  <2>2. step[w] \in {"sending", "acking", "unlinking", "failing", "writing"}
    BY <1>2 DEF IInv, WorkersFit, Holding
  <2> QED
    BY <1>2, <2>1, <2>2 DEF IInv, ClaimsFit
<1>3. CASE w \in Passes
  BY <1>1, <1>3, WorkersAre DEF IInv, WorkersFit, ClaimsFit, EntriesFit
<1> QED
  BY <1>2, <1>3, WorkersAre

-----------------------------------------------------------------------------
(* The operations.                                                          *)

LEMMA SendSucceedsKeeps ==
  ASSUME IInv, NEW w \in Workers, SendSucceeds(w)
  PROVE  IInv'
<1> USE WorkersAre DEF IInv
<1>1. step[w] = "sending" /\ step[entry[w]] # "written" /\ sent' = sent \cup {entry[w]}
      /\ settled' = settled \cup {entry[w]}
  BY DEF SendSucceeds, SendEnds
<1>2. /\ pending' = pending /\ retryCount' = retryCount /\ failed' = failed
      /\ entry' = entry /\ read' = read /\ todo' = todo /\ claims' = claims
      /\ deferral' = deferral /\ deferralRead' = deferralRead
      /\ recovered' = recovered /\ crashes' = crashes
      /\ enqueued' = enqueued /\ aborted' = aborted
      /\ Enqueued' = Enqueued
  BY DEF SendSucceeds, Goto, files, deferrals, Enqueued
<1>3. /\ step' \in [Workers -> Steps]
      /\ \A v \in Workers : step'[v] = IF v = w THEN "acking" ELSE step[v]
  BY DEF SendSucceeds, Goto, TypeOK, Steps
<1>4. /\ entry[w] \in Deliveries /\ entry[w] \in claims
      /\ step[entry[w]] \notin {"idle", "direct"}
      /\ \A v \in Workers \ {w} : step[v] \in Holding => entry[v] # entry[w]
      /\ w \in Deliveries => entry[w] = w
  BY <1>1, HeldEntries DEF Holding
<1>5. TypeOK'
  BY <1>1, <1>2, <1>3, <1>4 DEF TypeOK
<1>6. WorkersFit'
  BY <1>1, <1>2, <1>3 DEF WorkersFit, Holding
<1>7. ClaimsFit'
  BY <1>1, <1>2, <1>3 DEF ClaimsFit, Holding
<1>8. EntriesFit'
  BY <1>2, <1>3 DEF EntriesFit
<1>9. FreshFit'
  BY <1>1, <1>2, <1>3, <1>4 DEF FreshFit, AfterSend, TypeOK
<1>10. KeptFit'
  BY <1>2, <1>3 DEF KeptFit
<1>11. AcksFit'
  BY <1>1, <1>2, <1>3 DEF AcksFit
<1>12. DeferralsFit'
  BY <1>2 DEF DeferralsFit
<1>13. CountsFit'
  BY <1>1, <1>2, <1>3 DEF CountsFit, Budget, Spent, Uncounted
<1>14. PrunesFit'
  <2> SUFFICES ASSUME NEW p \in Passes, step'[p] = "pruning", step'[entry'[p]] = "written"
               PROVE  Spent(entry[p])'
    BY DEF PrunesFit
  <2>1. step[p] = "pruning" /\ entry'[p] = entry[p]
    BY <1>1, <1>2, <1>3, <1>4
  <2>2. entry[p] \in Deliveries
    BY <2>1, HeldEntries DEF Holding
  <2>3. step[entry[p]] = "written"
    BY <1>1, <1>2, <1>3, <1>4, <2>1, <2>2
  <2> QED
    BY <1>1, <1>2, <1>3, <1>4, <2>1, <2>2, <2>3 DEF PrunesFit, Spent
<1>15. ReadsFit'
  BY <1>1, <1>2, <1>3 DEF ReadsFit, Uncounted
<1>16. ThrowingIsKept'
  BY <1>1, <1>2 DEF ThrowingIsKept, Enqueued
<1>17. SettledIsNotResent'
  BY <1>1, <1>2, <1>3, <1>4 DEF SettledIsNotResent, Holding, TypeOK
<1> QED
  BY <1>5, <1>6, <1>7, <1>8, <1>9, <1>10, <1>11, <1>12, <1>13, <1>14, <1>15, <1>16, <1>17

LEMMA SendAbortedKeeps ==
  ASSUME IInv, NEW w \in Workers, SendAborted(w)
  PROVE  IInv'
<1> USE WorkersAre DEF IInv
<1>1. step[w] = "sending" /\ step[entry[w]] # "written" /\ aborted' = aborted \cup {entry[w]}
  BY DEF SendAborted, SendEnds
<1>2. /\ pending' = pending /\ retryCount' = retryCount /\ failed' = failed
      /\ entry' = entry /\ read' = read /\ todo' = todo /\ claims' = claims
      /\ deferral' = deferral /\ deferralRead' = deferralRead
      /\ recovered' = recovered /\ crashes' = crashes
      /\ enqueued' = enqueued /\ sent' = sent /\ settled' = settled
      /\ Enqueued' = Enqueued
  BY DEF SendAborted, Goto, files, deferrals, Enqueued
<1>3. /\ step' \in [Workers -> Steps]
      /\ \A v \in Workers : step'[v] = IF v = w THEN "acking" ELSE step[v]
  BY DEF SendAborted, Goto, TypeOK, Steps
<1>4. /\ entry[w] \in Deliveries /\ entry[w] \in claims
      /\ step[entry[w]] \notin {"idle", "direct"}
      /\ \A v \in Workers \ {w} : step[v] \in Holding => entry[v] # entry[w]
      /\ w \in Deliveries => entry[w] = w
  BY <1>1, HeldEntries DEF Holding
<1>5. TypeOK'
  BY <1>1, <1>2, <1>3, <1>4 DEF TypeOK
<1>6. WorkersFit'
  BY <1>1, <1>2, <1>3 DEF WorkersFit, Holding
<1>7. ClaimsFit'
  BY <1>1, <1>2, <1>3 DEF ClaimsFit, Holding
<1>8. EntriesFit'
  BY <1>2, <1>3 DEF EntriesFit
<1>9. FreshFit'
  BY <1>1, <1>2, <1>3, <1>4 DEF FreshFit, AfterSend, TypeOK
<1>10. KeptFit'
  BY <1>2, <1>3 DEF KeptFit
<1>11. AcksFit'
  BY <1>1, <1>2, <1>3, <1>4 DEF AcksFit
<1>12. DeferralsFit'
  BY <1>2 DEF DeferralsFit
<1>13. CountsFit'
  BY <1>1, <1>2, <1>3 DEF CountsFit, Budget, Spent, Uncounted
<1>14. PrunesFit'
  <2> SUFFICES ASSUME NEW p \in Passes, step'[p] = "pruning", step'[entry'[p]] = "written"
               PROVE  Spent(entry[p])'
    BY DEF PrunesFit
  <2>1. step[p] = "pruning" /\ entry'[p] = entry[p]
    BY <1>1, <1>2, <1>3, <1>4
  <2>2. entry[p] \in Deliveries
    BY <2>1, HeldEntries DEF Holding
  <2>3. step[entry[p]] = "written"
    BY <1>1, <1>2, <1>3, <1>4, <2>1, <2>2
  <2> QED
    BY <1>1, <1>2, <1>3, <1>4, <2>1, <2>2, <2>3 DEF PrunesFit, Spent
<1>15. ReadsFit'
  BY <1>1, <1>2, <1>3 DEF ReadsFit, Uncounted
<1>16. ThrowingIsKept'
  BY <1>1, <1>2 DEF ThrowingIsKept, Enqueued
<1>17. SettledIsNotResent'
  BY <1>2, <1>3 DEF SettledIsNotResent
<1> QED
  BY <1>5, <1>6, <1>7, <1>8, <1>9, <1>10, <1>11, <1>12, <1>13, <1>14, <1>15, <1>16, <1>17

LEMMA SendFailsKeeps ==
  ASSUME IInv, NEW w \in Workers, SendFails(w)
  PROVE  IInv'
<1> USE WorkersAre DEF IInv
<1>1. /\ step[w] = "sending" /\ step[entry[w]] # "written"
      /\ step'[w] \in {"acking", "failing"}
      /\ step'[w] = "acking" => entry[w] \in BestEffort
  BY DEF SendFails, SendEnds, FailsUnnoticed, Goto, TypeOK
<1>2. /\ pending' = pending /\ retryCount' = retryCount /\ failed' = failed
      /\ entry' = entry /\ read' = read /\ todo' = todo /\ claims' = claims
      /\ deferral' = deferral /\ deferralRead' = deferralRead
      /\ recovered' = recovered /\ crashes' = crashes
      /\ enqueued' = enqueued /\ aborted' = aborted
      /\ settled' = settled
      /\ Enqueued' = Enqueued
  BY DEF SendFails, Goto, files, deferrals, Enqueued
<1>3. /\ step' \in [Workers -> Steps]
      /\ \A v \in Workers : step'[v] = IF v = w THEN step'[w] ELSE step[v]
  BY DEF SendFails, Goto, TypeOK, Steps
<1>4. /\ entry[w] \in Deliveries /\ entry[w] \in claims
      /\ step[entry[w]] \notin {"idle", "direct"}
      /\ \A v \in Workers \ {w} : step[v] \in Holding => entry[v] # entry[w]
      /\ w \in Deliveries => entry[w] = w
  BY <1>1, HeldEntries DEF Holding
<1>4a. sent \subseteq sent' /\ sent' \subseteq sent \cup {entry[w]}
  BY DEF SendFails
<1>5. TypeOK'
  BY <1>2, <1>3, <1>4, <1>4a DEF TypeOK
<1>6. WorkersFit'
  BY <1>1, <1>2, <1>3 DEF WorkersFit, Holding
<1>7. ClaimsFit'
  BY <1>1, <1>2, <1>3 DEF ClaimsFit, Holding
<1>8. EntriesFit'
  BY <1>1, <1>2, <1>3 DEF EntriesFit
<1>9. FreshFit'
  BY <1>1, <1>2, <1>3, <1>4 DEF FreshFit, AfterSend, TypeOK
<1>10. KeptFit'
  BY <1>1, <1>2, <1>3 DEF KeptFit
<1>11. AcksFit'
  BY <1>1, <1>2, <1>3, <1>4a DEF AcksFit
<1>12. DeferralsFit'
  BY <1>2 DEF DeferralsFit
<1>13. CountsFit'
  BY <1>1, <1>2, <1>3 DEF CountsFit, Budget, Spent, Uncounted
<1>14. PrunesFit'
  <2> SUFFICES ASSUME NEW p \in Passes, step'[p] = "pruning", step'[entry'[p]] = "written"
               PROVE  Spent(entry[p])'
    BY DEF PrunesFit
  <2>1. step[p] = "pruning" /\ entry'[p] = entry[p]
    BY <1>1, <1>2, <1>3, <1>4
  <2>2. entry[p] \in Deliveries
    BY <2>1, HeldEntries DEF Holding
  <2>3. step[entry[p]] = "written"
    BY <1>1, <1>2, <1>3, <1>4, <2>1, <2>2
  <2> QED
    BY <1>1, <1>2, <1>3, <1>4, <2>1, <2>2, <2>3 DEF PrunesFit, Spent
<1>15. ReadsFit'
  BY <1>1, <1>2, <1>3 DEF ReadsFit, Uncounted
<1>16. ThrowingIsKept'
  BY <1>2, <1>4a DEF ThrowingIsKept, Enqueued
<1>17. SettledIsNotResent'
  BY <1>1, <1>2, <1>3 DEF SettledIsNotResent
<1> QED
  BY <1>5, <1>6, <1>7, <1>8, <1>9, <1>10, <1>11, <1>12, <1>13, <1>14, <1>15, <1>16, <1>17

LEMMA SendFailsForGoodKeeps ==
  ASSUME IInv, NEW w \in Workers, w \in Passes, SendFailsForGood(w)
  PROVE  IInv'
<1> USE WorkersAre DEF IInv
<1>1. step[w] = "sending" /\ step[entry[w]] # "written" 
  BY DEF SendFailsForGood, SendEnds
<1>2. /\ pending' = pending /\ retryCount' = retryCount /\ failed' = failed
      /\ entry' = entry /\ read' = read /\ todo' = todo /\ claims' = claims
      /\ deferral' = deferral /\ deferralRead' = deferralRead
      /\ recovered' = recovered /\ crashes' = crashes
      /\ enqueued' = enqueued /\ aborted' = aborted
      /\ settled' = settled
      /\ Enqueued' = Enqueued
  BY DEF SendFailsForGood, Goto, files, deferrals, Enqueued
<1>3. /\ step' \in [Workers -> Steps]
      /\ \A v \in Workers : step'[v] = IF v = w THEN "moving" ELSE step[v]
  BY DEF SendFailsForGood, Goto, TypeOK, Steps
<1>4. /\ entry[w] \in Deliveries /\ entry[w] \in claims
      /\ step[entry[w]] \notin {"idle", "direct"}
      /\ \A v \in Workers \ {w} : step[v] \in Holding => entry[v] # entry[w]
      /\ w \in Deliveries => entry[w] = w
  BY <1>1, HeldEntries DEF Holding
<1>4a. sent \subseteq sent' /\ sent' \subseteq sent \cup {entry[w]}
  BY DEF SendFailsForGood
<1>5. TypeOK'
  BY <1>2, <1>3, <1>4, <1>4a DEF TypeOK
<1>6. WorkersFit'
  BY <1>1, <1>2, <1>3 DEF WorkersFit, Holding
<1>7. ClaimsFit'
  BY <1>1, <1>2, <1>3 DEF ClaimsFit, Holding
<1>8. EntriesFit'
  BY <1>2, <1>3 DEF EntriesFit
<1>9. FreshFit'
  BY <1>1, <1>2, <1>3, <1>4 DEF FreshFit, AfterSend, TypeOK
<1>10. KeptFit'
  BY <1>2, <1>3 DEF KeptFit
<1>11. AcksFit'
  BY <1>1, <1>2, <1>3, <1>4a DEF AcksFit
<1>12. DeferralsFit'
  BY <1>2 DEF DeferralsFit
<1>13. CountsFit'
  BY <1>2, <1>3 DEF CountsFit, Budget, Spent, Uncounted
<1>14. PrunesFit'
  <2> SUFFICES ASSUME NEW p \in Passes, step'[p] = "pruning", step'[entry'[p]] = "written"
               PROVE  Spent(entry[p])'
    BY DEF PrunesFit
  <2>1. step[p] = "pruning" /\ entry'[p] = entry[p]
    BY <1>1, <1>2, <1>3, <1>4
  <2>2. entry[p] \in Deliveries
    BY <2>1, HeldEntries DEF Holding
  <2>3. step[entry[p]] = "written"
    BY <1>1, <1>2, <1>3, <1>4, <2>1, <2>2
  <2> QED
    BY <1>1, <1>2, <1>3, <1>4, <2>1, <2>2, <2>3 DEF PrunesFit, Spent
<1>15. ReadsFit'
  BY <1>2, <1>3 DEF ReadsFit, Uncounted
<1>16. ThrowingIsKept'
  BY <1>2, <1>4a DEF ThrowingIsKept, Enqueued
<1>17. SettledIsNotResent'
  BY <1>2, <1>3 DEF SettledIsNotResent
<1> QED
  BY <1>5, <1>6, <1>7, <1>8, <1>9, <1>10, <1>11, <1>12, <1>13, <1>14, <1>15, <1>16, <1>17

LEMMA LetGoKeeps ==
  ASSUME IInv, NEW w \in Workers, step[w] \in Holding, LetGo(w),
         UNCHANGED <<files, deferrals, recovered, crashes, enqueued, sent, aborted>>,
         todo' \in [Passes -> SUBSET Deliveries], \A p \in Passes : todo'[p] \subseteq todo[p],
         todo'[Recovery] = todo[Recovery],
         settled' \subseteq settled,
         step[w] = "acking" /\ entry[w] \in pending => entry[w] \notin settled'
  PROVE  IInv'
<1> USE WorkersAre DEF IInv
<1>1. /\ pending' = pending /\ retryCount' = retryCount /\ failed' = failed
      /\ deferral' = deferral /\ deferralRead' = deferralRead
      /\ recovered' = recovered /\ crashes' = crashes
      /\ enqueued' = enqueued /\ sent' = sent /\ aborted' = aborted
      /\ Enqueued' = Enqueued
  BY DEF files, deferrals, Enqueued
<1>2. /\ step' \in [Workers -> Steps] /\ entry' \in [Workers -> Workers]
      /\ read' \in [Workers -> Nat]
      /\ \A v \in Workers \ {w} : step'[v] = step[v]
      /\ step'[w] \in {"idle", "done"} /\ (step'[w] = "idle" <=> w \in Passes)
      /\ \A v \in Workers \ {w} : entry'[v] = entry[v] /\ read'[v] = read[v]
      /\ entry'[w] = w
      /\ claims' = claims \ {entry[w]}
  BY DEF LetGo, Leave, TypeOK, Steps
<1>3. /\ entry[w] \in Deliveries /\ entry[w] \in claims
      /\ step[entry[w]] \notin {"idle", "direct"}
      /\ \A v \in Workers \ {w} : step[v] \in Holding => entry[v] # entry[w]
      /\ w \in Deliveries => entry[w] = w
  BY WorkersAre, HeldEntries DEF Holding
<1>4. TypeOK'
  BY <1>1, <1>2 DEF TypeOK
<1>5. WorkersFit'
  BY <1>1, <1>2 DEF WorkersFit, Holding
<1>6. ClaimsFit'
  BY <1>2 DEF ClaimsFit, Holding
<1>7. EntriesFit'
  BY <1>1, <1>2 DEF EntriesFit
<1>8. FreshFit'
  <2>1. \A d \in Deliveries : step'[d] \in {"idle", "direct", "written"} => d \notin settled'
    BY <1>1, <1>2, <1>3 DEF FreshFit
  <2>2. ASSUME NEW v \in Workers, step'[v] \in AfterSend
        PROVE  step'[entry'[v]] # "written"
    <3>1. v # w /\ step[v] \in AfterSend /\ entry'[v] = entry[v] /\ entry[v] \in Workers
      BY <1>1, <1>2, <1>3, <2>2 DEF AfterSend, TypeOK
    <3> QED
      BY <1>1, <1>2, <1>3, <3>1 DEF FreshFit
  <2> QED
    BY <2>1, <2>2 DEF FreshFit
<1>9. KeptFit'
  BY <1>1, <1>2 DEF KeptFit
<1>10. AcksFit'
  BY <1>1, <1>2 DEF AcksFit
<1>11. DeferralsFit'
  BY <1>1 DEF DeferralsFit
<1>12. CountsFit'
  BY <1>1, <1>2 DEF CountsFit, Budget, Spent, Uncounted
<1>13. PrunesFit'
  <2> SUFFICES ASSUME NEW p \in Passes, step'[p] = "pruning", step'[entry'[p]] = "written"
               PROVE  Spent(entry[p])'
    BY DEF PrunesFit
  <2>1. step[p] = "pruning" /\ entry'[p] = entry[p]
    BY <1>1, <1>2, <1>3
  <2>2. entry[p] \in Deliveries
    BY <2>1, HeldEntries DEF Holding
  <2>3. step[entry[p]] = "written"
    BY <1>1, <1>2, <1>3, <2>1, <2>2
  <2> QED
    BY <1>1, <1>2, <1>3, <2>1, <2>2, <2>3 DEF PrunesFit, Spent
<1>14. ReadsFit'
  BY <1>1, <1>2 DEF ReadsFit, Uncounted
<1>15. ThrowingIsKept'
  BY <1>1 DEF ThrowingIsKept, Enqueued
<1>16. SettledIsNotResent'
  BY <1>2 DEF SettledIsNotResent
<1> QED
  BY <1>4, <1>5, <1>6, <1>7, <1>8, <1>9, <1>10, <1>11, <1>12, <1>13, <1>14, <1>15, <1>16

LEMMA AckRemovesKeeps ==
  ASSUME IInv, NEW w \in Workers, step[w] = "acking",
         RemoveEntry(entry[w]), Goto(w, "unlinking"),
         UNCHANGED <<claims, settled, failed, todo, deferrals, recovered, crashes, enqueued,
                     sent, aborted>>
  PROVE  IInv'
<1> USE WorkersAre DEF IInv
<1>1. /\ failed' = failed /\ entry' = entry /\ read' = read /\ todo' = todo
      /\ claims' = claims /\ deferral' = deferral
      /\ deferralRead' = deferralRead /\ recovered' = recovered
      /\ crashes' = crashes /\ enqueued' = enqueued /\ sent' = sent
      /\ aborted' = aborted /\ settled' = settled
      /\ Enqueued' = Enqueued
  BY DEF Goto, files, deferrals, Enqueued
<1>2. /\ step' \in [Workers -> Steps]
      /\ \A v \in Workers : step'[v] = IF v = w THEN "unlinking" ELSE step[v]
  BY DEF Goto, TypeOK, Steps
<1>3. /\ entry[w] \in Deliveries /\ entry[w] \in claims
      /\ step[entry[w]] \notin {"idle", "direct"}
      /\ \A v \in Workers \ {w} : step[v] \in Holding => entry[v] # entry[w]
      /\ w \in Deliveries => entry[w] = w
  BY WorkersAre, HeldEntries DEF Holding
<1>4. /\ pending' = pending \ {entry[w]}
      /\ retryCount' \in [Deliveries -> 0..(MaxRetries + MaxCrashes + 1)]
      /\ retryCount'[entry[w]] = 0
      /\ \A d \in Deliveries \ {entry[w]} : retryCount'[d] = retryCount[d]
  BY <1>3, BoundsAssumption DEF RemoveEntry, TypeOK
<1>5. entry[w] \in sent \cup aborted \cup BestEffort /\ step[entry[w]] # "written"
  BY DEF AcksFit, FreshFit, AfterSend
<1>6. /\ crashes \in Nat /\ \A v \in Workers : step[v] \in Uncounted => entry[v] \in Deliveries
  BY HeldEntries DEF TypeOK, Holding, Uncounted
<1>7. TypeOK'
  BY <1>1, <1>2, <1>3, <1>4 DEF TypeOK
<1>8. WorkersFit'
  BY <1>1, <1>2 DEF WorkersFit, Holding
<1>9. ClaimsFit'
  BY <1>1, <1>2 DEF ClaimsFit, Holding
<1>10. EntriesFit'
  BY <1>1, <1>2, <1>4 DEF EntriesFit
<1>11. FreshFit'
  <2>1. \A d \in Deliveries : step'[d] \in {"idle", "direct", "written"} => d \notin settled'
    BY <1>1, <1>2, <1>3, <1>4, <1>5, <1>6 DEF FreshFit
  <2>2. ASSUME NEW v \in Workers, step'[v] \in AfterSend
        PROVE  step'[entry'[v]] # "written"
    <3>1. entry'[v] = entry[v] /\ entry[v] \in Workers
      BY <1>1, <1>2, <1>3, <1>4, <1>5, <1>6, <2>2 DEF TypeOK
    <3>2. step[entry[v]] # "written"
      BY <1>1, <1>2, <1>3, <1>4, <1>5, <1>6, <2>2 DEF FreshFit, AfterSend
    <3> QED
      BY <1>1, <1>2, <1>3, <1>4, <1>5, <1>6, <3>1, <3>2
  <2> QED
    BY <2>1, <2>2 DEF FreshFit
<1>12. KeptFit'
  BY <1>1, <1>2, <1>3, <1>4 DEF KeptFit, FreshFit, AfterSend, Holding
<1>13. AcksFit'
  BY <1>1, <1>2, <1>4 DEF AcksFit
<1>14. DeferralsFit'
  BY <1>1 DEF DeferralsFit
<1>15. CountsFit'
  BY <1>1, <1>2, <1>3, <1>4, <1>5, <1>6, BoundsAssumption
  DEF CountsFit, Budget, Spent, Uncounted, Holding
<1>16. PrunesFit'
  <2> SUFFICES ASSUME NEW p \in Passes, step'[p] = "pruning", step'[entry'[p]] = "written"
               PROVE  Spent(entry[p])'
    BY DEF PrunesFit
  <2>1. step[p] = "pruning" /\ entry'[p] = entry[p]
    BY <1>1, <1>2, <1>3, <1>4, <1>5, <1>6
  <2>2. entry[p] \in Deliveries
    BY <2>1, HeldEntries DEF Holding
  <2>3. step[entry[p]] = "written"
    BY <1>1, <1>2, <1>3, <1>4, <1>5, <1>6, <2>1, <2>2
  <2> QED
    BY <1>1, <1>2, <1>3, <1>4, <1>5, <1>6, <2>1, <2>2, <2>3 DEF PrunesFit, Spent
<1>17. ReadsFit'
  BY <1>1, <1>2, <1>4, <1>5 DEF ReadsFit, Uncounted, TypeOK
<1>18. ThrowingIsKept'
  BY <1>4, <1>5 DEF ThrowingIsKept, Enqueued
<1>19. SettledIsNotResent'
  BY <1>1, <1>2 DEF SettledIsNotResent
<1> QED
  BY <1>7, <1>8, <1>9, <1>10, <1>11, <1>12, <1>13, <1>14, <1>15, <1>16, <1>17, <1>18, <1>19

LEMMA AckLostByPassKeeps ==
  ASSUME IInv, NEW w \in Workers, w \in Passes, step[w] = "acking",
         Goto(w, "failing"), settled' = settled \ {entry[w]},
         UNCHANGED <<claims, pending, retryCount, failed, todo, deferrals, recovered, crashes,
                     enqueued, sent, aborted>>
  PROVE  IInv'
<1> USE WorkersAre DEF IInv
<1>1. /\ pending' = pending /\ retryCount' = retryCount /\ failed' = failed
      /\ entry' = entry /\ read' = read /\ todo' = todo /\ claims' = claims
      /\ deferral' = deferral /\ deferralRead' = deferralRead
      /\ recovered' = recovered /\ crashes' = crashes
      /\ enqueued' = enqueued /\ sent' = sent /\ aborted' = aborted
      /\ Enqueued' = Enqueued
  BY DEF Goto, files, deferrals, Enqueued
<1>2. /\ step' \in [Workers -> Steps]
      /\ \A v \in Workers : step'[v] = IF v = w THEN "failing" ELSE step[v]
  BY DEF Goto, TypeOK, Steps
<1>3. /\ entry[w] \in Deliveries /\ entry[w] \in claims
      /\ step[entry[w]] \notin {"idle", "direct"}
      /\ \A v \in Workers \ {w} : step[v] \in Holding => entry[v] # entry[w]
      /\ w \in Deliveries => entry[w] = w
  BY WorkersAre, HeldEntries DEF Holding
<1>4. TypeOK'
  BY <1>1, <1>2, <1>3 DEF TypeOK
<1>5. WorkersFit'
  BY <1>1, <1>2 DEF WorkersFit, Holding
<1>6. ClaimsFit'
  BY <1>1, <1>2 DEF ClaimsFit, Holding
<1>7. EntriesFit'
  BY <1>1, <1>2 DEF EntriesFit
<1>8. FreshFit'
  <2>1. \A d \in Deliveries : step'[d] \in {"idle", "direct", "written"} => d \notin settled'
    BY <1>1, <1>2, <1>3 DEF FreshFit
  <2>2. ASSUME NEW v \in Workers, step'[v] \in AfterSend
        PROVE  step'[entry'[v]] # "written"
    <3>1. entry'[v] = entry[v] /\ entry[v] \in Workers
      BY <1>1, <1>2, <1>3, <2>2 DEF TypeOK
    <3>2. step[entry[v]] # "written"
      BY <1>1, <1>2, <1>3, <2>2 DEF FreshFit, AfterSend
    <3> QED
      BY <1>1, <1>2, <1>3, <3>1, <3>2
  <2> QED
    BY <2>1, <2>2 DEF FreshFit
<1>9. KeptFit'
  BY <1>1, <1>2 DEF KeptFit
<1>10. AcksFit'
  BY <1>1, <1>2 DEF AcksFit
<1>11. DeferralsFit'
  BY <1>1 DEF DeferralsFit
<1>12. CountsFit'
  BY <1>1, <1>2 DEF CountsFit, Budget, Spent, Uncounted
<1>13. PrunesFit'
  <2> SUFFICES ASSUME NEW p \in Passes, step'[p] = "pruning", step'[entry'[p]] = "written"
               PROVE  Spent(entry[p])'
    BY DEF PrunesFit
  <2>1. step[p] = "pruning" /\ entry'[p] = entry[p]
    BY <1>1, <1>2, <1>3
  <2>2. entry[p] \in Deliveries
    BY <2>1, HeldEntries DEF Holding
  <2>3. step[entry[p]] = "written"
    BY <1>1, <1>2, <1>3, <2>1, <2>2
  <2> QED
    BY <1>1, <1>2, <1>3, <2>1, <2>2, <2>3 DEF PrunesFit, Spent
<1>14. ReadsFit'
  BY <1>1, <1>2 DEF ReadsFit, Uncounted
<1>15. ThrowingIsKept'
  BY DEF ThrowingIsKept, Enqueued
<1>16. SettledIsNotResent'
  BY <1>1, <1>2 DEF SettledIsNotResent
<1> QED
  BY <1>4, <1>5, <1>6, <1>7, <1>8, <1>9, <1>10, <1>11, <1>12, <1>13, <1>14, <1>15, <1>16

LEMMA AckDeliveryKeeps ==
  ASSUME IInv, NEW w \in Workers, AckDelivery(w)
  PROVE  IInv'
<1>1. step[w] = "acking" /\ step[w] \in Holding
  BY DEF AckDelivery, Holding
<1>2. entry[w] \in Deliveries
  BY <1>1, HeldEntries
<1>3. TypeOK
  BY DEF IInv
<1>4. CASE /\ entry[w] \in pending /\ RemoveEntry(entry[w]) /\ Goto(w, "unlinking")
           /\ UNCHANGED <<claims, settled>>
  BY <1>1, <1>4, AckRemovesKeeps DEF AckDelivery
<1>5. CASE entry[w] \notin pending /\ LetGo(w) /\ UNCHANGED <<pending, retryCount, settled>>
  BY <1>1, <1>3, <1>5, LetGoKeeps DEF AckDelivery, files, deferrals, TypeOK
<1>6. CASE /\ entry[w] \in pending
           /\ w \in Passes /\ Goto(w, "failing") /\ UNCHANGED claims
           /\ settled' = settled \ {entry[w]}
           /\ UNCHANGED <<pending, retryCount>>
  BY <1>1, <1>6, AckLostByPassKeeps DEF AckDelivery
<1>7. CASE /\ entry[w] \in pending
           /\ w \notin Passes /\ LetGo(w)
           /\ settled' = settled \ {entry[w]}
           /\ UNCHANGED <<pending, retryCount>>
  <2>1. settled' \subseteq settled /\ todo \in [Passes -> SUBSET Deliveries]
    BY <1>2, <1>3, <1>7 DEF TypeOK
  <2> QED
    BY <1>1, <1>7, <2>1, LetGoKeeps DEF AckDelivery, files, deferrals
<1> QED
  BY <1>4, <1>5, <1>6, <1>7 DEF AckDelivery

LEMMA UnlinkMarkerKeeps ==
  ASSUME IInv, NEW w \in Workers, UnlinkMarker(w)
  PROVE  IInv'
<1>1. step[w] = "unlinking" /\ step[w] \in Holding /\ LetGo(w)
  BY DEF UnlinkMarker, Holding
<1>2. TypeOK
  BY DEF IInv
<1> QED
  BY <1>1, <1>2, LetGoKeeps DEF UnlinkMarker, files, deferrals, history, TypeOK

LEMMA FailureReadKeeps ==
  ASSUME IInv, NEW w \in Workers, step[w] = "failing", entry[w] \in pending,
         step' = [step EXCEPT ![w] = "writing"], read' = [read EXCEPT ![w] = retryCount[entry[w]]],
         UNCHANGED <<files, entry, claims, todo, deferrals, recovered, crashes, history>>
  PROVE  IInv'
<1> USE WorkersAre DEF IInv
<1>1. /\ pending' = pending /\ retryCount' = retryCount /\ failed' = failed
      /\ entry' = entry /\ todo' = todo /\ claims' = claims
      /\ deferral' = deferral /\ deferralRead' = deferralRead
      /\ recovered' = recovered /\ crashes' = crashes
      /\ enqueued' = enqueued /\ sent' = sent /\ aborted' = aborted
      /\ settled' = settled
      /\ Enqueued' = Enqueued
  BY DEF files, deferrals, history, Enqueued
<1>2. /\ step' \in [Workers -> Steps]
      /\ \A v \in Workers : step'[v] = IF v = w THEN "writing" ELSE step[v]
  BY DEF TypeOK, Steps
<1>3. /\ entry[w] \in Deliveries /\ entry[w] \in claims
      /\ step[entry[w]] \notin {"idle", "direct"}
      /\ \A v \in Workers \ {w} : step[v] \in Holding => entry[v] # entry[w]
      /\ w \in Deliveries => entry[w] = w
  BY WorkersAre, HeldEntries DEF Holding
<1>4. /\ read' \in [Workers -> Nat] /\ read'[w] = retryCount[entry[w]]
      /\ \A v \in Workers \ {w} : read'[v] = read[v]
  BY <1>3, BoundsAssumption DEF TypeOK
<1>5. TypeOK'
  BY <1>1, <1>2 DEF TypeOK
<1>6. WorkersFit'
  BY <1>1 DEF WorkersFit, Holding
<1>7. ClaimsFit'
  BY DEF ClaimsFit, Holding
<1>8. EntriesFit'
  BY <1>1 DEF EntriesFit
<1>9. FreshFit'
  <2>1. \A d \in Deliveries : step'[d] \in {"idle", "direct", "written"} => d \notin settled'
    BY <1>1, <1>2, <1>3, <1>4 DEF FreshFit
  <2>2. ASSUME NEW v \in Workers, step'[v] \in AfterSend
        PROVE  step'[entry'[v]] # "written"
    <3>1. entry'[v] = entry[v] /\ entry[v] \in Workers
      BY <1>1, <1>2, <1>3, <1>4, <2>2 DEF TypeOK
    <3>2. step[entry[v]] # "written"
      BY <1>1, <1>2, <1>3, <1>4, <2>2 DEF FreshFit, AfterSend
    <3> QED
      BY <1>1, <1>2, <1>3, <1>4, <3>1, <3>2
  <2> QED
    BY <2>1, <2>2 DEF FreshFit
<1>10. KeptFit'
  BY <1>1 DEF KeptFit
<1>11. AcksFit'
  BY <1>1 DEF AcksFit
<1>12. DeferralsFit'
  BY <1>1 DEF DeferralsFit
<1>13. CountsFit'
  BY <1>1, <1>4 DEF CountsFit, Budget, Spent, Uncounted
<1>14. PrunesFit'
  <2> SUFFICES ASSUME NEW p \in Passes, step'[p] = "pruning", step'[entry'[p]] = "written"
               PROVE  Spent(entry[p])'
    BY DEF PrunesFit
  <2>1. step[p] = "pruning" /\ entry'[p] = entry[p]
    BY <1>1, <1>2, <1>3, <1>4
  <2>2. entry[p] \in Deliveries
    BY <2>1, HeldEntries DEF Holding
  <2>3. step[entry[p]] = "written"
    BY <1>1, <1>2, <1>3, <1>4, <2>1, <2>2
  <2> QED
    BY <1>1, <1>2, <1>3, <1>4, <2>1, <2>2, <2>3 DEF PrunesFit, Spent
<1>15. ReadsFit'
  BY <1>1 DEF ReadsFit, Uncounted
<1>16. ThrowingIsKept'
  BY <1>1 DEF ThrowingIsKept, Enqueued
<1>17. SettledIsNotResent'
  BY <1>1 DEF SettledIsNotResent
<1> QED
  BY <1>5, <1>6, <1>7, <1>8, <1>9, <1>10, <1>11, <1>12, <1>13, <1>14, <1>15, <1>16, <1>17

LEMMA FailDeliveryKeeps ==
  ASSUME IInv, NEW w \in Workers, FailDelivery(w)
  PROVE  IInv'
<1>1. step[w] = "failing" /\ step[w] \in Holding
  BY DEF FailDelivery, Holding
<1>2. TypeOK
  BY DEF IInv
<1>3. CASE entry[w] \in pending
  BY <1>1, <1>3, FailureReadKeeps DEF FailDelivery
<1>4. CASE entry[w] \notin pending
  BY <1>1, <1>2, <1>4, LetGoKeeps DEF FailDelivery, files, deferrals, history, TypeOK
<1> QED
  BY <1>3, <1>4

LEMMA FailureWrittenKeeps ==
  ASSUME IInv, NEW w \in Workers, step[w] = "writing", LetGo(w), WriteEntry(entry[w], read[w] + 1),
         UNCHANGED <<failed, todo, deferrals, recovered, crashes, history>>
  PROVE  IInv'
<1> USE WorkersAre DEF IInv
<1>1. /\ failed' = failed /\ todo' = todo /\ deferral' = deferral
      /\ deferralRead' = deferralRead /\ recovered' = recovered
      /\ crashes' = crashes /\ enqueued' = enqueued /\ sent' = sent
      /\ aborted' = aborted /\ settled' = settled
      /\ Enqueued' = Enqueued
  BY DEF deferrals, history, Enqueued
<1>2. /\ step' \in [Workers -> Steps] /\ entry' \in [Workers -> Workers]
      /\ read' \in [Workers -> Nat]
      /\ \A v \in Workers \ {w} : step'[v] = step[v]
      /\ step'[w] \in {"idle", "done"} /\ (step'[w] = "idle" <=> w \in Passes)
      /\ \A v \in Workers \ {w} : entry'[v] = entry[v] /\ read'[v] = read[v]
      /\ entry'[w] = w
      /\ claims' = claims \ {entry[w]}
  BY DEF LetGo, Leave, TypeOK, Steps
<1>3. /\ entry[w] \in Deliveries /\ entry[w] \in claims
      /\ step[entry[w]] \notin {"idle", "direct"}
      /\ \A v \in Workers \ {w} : step[v] \in Holding => entry[v] # entry[w]
      /\ w \in Deliveries => entry[w] = w
  BY WorkersAre, HeldEntries DEF Holding
<1>4. /\ crashes \in Nat /\ \A v \in Workers : step[v] \in Uncounted => entry[v] \in Deliveries
  BY HeldEntries DEF TypeOK, Holding, Uncounted
<1>5. /\ pending' = pending /\ entry[w] \in pending
      /\ retryCount'[entry[w]] = read[w] + 1 /\ read[w] \in Nat
      /\ \A d \in Deliveries \ {entry[w]} : retryCount'[d] = retryCount[d]
      /\ step[entry[w]] # "written" 
  BY <1>3 DEF WriteEntry, KeptFit, TypeOK, FreshFit, AfterSend
<1>6. retryCount' \in [Deliveries -> 0..(MaxRetries + MaxCrashes + 1)]
  <2>1. read[w] < Budget(entry[w])
    BY DEF CountsFit
  <2>2. read[w] + 1 \in 0..(MaxRetries + MaxCrashes + 1)
    BY <2>1, <1>5, BoundsAssumption DEF Budget, TypeOK
  <2> QED
    BY <2>2 DEF WriteEntry, TypeOK
<1>7. TypeOK'
  BY <1>1, <1>2, <1>5, <1>6 DEF TypeOK
<1>8. WorkersFit'
  BY <1>1, <1>2 DEF WorkersFit, Holding
<1>9. ClaimsFit'
  BY <1>2 DEF ClaimsFit, Holding
<1>10. EntriesFit'
  BY <1>1, <1>2, <1>5 DEF EntriesFit
<1>11. FreshFit'
  <2>1. \A d \in Deliveries : step'[d] \in {"idle", "direct", "written"} => d \notin settled'
    BY <1>1, <1>2, <1>3, <1>4, <1>5, <1>6 DEF FreshFit
  <2>2. ASSUME NEW v \in Workers, step'[v] \in AfterSend
        PROVE  step'[entry'[v]] # "written"
    <3>1. v # w /\ step[v] \in AfterSend /\ entry'[v] = entry[v] /\ entry[v] \in Workers
      BY <1>1, <1>2, <1>3, <1>4, <1>5, <1>6, <2>2 DEF AfterSend, TypeOK
    <3> QED
      BY <1>1, <1>2, <1>3, <1>4, <1>5, <1>6, <3>1 DEF FreshFit
  <2> QED
    BY <2>1, <2>2 DEF FreshFit
<1>12. KeptFit'
  BY <1>2, <1>5 DEF KeptFit
<1>13. AcksFit'
  BY <1>1, <1>2, <1>5 DEF AcksFit
<1>14. DeferralsFit'
  BY <1>1 DEF DeferralsFit
<1>15. CountsFit'
  <2>1. \A d \in Deliveries : Budget(d)' = Budget(d) /\ Spent(d)' = Spent(d)
    BY <1>1 DEF Budget, Spent
  <2>2. \A d \in Deliveries : retryCount'[d] <= Budget(d)
    <3>1. read[w] + 1 <= Budget(entry[w])
      BY <1>3, <1>4, <1>5, BoundsAssumption DEF CountsFit, Budget
    <3> QED
      BY <1>5, <3>1 DEF CountsFit
  <2>3. \A v \in Workers : step'[v] \in Uncounted \cup {"writing", "written"} =>
          v # w /\ step[v] = step'[v] /\ entry'[v] = entry[v] /\ read'[v] = read[v]
    BY <1>2 DEF Uncounted
  <2>4. \A v \in Workers \ {w} : step[v] \in Uncounted =>
          /\ entry[v] \in Deliveries /\ entry[v] # entry[w]
          /\ retryCount'[entry[v]] = retryCount[entry[v]]
    BY <1>3, <1>4, <1>5 DEF Uncounted, Holding
  <2>5. \A d \in Deliveries : step'[d] = "written" => step[d] = "written" /\ d # entry[w]
    BY <1>5, <2>3
  <2> QED
    BY <1>3, <1>5, <2>1, <2>2, <2>3, <2>4, <2>5 DEF CountsFit, Uncounted
<1>16. PrunesFit'
  <2> SUFFICES ASSUME NEW p \in Passes, step'[p] = "pruning", step'[entry'[p]] = "written"
               PROVE  Spent(entry[p])'
    BY DEF PrunesFit
  <2>1. step[p] = "pruning" /\ entry'[p] = entry[p]
    BY <1>1, <1>2, <1>3, <1>4, <1>5, <1>6
  <2>2. entry[p] \in Deliveries
    BY <2>1, HeldEntries DEF Holding
  <2>3. step[entry[p]] = "written"
    BY <1>1, <1>2, <1>3, <1>4, <1>5, <1>6, <2>1, <2>2
  <2> QED
    BY <1>1, <1>2, <1>3, <1>4, <1>5, <1>6, <2>1, <2>2, <2>3 DEF PrunesFit, Spent
<1>17. ReadsFit'
  <2>1. deferral[entry[w]] = "writing" => deferralRead[entry[w]] <= read[w] + 1
    <3>1. deferral[entry[w]] = "writing" => read[w] = retryCount[entry[w]]
      BY <1>3 DEF CountsFit, Spent
    <3> QED
      BY <1>3, <1>5, <3>1 DEF ReadsFit, TypeOK
  <2>2. \A v \in Workers : step'[v] \in Uncounted \cup {"written"} =>
          v # w /\ step[v] = step'[v] /\ entry'[v] = entry[v]
    BY <1>2 DEF Uncounted
  <2>3. \A d \in Deliveries : deferral[d] = "writing" /\ d \in pending => deferralRead[d] <= retryCount'[d]
    BY <1>5, <2>1 DEF ReadsFit
  <2> QED
    BY <1>1, <1>5, <2>2, <2>3 DEF ReadsFit
<1>18. ThrowingIsKept'
  BY <1>1, <1>5 DEF ThrowingIsKept, Enqueued
<1>19. SettledIsNotResent'
  BY <1>1, <1>2 DEF SettledIsNotResent
<1> QED
  BY <1>7, <1>8, <1>9, <1>10, <1>11, <1>12, <1>13, <1>14, <1>15, <1>16, <1>17, <1>18, <1>19

LEMMA WriteFailureKeeps ==
  ASSUME IInv, NEW w \in Workers, WriteFailure(w)
  PROVE  IInv'
<1>1. step[w] = "writing" /\ step[w] \in Holding /\ LetGo(w)
  BY DEF WriteFailure, Holding
<1>2. TypeOK
  BY DEF IInv
<1>3. CASE WriteEntry(entry[w], read[w] + 1)
  BY <1>1, <1>3, FailureWrittenKeeps DEF WriteFailure
<1>4. CASE UNCHANGED <<pending, retryCount>>
  BY <1>1, <1>2, <1>4, LetGoKeeps DEF WriteFailure, files, deferrals, history, TypeOK
<1> QED
  BY <1>3, <1>4 DEF WriteFailure

LEMMA MovedAwayKeeps ==
  ASSUME IInv, NEW w \in Workers, w \in Passes, step[w] \in {"moving", "pruning"},
         RemoveEntry(entry[w]), failed' = failed \cup {entry[w]}, LetGo(w),
         UNCHANGED <<todo, deferrals, recovered, crashes, history>>
  PROVE  IInv'
<1> USE WorkersAre DEF IInv
<1>1. /\ todo' = todo /\ deferral' = deferral
      /\ deferralRead' = deferralRead /\ recovered' = recovered
      /\ crashes' = crashes /\ enqueued' = enqueued /\ sent' = sent
      /\ aborted' = aborted /\ settled' = settled
      /\ Enqueued' = Enqueued
  BY DEF deferrals, history, Enqueued
<1>2. /\ step' \in [Workers -> Steps] /\ entry' \in [Workers -> Workers]
      /\ read' \in [Workers -> Nat]
      /\ \A v \in Workers \ {w} : step'[v] = step[v]
      /\ step'[w] \in {"idle", "done"} /\ (step'[w] = "idle" <=> w \in Passes)
      /\ \A v \in Workers \ {w} : entry'[v] = entry[v] /\ read'[v] = read[v]
      /\ entry'[w] = w
      /\ claims' = claims \ {entry[w]}
  BY DEF LetGo, Leave, TypeOK, Steps
<1>3. /\ entry[w] \in Deliveries /\ entry[w] \in claims
      /\ step[entry[w]] \notin {"idle", "direct"}
      /\ \A v \in Workers \ {w} : step[v] \in Holding => entry[v] # entry[w]
      /\ w \in Deliveries => entry[w] = w
  BY WorkersAre, HeldEntries DEF Holding
<1>4. /\ crashes \in Nat /\ \A v \in Workers : step[v] \in Uncounted => entry[v] \in Deliveries
  BY HeldEntries DEF TypeOK, Holding, Uncounted
<1>5. /\ pending' = pending \ {entry[w]} /\ failed' = failed \cup {entry[w]}
      /\ retryCount' \in [Deliveries -> 0..(MaxRetries + MaxCrashes + 1)]
      /\ retryCount'[entry[w]] = 0
      /\ \A d \in Deliveries \ {entry[w]} : retryCount'[d] = retryCount[d]
  BY <1>3, BoundsAssumption DEF RemoveEntry, TypeOK
<1>6. step[entry[w]] = "written" => Spent(entry[w]) 
  BY DEF PrunesFit, FreshFit, AfterSend
<1>7. \A v \in Workers : step'[v] \in Holding => step[v] \in Holding /\ v # w /\ entry'[v] # entry[w]
  BY <1>2, <1>3 DEF Holding
<1>8. TypeOK'
  BY <1>1, <1>2, <1>3, <1>5 DEF TypeOK
<1>9. WorkersFit'
  BY <1>1, <1>2 DEF WorkersFit, Holding
<1>10. ClaimsFit'
  BY <1>2 DEF ClaimsFit, Holding
<1>11. EntriesFit'
  BY <1>1, <1>2, <1>5 DEF EntriesFit
<1>12. FreshFit'
  <2>1. \A d \in Deliveries : step'[d] \in {"idle", "direct", "written"} => d \notin settled'
    BY <1>1, <1>2, <1>3, <1>4, <1>5, <1>6, <1>7 DEF FreshFit
  <2>2. ASSUME NEW v \in Workers, step'[v] \in AfterSend
        PROVE  step'[entry'[v]] # "written"
    <3>1. v # w /\ step[v] \in AfterSend /\ entry'[v] = entry[v] /\ entry[v] \in Workers
      BY <1>1, <1>2, <1>3, <1>4, <1>5, <1>6, <1>7, <2>2 DEF AfterSend, TypeOK
    <3> QED
      BY <1>1, <1>2, <1>3, <1>4, <1>5, <1>6, <1>7, <3>1 DEF FreshFit
  <2> QED
    BY <2>1, <2>2 DEF FreshFit
<1>13. KeptFit'
  BY <1>2, <1>3, <1>5 DEF KeptFit, Holding
<1>14. AcksFit'
  BY <1>1, <1>2, <1>5 DEF AcksFit
<1>15. DeferralsFit'
  BY <1>1 DEF DeferralsFit
<1>16. CountsFit'
  BY <1>1, <1>2, <1>3, <1>4, <1>5, <1>6, BoundsAssumption
  DEF CountsFit, Budget, Spent, Uncounted, Holding
<1>17. PrunesFit'
  <2> SUFFICES ASSUME NEW p \in Passes, step'[p] = "pruning", step'[entry'[p]] = "written"
               PROVE  Spent(entry[p])'
    BY DEF PrunesFit
  <2>1. step[p] = "pruning" /\ entry'[p] = entry[p]
    BY <1>1, <1>2, <1>3, <1>4, <1>5, <1>6, <1>7
  <2>2. entry[p] \in Deliveries
    BY <2>1, HeldEntries DEF Holding
  <2>3. step[entry[p]] = "written"
    BY <1>1, <1>2, <1>3, <1>4, <1>5, <1>6, <1>7, <2>1, <2>2
  <2> QED
    BY <1>1, <1>2, <1>3, <1>4, <1>5, <1>6, <1>7, <2>1, <2>2, <2>3 DEF PrunesFit, Spent
<1>18. ReadsFit'
  BY <1>1, <1>2, <1>5 DEF ReadsFit, Uncounted
<1>19. ThrowingIsKept'
  BY <1>1, <1>5 DEF ThrowingIsKept, Enqueued
<1>20. SettledIsNotResent'
  BY <1>1, <1>2 DEF SettledIsNotResent
<1> QED
  BY <1>8, <1>9, <1>10, <1>11, <1>12, <1>13, <1>14, <1>15, <1>16, <1>17, <1>18, <1>19, <1>20

LEMMA MoveToFailedKeeps ==
  ASSUME IInv, NEW p \in Workers, p \in Passes, MoveToFailed(p)
  PROVE  IInv'
<1>1. step[p] \in {"moving", "pruning"} /\ step[p] \in Holding /\ LetGo(p)
  BY DEF MoveToFailed, Holding
<1>2. TypeOK
  BY DEF IInv
<1>3. CASE RemoveEntry(entry[p]) /\ failed' = failed \cup {entry[p]} /\ UNCHANGED todo
  BY <1>1, <1>3, MovedAwayKeeps DEF MoveToFailed, history
<1>4. CASE UNCHANGED <<pending, retryCount, failed, todo>>
  BY <1>1, <1>2, <1>4, LetGoKeeps DEF MoveToFailed, files, deferrals, TypeOK
<1>5. CASE /\ todo' = IF p # Recovery /\ step[p] = "pruning" THEN [todo EXCEPT ![p] = {}] ELSE todo
           /\ UNCHANGED <<pending, retryCount, failed>>
  <2>1. /\ todo' \in [Passes -> SUBSET Deliveries]
        /\ \A q \in Passes : todo'[q] \subseteq todo[q]
        /\ todo'[Recovery] = todo[Recovery]
    BY <1>2, <1>5, WorkersAre DEF TypeOK
  <2> QED
    BY <1>1, <1>2, <1>5, <2>1, LetGoKeeps DEF MoveToFailed, files, deferrals, TypeOK
<1> QED
  BY <1>3, <1>4, <1>5 DEF MoveToFailed

LEMMA SkipClaimedKeeps ==
  ASSUME IInv, NEW w \in Passes, NEW e \in todo[w],
         todo' = [todo EXCEPT ![w] = @ \ {e}],
         UNCHANGED <<claims, worker, files, deferrals, recovered, crashes, history>>
  PROVE  IInv'
<1> USE WorkersAre DEF IInv
<1>1. /\ pending' = pending /\ retryCount' = retryCount /\ failed' = failed
      /\ step' = step /\ entry' = entry /\ read' = read /\ claims' = claims
      /\ deferral' = deferral /\ deferralRead' = deferralRead
      /\ recovered' = recovered /\ crashes' = crashes
      /\ enqueued' = enqueued /\ sent' = sent /\ aborted' = aborted
      /\ settled' = settled
      /\ Enqueued' = Enqueued
  BY DEF worker, files, deferrals, history, Enqueued
<1>2. /\ todo' \in [Passes -> SUBSET Deliveries]
      /\ \A q \in Passes : todo'[q] \subseteq todo[q]
  BY DEF TypeOK
<1>3. /\ crashes \in Nat /\ \A v \in Workers : step[v] \in Uncounted => entry[v] \in Deliveries
  BY HeldEntries DEF TypeOK, Holding, Uncounted
<1>4. TypeOK'
  BY <1>1 DEF TypeOK
<1>5. WorkersFit'
  BY <1>1 DEF WorkersFit, Holding
<1>6. ClaimsFit'
  BY <1>1 DEF ClaimsFit, Holding
<1>7. EntriesFit'
  BY <1>1 DEF EntriesFit
<1>8. FreshFit'
  BY <1>1 DEF FreshFit, AfterSend
<1>9. KeptFit'
  BY <1>1 DEF KeptFit
<1>10. AcksFit'
  BY <1>1 DEF AcksFit
<1>11. DeferralsFit'
  BY <1>1 DEF DeferralsFit
<1>12. CountsFit'
  <2>1. /\ \A d \in Deliveries : Spent(d) => Spent(d)'
        /\ \A d \in Deliveries : retryCount[d] \in Nat
        /\ \A v \in Workers : read[v] \in Nat
    BY <1>1, <1>2, <1>3, BoundsAssumption DEF Spent, TypeOK
  <2>2. \A d \in Deliveries : Budget(d) \in Nat /\ Budget(d)' \in Nat /\ Budget(d) <= Budget(d)'
    BY <1>1, <1>2, <1>3, <2>1, BoundsAssumption DEF Budget
  <2>3. \A v \in Workers : step'[v] \in Uncounted \cup {"writing", "written"} =>
          step[v] = step'[v] /\ entry'[v] = entry[v]
    BY <1>1, <1>2, <1>3 DEF Uncounted
  <2>4. \A d \in Deliveries : retryCount'[d] <= Budget(d)'
    BY <1>1, <1>2, <1>3, <2>1, <2>2 DEF CountsFit
  <2>5. ASSUME NEW v \in Workers, step'[v] \in Uncounted
        PROVE  retryCount'[entry'[v]] < Budget(entry[v])'
    BY <1>1, <1>2, <1>3, <2>1, <2>2, <2>3, <2>5 DEF CountsFit
  <2>6. ASSUME NEW v \in Workers, step'[v] = "writing"
        PROVE  /\ read'[v] < Budget(entry[v])'
               /\ (~Spent(entry[v])' => read'[v] = retryCount'[entry'[v]])
    BY <1>1, <1>2, <1>3, <2>1, <2>2, <2>3, <2>6 DEF CountsFit, Uncounted
  <2>7. ASSUME NEW d \in Deliveries, step'[d] = "written"
        PROVE  \/ retryCount'[d] = 0 /\ d \in pending'
               \/ retryCount'[d] \in {0, 1} /\ Spent(d)'
    BY <1>1, <1>2, <1>3, <2>1, <2>3, <2>7, WorkersAre DEF CountsFit
  <2> QED
    BY <2>4, <2>5, <2>6, <2>7 DEF CountsFit
<1>13. PrunesFit'
  <2> SUFFICES ASSUME NEW p \in Passes, step'[p] = "pruning", step'[entry'[p]] = "written"
               PROVE  Spent(entry[p])'
    BY DEF PrunesFit
  <2>1. step[p] = "pruning" /\ entry'[p] = entry[p]
    BY <1>1, <1>2, <1>3
  <2>2. entry[p] \in Deliveries
    BY <2>1, HeldEntries DEF Holding
  <2>3. step[entry[p]] = "written"
    BY <1>1, <1>2, <1>3, <2>1, <2>2
  <2> QED
    BY <1>1, <1>2, <1>3, <2>1, <2>2, <2>3 DEF PrunesFit, Spent
<1>14. ReadsFit'
  BY <1>1 DEF ReadsFit, Uncounted
<1>15. ThrowingIsKept'
  BY <1>1 DEF ThrowingIsKept, Enqueued
<1>16. SettledIsNotResent'
  BY <1>1 DEF SettledIsNotResent
<1> QED
  BY <1>4, <1>5, <1>6, <1>7, <1>8, <1>9, <1>10, <1>11, <1>12, <1>13, <1>14, <1>15, <1>16

LEMMA ClaimedNextKeeps ==
  ASSUME IInv, NEW w \in Passes, NEW e \in todo[w], step[w] = "idle",
         todo' = [todo EXCEPT ![w] = @ \ {e}], e \notin claims, claims' = claims \cup {e},
         step' = [step EXCEPT ![w] = "loading"], entry' = [entry EXCEPT ![w] = e],
         UNCHANGED <<read, files, deferrals, recovered, crashes, history>>
  PROVE  IInv'
<1> USE WorkersAre DEF IInv
<1>1. /\ pending' = pending /\ retryCount' = retryCount /\ failed' = failed
      /\ read' = read /\ deferral' = deferral
      /\ deferralRead' = deferralRead /\ recovered' = recovered
      /\ crashes' = crashes /\ enqueued' = enqueued /\ sent' = sent
      /\ aborted' = aborted /\ settled' = settled
      /\ Enqueued' = Enqueued
  BY DEF files, deferrals, history, Enqueued
<1>2. /\ todo' \in [Passes -> SUBSET Deliveries]
      /\ \A q \in Passes : todo'[q] \subseteq todo[q]
  BY DEF TypeOK
<1>3. /\ crashes \in Nat /\ \A v \in Workers : step[v] \in Uncounted => entry[v] \in Deliveries
  BY HeldEntries DEF TypeOK, Holding, Uncounted
<1>4. e \in Deliveries /\ e \in Enqueued /\ w \in Workers
  BY DEF TypeOK, EntriesFit
<1>5. /\ step' \in [Workers -> Steps]
      /\ \A v \in Workers : step'[v] = IF v = w THEN "loading" ELSE step[v]
  BY <1>4 DEF TypeOK, Steps
<1>6. /\ entry' \in [Workers -> Workers] /\ entry'[w] = e
      /\ \A v \in Workers \ {w} : entry'[v] = entry[v]
  BY <1>4 DEF TypeOK
<1>7. TypeOK'
  BY <1>1, <1>5 DEF TypeOK
<1>8. WorkersFit'
  BY <1>1, <1>4, <1>6 DEF WorkersFit, Holding
<1>9. ClaimsFit'
  BY <1>6 DEF ClaimsFit, Holding
<1>10. EntriesFit'
  BY <1>1 DEF EntriesFit
<1>11. FreshFit'
  <2>1. \A d \in Deliveries : step'[d] \in {"idle", "direct", "written"} => d \notin settled'
    BY <1>1, <1>2, <1>3, <1>4, <1>5, <1>6 DEF FreshFit
  <2>2. ASSUME NEW v \in Workers, step'[v] \in AfterSend
        PROVE  step'[entry'[v]] # "written"
    <3>1. v # w /\ step[v] \in AfterSend /\ entry'[v] = entry[v] /\ entry[v] \in Workers
      BY <1>1, <1>2, <1>3, <1>4, <1>5, <1>6, <2>2 DEF AfterSend, TypeOK
    <3> QED
      BY <1>1, <1>2, <1>3, <1>4, <1>5, <1>6, <3>1 DEF FreshFit
  <2> QED
    BY <2>1, <2>2 DEF FreshFit
<1>12. KeptFit'
  BY <1>1 DEF KeptFit
<1>13. AcksFit'
  BY <1>1 DEF AcksFit
<1>14. DeferralsFit'
  BY <1>1 DEF DeferralsFit
<1>15. CountsFit'
  <2>1. /\ \A d \in Deliveries : Spent(d) => Spent(d)'
        /\ \A d \in Deliveries : retryCount[d] \in Nat
        /\ \A v \in Workers : read[v] \in Nat
    BY <1>1, <1>2, <1>3, <1>4, <1>5, <1>6, BoundsAssumption DEF Spent, TypeOK
  <2>2. \A d \in Deliveries : Budget(d) \in Nat /\ Budget(d)' \in Nat /\ Budget(d) <= Budget(d)'
    BY <1>1, <1>2, <1>3, <1>4, <1>5, <1>6, <2>1, BoundsAssumption DEF Budget
  <2>3. \A v \in Workers : step'[v] \in Uncounted \cup {"writing", "written"} =>
          step[v] = step'[v] /\ entry'[v] = entry[v]
    BY <1>1, <1>2, <1>3, <1>4, <1>5, <1>6 DEF Uncounted
  <2>4. \A d \in Deliveries : retryCount'[d] <= Budget(d)'
    BY <1>1, <1>2, <1>3, <1>4, <1>5, <1>6, <2>1, <2>2 DEF CountsFit
  <2>5. ASSUME NEW v \in Workers, step'[v] \in Uncounted
        PROVE  retryCount'[entry'[v]] < Budget(entry[v])'
    BY <1>1, <1>2, <1>3, <1>4, <1>5, <1>6, <2>1, <2>2, <2>3, <2>5 DEF CountsFit
  <2>6. ASSUME NEW v \in Workers, step'[v] = "writing"
        PROVE  /\ read'[v] < Budget(entry[v])'
               /\ (~Spent(entry[v])' => read'[v] = retryCount'[entry'[v]])
    BY <1>1, <1>2, <1>3, <1>4, <1>5, <1>6, <2>1, <2>2, <2>3, <2>6 DEF CountsFit, Uncounted
  <2>7. ASSUME NEW d \in Deliveries, step'[d] = "written"
        PROVE  \/ retryCount'[d] = 0 /\ d \in pending'
               \/ retryCount'[d] \in {0, 1} /\ Spent(d)'
    BY <1>1, <1>2, <1>3, <1>4, <1>5, <1>6, <2>1, <2>3, <2>7, WorkersAre DEF CountsFit
  <2> QED
    BY <2>4, <2>5, <2>6, <2>7 DEF CountsFit
<1>16. PrunesFit'
  <2> SUFFICES ASSUME NEW p \in Passes, step'[p] = "pruning", step'[entry'[p]] = "written"
               PROVE  Spent(entry[p])'
    BY DEF PrunesFit
  <2>1. step[p] = "pruning" /\ entry'[p] = entry[p]
    BY <1>1, <1>2, <1>3, <1>4, <1>5, <1>6
  <2>2. entry[p] \in Deliveries
    BY <2>1, HeldEntries DEF Holding
  <2>3. step[entry[p]] = "written"
    BY <1>1, <1>2, <1>3, <1>4, <1>5, <1>6, <2>1, <2>2
  <2> QED
    BY <1>1, <1>2, <1>3, <1>4, <1>5, <1>6, <2>1, <2>2, <2>3 DEF PrunesFit, Spent
<1>17. ReadsFit'
  BY <1>1 DEF ReadsFit, Uncounted
<1>18. ThrowingIsKept'
  BY <1>1 DEF ThrowingIsKept, Enqueued
<1>19. SettledIsNotResent'
  BY <1>1 DEF SettledIsNotResent
<1> QED
  BY <1>7, <1>8, <1>9, <1>10, <1>11, <1>12, <1>13, <1>14, <1>15, <1>16, <1>17, <1>18, <1>19

LEMMA LoadToSendKeeps ==
  ASSUME IInv, NEW w \in Workers, w \in Passes, step[w] = "loading", Goto(w, "sending"),
         entry[w] \in pending, retryCount[entry[w]] < MaxRetries,
         UNCHANGED <<claims, files, todo, deferrals, recovered, crashes, history>>
  PROVE  IInv'
<1> USE WorkersAre DEF IInv
<1>1. /\ pending' = pending /\ retryCount' = retryCount /\ failed' = failed
      /\ entry' = entry /\ read' = read /\ todo' = todo /\ claims' = claims
      /\ deferral' = deferral /\ deferralRead' = deferralRead
      /\ recovered' = recovered /\ crashes' = crashes
      /\ enqueued' = enqueued /\ sent' = sent /\ aborted' = aborted
      /\ settled' = settled
      /\ Enqueued' = Enqueued
  BY DEF Goto, files, deferrals, history, Enqueued
<1>2. /\ step' \in [Workers -> Steps]
      /\ \A v \in Workers : step'[v] = IF v = w THEN "sending" ELSE step[v]
  BY DEF Goto, TypeOK, Steps
<1>3. /\ entry[w] \in Deliveries /\ entry[w] \in claims
      /\ step[entry[w]] \notin {"idle", "direct"}
      /\ \A v \in Workers \ {w} : step[v] \in Holding => entry[v] # entry[w]
      /\ w \in Deliveries => entry[w] = w
  BY WorkersAre, HeldEntries DEF Holding
<1>4. /\ crashes \in Nat /\ \A v \in Workers : step[v] \in Uncounted => entry[v] \in Deliveries
  BY HeldEntries DEF TypeOK, Holding, Uncounted
<1>5. \A v \in Workers : step[v] = "acking" => entry[v] # entry[w]
  BY <1>3 DEF Holding
<1>6. /\ retryCount[entry[w]] \in Nat
      /\ Budget(entry[w]) \in Nat /\ retryCount[entry[w]] < Budget(entry[w])
      /\ deferral[entry[w]] = "writing" => /\ deferralRead[entry[w]] \in Nat
                                           /\ deferralRead[entry[w]] < MaxRetries + crashes
  BY <1>3, <1>4, BoundsAssumption DEF ReadsFit, Budget, TypeOK
<1>7. TypeOK'
  BY <1>1, <1>2 DEF TypeOK
<1>8. WorkersFit'
  BY <1>1, <1>2 DEF WorkersFit, Holding
<1>9. ClaimsFit'
  BY <1>1, <1>2 DEF ClaimsFit, Holding
<1>10. EntriesFit'
  BY <1>1, <1>2 DEF EntriesFit
<1>11. FreshFit'
  <2>1. \A d \in Deliveries : step'[d] \in {"idle", "direct", "written"} => d \notin settled'
    BY <1>1, <1>2, <1>3, <1>4, <1>5, <1>6 DEF FreshFit
  <2>2. ASSUME NEW v \in Workers, step'[v] \in AfterSend
        PROVE  step'[entry'[v]] # "written"
    <3>1. entry'[v] = entry[v] /\ entry[v] \in Workers
      BY <1>1, <1>2, <1>3, <1>4, <1>5, <1>6, <2>2 DEF TypeOK
    <3>2. step[entry[v]] # "written"
      BY <1>1, <1>2, <1>3, <1>4, <1>5, <1>6, <2>2 DEF FreshFit, AfterSend
    <3> QED
      BY <1>1, <1>2, <1>3, <1>4, <1>5, <1>6, <3>1, <3>2
  <2> QED
    BY <2>1, <2>2 DEF FreshFit
<1>12. KeptFit'
  BY <1>1, <1>2 DEF KeptFit
<1>13. AcksFit'
  BY <1>1, <1>2 DEF AcksFit
<1>14. DeferralsFit'
  BY <1>1 DEF DeferralsFit
<1>15. CountsFit'
  BY <1>1, <1>2, <1>6 DEF CountsFit, Budget, Spent, Uncounted
<1>16. PrunesFit'
  <2> SUFFICES ASSUME NEW p \in Passes, step'[p] = "pruning", step'[entry'[p]] = "written"
               PROVE  Spent(entry[p])'
    BY DEF PrunesFit
  <2>1. step[p] = "pruning" /\ entry'[p] = entry[p]
    BY <1>1, <1>2, <1>3, <1>4, <1>5, <1>6
  <2>2. entry[p] \in Deliveries
    BY <2>1, HeldEntries DEF Holding
  <2>3. step[entry[p]] = "written"
    BY <1>1, <1>2, <1>3, <1>4, <1>5, <1>6, <2>1, <2>2
  <2> QED
    BY <1>1, <1>2, <1>3, <1>4, <1>5, <1>6, <2>1, <2>2, <2>3 DEF PrunesFit, Spent
<1>17. ReadsFit'
  BY <1>1, <1>2, <1>6 DEF ReadsFit, Uncounted
<1>18. ThrowingIsKept'
  BY <1>1 DEF ThrowingIsKept, Enqueued
<1>19. SettledIsNotResent'
  BY <1>1, <1>2, <1>5 DEF SettledIsNotResent, AcksFit
<1> QED
  BY <1>7, <1>8, <1>9, <1>10, <1>11, <1>12, <1>13, <1>14, <1>15, <1>16, <1>17, <1>18, <1>19

LEMMA LoadToPruneKeeps ==
  ASSUME IInv, NEW w \in Workers, w \in Passes, step[w] = "loading", Goto(w, "pruning"),
         entry[w] \in pending, retryCount[entry[w]] >= MaxRetries,
         UNCHANGED <<claims, files, todo, deferrals, recovered, crashes, history>>
  PROVE  IInv'
<1> USE WorkersAre DEF IInv
<1>1. /\ pending' = pending /\ retryCount' = retryCount /\ failed' = failed
      /\ entry' = entry /\ read' = read /\ todo' = todo /\ claims' = claims
      /\ deferral' = deferral /\ deferralRead' = deferralRead
      /\ recovered' = recovered /\ crashes' = crashes
      /\ enqueued' = enqueued /\ sent' = sent /\ aborted' = aborted
      /\ settled' = settled
      /\ Enqueued' = Enqueued
  BY DEF Goto, files, deferrals, history, Enqueued
<1>2. /\ step' \in [Workers -> Steps]
      /\ \A v \in Workers : step'[v] = IF v = w THEN "pruning" ELSE step[v]
  BY DEF Goto, TypeOK, Steps
<1>3. /\ entry[w] \in Deliveries /\ entry[w] \in claims
      /\ step[entry[w]] \notin {"idle", "direct"}
      /\ \A v \in Workers \ {w} : step[v] \in Holding => entry[v] # entry[w]
      /\ w \in Deliveries => entry[w] = w
  BY WorkersAre, HeldEntries DEF Holding
<1>4. /\ crashes \in Nat /\ \A v \in Workers : step[v] \in Uncounted => entry[v] \in Deliveries
  BY HeldEntries DEF TypeOK, Holding, Uncounted
<1>5. \A v \in Workers : step[v] = "acking" => entry[v] # entry[w]
  BY <1>3 DEF Holding
<1>6. step[entry[w]] = "written" => Spent(entry[w])
  BY <1>3, BoundsAssumption DEF CountsFit, TypeOK
<1>7. TypeOK'
  BY <1>1, <1>2 DEF TypeOK
<1>8. WorkersFit'
  BY <1>1, <1>2 DEF WorkersFit, Holding
<1>9. ClaimsFit'
  BY <1>1, <1>2 DEF ClaimsFit, Holding
<1>10. EntriesFit'
  BY <1>1, <1>2 DEF EntriesFit
<1>11. FreshFit'
  <2>1. \A d \in Deliveries : step'[d] \in {"idle", "direct", "written"} => d \notin settled'
    BY <1>1, <1>2, <1>3, <1>4, <1>5, <1>6 DEF FreshFit
  <2>2. ASSUME NEW v \in Workers, step'[v] \in AfterSend
        PROVE  step'[entry'[v]] # "written"
    <3>1. entry'[v] = entry[v] /\ entry[v] \in Workers
      BY <1>1, <1>2, <1>3, <1>4, <1>5, <1>6, <2>2 DEF TypeOK
    <3>2. step[entry[v]] # "written"
      BY <1>1, <1>2, <1>3, <1>4, <1>5, <1>6, <2>2 DEF FreshFit, AfterSend
    <3> QED
      BY <1>1, <1>2, <1>3, <1>4, <1>5, <1>6, <3>1, <3>2
  <2> QED
    BY <2>1, <2>2 DEF FreshFit
<1>12. KeptFit'
  BY <1>1, <1>2 DEF KeptFit
<1>13. AcksFit'
  BY <1>1, <1>2 DEF AcksFit
<1>14. DeferralsFit'
  BY <1>1 DEF DeferralsFit
<1>15. CountsFit'
  BY <1>1, <1>2 DEF CountsFit, Budget, Spent, Uncounted
<1>16. PrunesFit'
  <2> SUFFICES ASSUME NEW p \in Passes, step'[p] = "pruning", step'[entry[p]] = "written"
               PROVE  Spent(entry[p])'
    BY <1>1 DEF PrunesFit
  <2>1. CASE p = w
    BY <1>1, <1>2, <1>3, <1>6, <2>1 DEF Spent
  <2>2. CASE p # w
    BY <1>1, <1>2, <1>3, <2>2, HeldEntries DEF PrunesFit, Spent, Holding
  <2> QED
    BY <2>1, <2>2
<1>17. ReadsFit'
  BY <1>1, <1>2 DEF ReadsFit, Uncounted
<1>18. ThrowingIsKept'
  BY <1>1 DEF ThrowingIsKept, Enqueued
<1>19. SettledIsNotResent'
  BY <1>1, <1>2 DEF SettledIsNotResent
<1> QED
  BY <1>7, <1>8, <1>9, <1>10, <1>11, <1>12, <1>13, <1>14, <1>15, <1>16, <1>17, <1>18, <1>19

LEMMA ClaimNextKeeps ==
  ASSUME IInv, NEW p \in Passes, ClaimNext(p)
  PROVE  IInv'
<1>1. PICK d \in todo[p] :
        /\ step[p] = "idle"
        /\ todo' = [todo EXCEPT ![p] = @ \ {d}]
        /\ IF CanClaim(d)
           THEN /\ claims' = claims \cup {d}
                /\ step' = [step EXCEPT ![p] = "loading"]
                /\ entry' = [entry EXCEPT ![p] = d]
                /\ UNCHANGED read
           ELSE UNCHANGED <<claims, worker>>
        /\ UNCHANGED <<files, deferrals, recovered, crashes, history>>
  BY DEF ClaimNext
<1>2. CASE CanClaim(d)
  BY <1>1, <1>2, ClaimedNextKeeps DEF CanClaim
<1>3. CASE ~CanClaim(d)
  BY <1>1, <1>3, SkipClaimedKeeps
<1> QED
  BY <1>2, <1>3

LEMMA LoadPendingDeliveryKeeps ==
  ASSUME IInv, NEW p \in Workers, p \in Passes, LoadPendingDelivery(p)
  PROVE  IInv'
<1>1. step[p] = "loading" /\ step[p] \in Holding
  BY DEF LoadPendingDelivery, Holding
<1>2. TypeOK
  BY DEF IInv
<1>3. CASE LetGo(p)
  BY <1>1, <1>2, <1>3, LetGoKeeps DEF LoadPendingDelivery, files, deferrals, history, TypeOK
<1>4. CASE /\ entry[p] \in pending /\ retryCount[entry[p]] < MaxRetries /\ Goto(p, "sending")
           /\ UNCHANGED claims
  BY <1>1, <1>4, LoadToSendKeeps DEF LoadPendingDelivery
<1>5. CASE /\ entry[p] \in pending /\ retryCount[entry[p]] >= MaxRetries /\ Goto(p, "pruning")
           /\ UNCHANGED claims
  BY <1>1, <1>5, LoadToPruneKeeps DEF LoadPendingDelivery
<1> QED
  BY <1>3, <1>4, <1>5 DEF LoadPendingDelivery

LEMMA BeginPassKeeps ==
  ASSUME IInv, NEW p \in Passes, BeginPass(p)
  PROVE  IInv'
<1> USE WorkersAre DEF IInv
<1>1. /\ pending' = pending /\ retryCount' = retryCount /\ failed' = failed
      /\ step' = step /\ entry' = entry /\ read' = read /\ claims' = claims
      /\ deferral' = deferral /\ deferralRead' = deferralRead
      /\ crashes' = crashes /\ enqueued' = enqueued /\ sent' = sent
      /\ aborted' = aborted /\ settled' = settled
      /\ Enqueued' = Enqueued
  BY DEF BeginPass, worker, files, deferrals, history, Enqueued
<1>2. /\ todo' \in [Passes -> SUBSET Deliveries]
      /\ \A q \in Passes : todo'[q] \subseteq todo[q] \cup pending
  BY DEF BeginPass, TypeOK
<1>3. /\ recovered' \in BOOLEAN /\ (recovered => recovered')
      /\ (recovered' # recovered => p = Recovery)
  BY DEF BeginPass, TypeOK
<1>4. /\ recovered' = recovered => todo'[Recovery] = todo[Recovery]
      /\ recovered' # recovered => \A d \in Deliveries : deferral[d] = "none" 
  BY <1>3 DEF BeginPass, TypeOK, DeferralsFit
<1>5. todo'[Recovery] # {} => recovered'
  BY <1>3, <1>4 DEF BeginPass, TypeOK, DeferralsFit
<1>6. \A d \in Deliveries : Spent(d) => Spent(d)'
  BY <1>1, <1>3, <1>4 DEF Spent, TypeOK
<1>7. /\ crashes \in Nat /\ \A v \in Workers : step[v] \in Uncounted => entry[v] \in Deliveries
  BY HeldEntries DEF TypeOK, Holding, Uncounted
<1>8. TypeOK'
  BY <1>1, <1>2, <1>3 DEF TypeOK
<1>9. WorkersFit'
  BY <1>1 DEF WorkersFit, Holding
<1>10. ClaimsFit'
  BY <1>1 DEF ClaimsFit, Holding
<1>11. EntriesFit'
  BY <1>1, <1>2 DEF EntriesFit
<1>12. FreshFit'
  BY <1>1 DEF FreshFit, AfterSend
<1>13. KeptFit'
  BY <1>1 DEF KeptFit
<1>14. AcksFit'
  BY <1>1 DEF AcksFit
<1>15. DeferralsFit'
  BY <1>1, <1>4, <1>5 DEF DeferralsFit
<1>16. CountsFit'
  <2>1. /\ \A d \in Deliveries : retryCount[d] \in Nat
        /\ \A v \in Workers : read[v] \in Nat
    BY <1>1, <1>2, <1>3, <1>4, <1>5, <1>6, <1>7, BoundsAssumption DEF TypeOK
  <2>2. \A d \in Deliveries : Budget(d) \in Nat /\ Budget(d)' \in Nat /\ Budget(d) <= Budget(d)'
    BY <1>1, <1>2, <1>3, <1>4, <1>5, <1>6, <1>7, <2>1, BoundsAssumption DEF Budget
  <2>3. \A v \in Workers : step'[v] \in Uncounted \cup {"writing", "written"} =>
          step[v] = step'[v] /\ entry'[v] = entry[v]
    BY <1>1, <1>2, <1>3, <1>4, <1>5, <1>6, <1>7 DEF Uncounted
  <2>4. \A d \in Deliveries : retryCount'[d] <= Budget(d)'
    BY <1>1, <1>2, <1>3, <1>4, <1>5, <1>6, <1>7, <2>1, <2>2 DEF CountsFit
  <2>5. ASSUME NEW v \in Workers, step'[v] \in Uncounted
        PROVE  retryCount'[entry'[v]] < Budget(entry[v])'
    BY <1>1, <1>2, <1>3, <1>4, <1>5, <1>6, <1>7, <2>1, <2>2, <2>3, <2>5 DEF CountsFit
  <2>6. ASSUME NEW v \in Workers, step'[v] = "writing"
        PROVE  /\ read'[v] < Budget(entry[v])'
               /\ (~Spent(entry[v])' => read'[v] = retryCount'[entry'[v]])
    BY <1>1, <1>2, <1>3, <1>4, <1>5, <1>6, <1>7, <2>1, <2>2, <2>3, <2>6 DEF CountsFit, Uncounted
  <2>7. ASSUME NEW d \in Deliveries, step'[d] = "written"
        PROVE  \/ retryCount'[d] = 0 /\ d \in pending'
               \/ retryCount'[d] \in {0, 1} /\ Spent(d)'
    BY <1>1, <1>2, <1>3, <1>4, <1>5, <1>6, <1>7, <2>1, <2>3, <2>7, WorkersAre DEF CountsFit
  <2> QED
    BY <2>4, <2>5, <2>6, <2>7 DEF CountsFit
<1>17. PrunesFit'
  <2> SUFFICES ASSUME NEW v \in Passes, step'[v] = "pruning", step'[entry'[v]] = "written"
               PROVE  Spent(entry[v])'
    BY DEF PrunesFit
  <2>1. step[v] = "pruning" /\ entry'[v] = entry[v]
    BY <1>1, <1>2, <1>3, <1>4, <1>5, <1>6, <1>7
  <2>2. entry[v] \in Deliveries
    BY <2>1, HeldEntries DEF Holding
  <2>3. step[entry[v]] = "written"
    BY <1>1, <1>2, <1>3, <1>4, <1>5, <1>6, <1>7, <2>1, <2>2
  <2> QED
    BY <1>1, <1>2, <1>3, <1>4, <1>5, <1>6, <1>7, <2>1, <2>2, <2>3 DEF PrunesFit, Spent
<1>18. ReadsFit'
  BY <1>1 DEF ReadsFit, Uncounted
<1>19. ThrowingIsKept'
  BY <1>1 DEF ThrowingIsKept, Enqueued
<1>20. SettledIsNotResent'
  BY <1>1 DEF SettledIsNotResent
<1> QED
  BY <1>8, <1>9, <1>10, <1>11, <1>12, <1>13, <1>14, <1>15, <1>16, <1>17, <1>18, <1>19, <1>20

LEMMA BudgetExceededKeeps ==
  ASSUME IInv, BudgetExceeded
  PROVE  IInv'
<1> USE WorkersAre DEF IInv
<1>1. /\ pending' = pending /\ retryCount' = retryCount /\ failed' = failed
      /\ step' = step /\ entry' = entry /\ read' = read /\ claims' = claims
      /\ deferralRead' = deferralRead /\ recovered' = recovered
      /\ crashes' = crashes /\ enqueued' = enqueued /\ sent' = sent
      /\ aborted' = aborted /\ settled' = settled
      /\ Enqueued' = Enqueued
  BY DEF BudgetExceeded, worker, files, history, Enqueued
<1>2. /\ todo' \in [Passes -> SUBSET Deliveries]
      /\ \A q \in Passes : todo'[q] \subseteq todo[q]
      /\ todo'[Recovery] = {}
  BY DEF BudgetExceeded, TypeOK
<1>3. /\ deferral' \in [Deliveries -> {"none", "reading", "writing"}]
      /\ \A d \in Deliveries : deferral'[d] # "writing"
      /\ \A d \in Deliveries : deferral'[d] # "none" => d \in todo[Recovery]
  BY DEF BudgetExceeded, TypeOK
<1>4. recovered /\ todo[Recovery] # {}
  BY DEF BudgetExceeded, DeferralsFit
<1>5. /\ crashes \in Nat /\ \A v \in Workers : step[v] \in Uncounted => entry[v] \in Deliveries
  BY HeldEntries DEF TypeOK, Holding, Uncounted
<1>6. TypeOK'
  BY <1>1, <1>2, <1>3 DEF TypeOK
<1>7. WorkersFit'
  BY <1>1 DEF WorkersFit, Holding
<1>8. ClaimsFit'
  BY <1>1 DEF ClaimsFit, Holding
<1>9. EntriesFit'
  BY <1>1, <1>2, <1>3 DEF EntriesFit
<1>10. FreshFit'
  BY <1>1 DEF FreshFit, AfterSend
<1>11. KeptFit'
  BY <1>1 DEF KeptFit
<1>12. AcksFit'
  BY <1>1 DEF AcksFit
<1>13. DeferralsFit'
  BY <1>1, <1>2, <1>3 DEF DeferralsFit
<1>14. CountsFit'
  <2>1. /\ \A d \in Deliveries : Spent(d) => Spent(d)'
        /\ \A d \in Deliveries : retryCount[d] \in Nat
        /\ \A v \in Workers : read[v] \in Nat
    BY <1>1, <1>2, <1>3, <1>4, <1>5, BoundsAssumption DEF Spent, TypeOK
  <2>2. \A d \in Deliveries : Budget(d) \in Nat /\ Budget(d)' \in Nat /\ Budget(d) <= Budget(d)'
    BY <1>1, <1>2, <1>3, <1>4, <1>5, <2>1, BoundsAssumption DEF Budget
  <2>3. \A v \in Workers : step'[v] \in Uncounted \cup {"writing", "written"} =>
          step[v] = step'[v] /\ entry'[v] = entry[v]
    BY <1>1, <1>2, <1>3, <1>4, <1>5 DEF Uncounted
  <2>4. \A d \in Deliveries : retryCount'[d] <= Budget(d)'
    BY <1>1, <1>2, <1>3, <1>4, <1>5, <2>1, <2>2 DEF CountsFit
  <2>5. ASSUME NEW v \in Workers, step'[v] \in Uncounted
        PROVE  retryCount'[entry'[v]] < Budget(entry[v])'
    BY <1>1, <1>2, <1>3, <1>4, <1>5, <2>1, <2>2, <2>3, <2>5 DEF CountsFit
  <2>6. ASSUME NEW v \in Workers, step'[v] = "writing"
        PROVE  /\ read'[v] < Budget(entry[v])'
               /\ (~Spent(entry[v])' => read'[v] = retryCount'[entry'[v]])
    BY <1>1, <1>2, <1>3, <1>4, <1>5, <2>1, <2>2, <2>3, <2>6 DEF CountsFit, Uncounted
  <2>7. ASSUME NEW d \in Deliveries, step'[d] = "written"
        PROVE  \/ retryCount'[d] = 0 /\ d \in pending'
               \/ retryCount'[d] \in {0, 1} /\ Spent(d)'
    BY <1>1, <1>2, <1>3, <1>4, <1>5, <2>1, <2>3, <2>7, WorkersAre DEF CountsFit
  <2> QED
    BY <2>4, <2>5, <2>6, <2>7 DEF CountsFit
<1>15. PrunesFit'
  <2> SUFFICES ASSUME NEW p \in Passes, step'[p] = "pruning", step'[entry'[p]] = "written"
               PROVE  Spent(entry[p])'
    BY DEF PrunesFit
  <2>1. step[p] = "pruning" /\ entry'[p] = entry[p]
    BY <1>1, <1>2, <1>3, <1>4, <1>5
  <2>2. entry[p] \in Deliveries
    BY <2>1, HeldEntries DEF Holding
  <2>3. step[entry[p]] = "written"
    BY <1>1, <1>2, <1>3, <1>4, <1>5, <2>1, <2>2
  <2> QED
    BY <1>1, <1>2, <1>3, <1>4, <1>5, <2>1, <2>2, <2>3 DEF PrunesFit, Spent
<1>16. ReadsFit'
  BY <1>3 DEF ReadsFit, Uncounted
<1>17. ThrowingIsKept'
  BY <1>1 DEF ThrowingIsKept, Enqueued
<1>18. SettledIsNotResent'
  BY <1>1 DEF SettledIsNotResent
<1> QED
  BY <1>6, <1>7, <1>8, <1>9, <1>10, <1>11, <1>12, <1>13, <1>14, <1>15, <1>16, <1>17, <1>18

LEMMA DeferReadKeeps ==
  ASSUME IInv, NEW e \in Deliveries, DeferRead(e)
  PROVE  IInv'
<1> USE WorkersAre DEF IInv
<1>1. /\ pending' = pending /\ retryCount' = retryCount /\ failed' = failed
      /\ step' = step /\ entry' = entry /\ read' = read /\ todo' = todo
      /\ claims' = claims /\ recovered' = recovered /\ crashes' = crashes
      /\ enqueued' = enqueued /\ sent' = sent /\ aborted' = aborted
      /\ settled' = settled
      /\ Enqueued' = Enqueued
  BY DEF DeferRead, worker, files, history, Enqueued
<1>2. /\ deferral' \in [Deliveries -> {"none", "reading", "writing"}]
      /\ deferral[e] = "reading" /\ deferral'[e] \in {"none", "writing"}
      /\ \A d \in Deliveries \ {e} : deferral'[d] = deferral[d]
  BY DEF DeferRead, TypeOK
<1>3. /\ deferralRead' \in [Deliveries -> Nat]
      /\ deferralRead'[e] = retryCount[e]
      /\ \A d \in Deliveries \ {e} : deferralRead'[d] = deferralRead[d]
  BY BoundsAssumption DEF DeferRead, TypeOK
<1>4. /\ crashes \in Nat /\ \A v \in Workers : step[v] \in Uncounted => entry[v] \in Deliveries
  BY HeldEntries DEF TypeOK, Holding, Uncounted
<1>5. /\ retryCount[e] \in Nat /\ retryCount[e] <= MaxRetries + crashes
      /\ \A v \in Workers : step[v] \in Uncounted /\ entry[v] = e => retryCount[e] < MaxRetries + crashes
      /\ step[e] = "written" => retryCount[e] < MaxRetries + crashes
  <2>1. ~Spent(e)
    BY <1>2 DEF Spent
  <2>2. Budget(e) = MaxRetries + crashes /\ retryCount[e] \in Nat
    BY <1>4, <2>1, BoundsAssumption DEF Budget, TypeOK
  <2> QED
    BY <1>4, <2>1, <2>2, BoundsAssumption DEF CountsFit
<1>6. TypeOK'
  BY <1>1, <1>2, <1>3 DEF TypeOK
<1>7. WorkersFit'
  BY <1>1 DEF WorkersFit, Holding
<1>8. ClaimsFit'
  BY <1>1 DEF ClaimsFit, Holding
<1>9. EntriesFit'
  BY <1>1, <1>2 DEF EntriesFit
<1>10. FreshFit'
  BY <1>1 DEF FreshFit, AfterSend
<1>11. KeptFit'
  BY <1>1 DEF KeptFit
<1>12. AcksFit'
  BY <1>1 DEF AcksFit
<1>13. DeferralsFit'
  BY <1>1, <1>2 DEF DeferralsFit
<1>14. CountsFit'
  <2>1. /\ \A d \in Deliveries : Spent(d) => Spent(d)'
        /\ \A d \in Deliveries : retryCount[d] \in Nat
        /\ \A v \in Workers : read[v] \in Nat
    BY <1>1, <1>2, <1>3, <1>4, <1>5, BoundsAssumption DEF Spent, TypeOK
  <2>2. \A d \in Deliveries : Budget(d) \in Nat /\ Budget(d)' \in Nat /\ Budget(d) <= Budget(d)'
    BY <1>1, <1>2, <1>3, <1>4, <1>5, <2>1, BoundsAssumption DEF Budget
  <2>3. \A v \in Workers : step'[v] \in Uncounted \cup {"writing", "written"} =>
          step[v] = step'[v] /\ entry'[v] = entry[v]
    BY <1>1, <1>2, <1>3, <1>4, <1>5 DEF Uncounted
  <2>4. \A d \in Deliveries : retryCount'[d] <= Budget(d)'
    BY <1>1, <1>2, <1>3, <1>4, <1>5, <2>1, <2>2 DEF CountsFit
  <2>5. ASSUME NEW v \in Workers, step'[v] \in Uncounted
        PROVE  retryCount'[entry'[v]] < Budget(entry[v])'
    BY <1>1, <1>2, <1>3, <1>4, <1>5, <2>1, <2>2, <2>3, <2>5 DEF CountsFit
  <2>6. ASSUME NEW v \in Workers, step'[v] = "writing"
        PROVE  /\ read'[v] < Budget(entry[v])'
               /\ (~Spent(entry[v])' => read'[v] = retryCount'[entry'[v]])
    BY <1>1, <1>2, <1>3, <1>4, <1>5, <2>1, <2>2, <2>3, <2>6 DEF CountsFit, Uncounted
  <2>7. ASSUME NEW d \in Deliveries, step'[d] = "written"
        PROVE  \/ retryCount'[d] = 0 /\ d \in pending'
               \/ retryCount'[d] \in {0, 1} /\ Spent(d)'
    BY <1>1, <1>2, <1>3, <1>4, <1>5, <2>1, <2>3, <2>7, WorkersAre DEF CountsFit
  <2> QED
    BY <2>4, <2>5, <2>6, <2>7 DEF CountsFit
<1>15. PrunesFit'
  <2> SUFFICES ASSUME NEW p \in Passes, step'[p] = "pruning", step'[entry'[p]] = "written"
               PROVE  Spent(entry[p])'
    BY DEF PrunesFit
  <2>1. step[p] = "pruning" /\ entry'[p] = entry[p]
    BY <1>1, <1>2, <1>3, <1>4, <1>5
  <2>2. entry[p] \in Deliveries
    BY <2>1, HeldEntries DEF Holding
  <2>3. step[entry[p]] = "written"
    BY <1>1, <1>2, <1>3, <1>4, <1>5, <2>1, <2>2
  <2> QED
    BY <1>1, <1>2, <1>3, <1>4, <1>5, <2>1, <2>2, <2>3 DEF PrunesFit, Spent
<1>16. ReadsFit'
  BY <1>1, <1>2, <1>3, <1>5 DEF ReadsFit, Uncounted
<1>17. ThrowingIsKept'
  BY <1>1 DEF ThrowingIsKept, Enqueued
<1>18. SettledIsNotResent'
  BY <1>1 DEF SettledIsNotResent
<1> QED
  BY <1>6, <1>7, <1>8, <1>9, <1>10, <1>11, <1>12, <1>13, <1>14, <1>15, <1>16, <1>17, <1>18

LEMMA DeferWriteKeeps ==
  ASSUME IInv, NEW e \in Deliveries, DeferWrite(e)
  PROVE  IInv'
<1> USE WorkersAre DEF IInv
<1>1. /\ failed' = failed /\ step' = step /\ entry' = entry /\ read' = read
      /\ todo' = todo /\ claims' = claims /\ recovered' = recovered
      /\ crashes' = crashes /\ enqueued' = enqueued /\ sent' = sent
      /\ aborted' = aborted
      /\ Enqueued' = Enqueued
  BY DEF DeferWrite, worker, Enqueued
<1>2. /\ deferral' \in [Deliveries -> {"none", "reading", "writing"}]
      /\ deferral[e] = "writing" /\ deferral'[e] = "none"
      /\ \A d \in Deliveries \ {e} : deferral'[d] = deferral[d]
  BY DEF DeferWrite, TypeOK
<1>3. /\ deferralRead' \in [Deliveries -> Nat]
      /\ \A d \in Deliveries \ {e} : deferralRead'[d] = deferralRead[d]
  BY DEF DeferWrite, TypeOK
<1>4. /\ crashes \in Nat /\ \A v \in Workers : step[v] \in Uncounted => entry[v] \in Deliveries
  BY HeldEntries DEF TypeOK, Holding, Uncounted
<1>5. /\ recovered /\ todo[Recovery] = {} /\ ~Spent(e) /\ Spent(e)'
      /\ \A d \in Deliveries \ {e} : Spent(d)' = Spent(d)
  BY <1>1, <1>2 DEF DeferralsFit, Spent
<1>6. /\ deferralRead[e] \in Nat /\ deferralRead[e] <= MaxRetries + crashes
      /\ step[e] = "written" => deferralRead[e] = 0
      /\ \A v \in Workers : step[v] \in Uncounted /\ entry[v] = e => deferralRead[e] < MaxRetries + crashes
  BY <1>2, <1>5, BoundsAssumption DEF ReadsFit, CountsFit, TypeOK
<1>7. /\ pending' = pending \cup {e} /\ settled' \subseteq settled
      /\ e \in pending \/ e \notin settled'
      /\ e \in Enqueued
  BY <1>2 DEF DeferWrite, WriteEntry, EntriesFit, TypeOK
<1>8. /\ retryCount'[e] = deferralRead[e] + 1
      /\ \A d \in Deliveries \ {e} : retryCount'[d] = retryCount[d]
  BY DEF DeferWrite, WriteEntry, TypeOK
<1>9. retryCount' \in [Deliveries -> 0..(MaxRetries + MaxCrashes + 1)]
  <2>1. deferralRead[e] + 1 \in 0..(MaxRetries + MaxCrashes + 1)
    BY <1>4, <1>6, BoundsAssumption DEF TypeOK
  <2> QED
    BY <2>1 DEF DeferWrite, WriteEntry, TypeOK
<1>10. TypeOK'
  BY <1>1, <1>2, <1>3, <1>7, <1>9 DEF TypeOK
<1>11. WorkersFit'
  BY <1>1 DEF WorkersFit, Holding
<1>12. ClaimsFit'
  BY <1>1 DEF ClaimsFit, Holding
<1>13. EntriesFit'
  BY <1>1, <1>2, <1>7 DEF EntriesFit
<1>14. FreshFit'
  BY <1>1, <1>7 DEF FreshFit
<1>15. KeptFit'
  BY <1>1, <1>7 DEF KeptFit
<1>16. AcksFit'
  BY <1>1, <1>7 DEF AcksFit
<1>17. DeferralsFit'
  BY <1>1, <1>2 DEF DeferralsFit
<1>18. CountsFit'
  <2>1. /\ Budget(e) = MaxRetries + crashes /\ Budget(e)' = MaxRetries + crashes + 1
        /\ \A d \in Deliveries \ {e} : Budget(d)' = Budget(d)
        /\ MaxRetries + crashes \in Nat /\ MaxRetries + crashes + 1 \in Nat
    BY <1>1, <1>4, <1>5, BoundsAssumption DEF Budget
  <2>2. \A d \in Deliveries : retryCount'[d] <= Budget(d)'
    <3>1. retryCount'[e] <= Budget(e)'
      BY <1>4, <1>6, <1>8, <2>1, BoundsAssumption
    <3> QED
      BY <1>8, <2>1, <3>1 DEF CountsFit
  <2>3. ASSUME NEW v \in Workers, step'[v] \in Uncounted
        PROVE  retryCount'[entry'[v]] < Budget(entry[v])'
    <3>1. step[v] \in Uncounted /\ entry'[v] = entry[v] /\ entry[v] \in Deliveries
      BY <1>1, <1>4, <2>3
    <3>2. CASE entry[v] = e
      BY <1>1, <1>4, <1>6, <1>8, <2>1, <3>1, <3>2, BoundsAssumption
    <3>3. CASE entry[v] # e
      BY <1>1, <1>8, <2>1, <3>1, <3>3 DEF CountsFit
    <3> QED
      BY <3>2, <3>3
  <2>4. ASSUME NEW v \in Workers, step'[v] = "writing"
        PROVE  /\ read'[v] < Budget(entry[v])'
               /\ (~Spent(entry[v])' => read'[v] = retryCount'[entry'[v]])
    <3>1. /\ step[v] = "writing" /\ read'[v] = read[v] /\ entry'[v] = entry[v]
          /\ entry[v] \in Deliveries
      BY <1>1, <1>4, <2>4 DEF Uncounted
    <3>2. read[v] \in Nat /\ read[v] < Budget(entry[v])
      BY <3>1 DEF CountsFit, TypeOK
    <3>3. CASE entry[v] = e
      BY <1>1, <1>5, <2>1, <3>1, <3>2, <3>3
    <3>4. CASE entry[v] # e
      BY <1>1, <1>5, <1>8, <2>1, <3>1, <3>2, <3>4 DEF CountsFit
    <3> QED
      BY <3>3, <3>4
  <2>5. ASSUME NEW d \in Deliveries, step'[d] = "written"
        PROVE  \/ retryCount'[d] = 0 /\ d \in pending'
               \/ retryCount'[d] \in {0, 1} /\ Spent(d)'
    BY <1>1, <1>5, <1>6, <1>7, <1>8, <2>5 DEF CountsFit
  <2> QED
    BY <2>2, <2>3, <2>4, <2>5 DEF CountsFit
<1>19. PrunesFit'
  <2> SUFFICES ASSUME NEW p \in Passes, step'[p] = "pruning", step'[entry'[p]] = "written"
               PROVE  Spent(entry[p])'
    BY DEF PrunesFit
  <2>1. step[p] = "pruning" /\ entry'[p] = entry[p] /\ step[entry[p]] = "written"
    BY <1>1
  <2>2. entry[p] \in Deliveries
    BY <2>1, HeldEntries DEF Holding
  <2> QED
    BY <1>1, <1>5, <2>1, <2>2 DEF PrunesFit
<1>20. ReadsFit'
  BY <1>1, <1>2, <1>3, <1>7, <1>8 DEF ReadsFit, Uncounted
<1>21. ThrowingIsKept'
  BY <1>1, <1>7 DEF ThrowingIsKept, Enqueued
<1>22. SettledIsNotResent'
  BY <1>1, <1>7 DEF SettledIsNotResent
<1> QED
  BY <1>10, <1>11, <1>12, <1>13, <1>14, <1>15, <1>16, <1>17, <1>18, <1>19, <1>20, <1>21, <1>22

LEMMA StartLiveKeeps ==
  ASSUME IInv, NEW w \in Deliveries, StartLive(w)
  PROVE  IInv'
<1> USE WorkersAre DEF IInv
<1>1. /\ pending' = pending /\ retryCount' = retryCount /\ failed' = failed
      /\ entry' = entry /\ read' = read /\ todo' = todo
      /\ deferral' = deferral /\ deferralRead' = deferralRead
      /\ recovered' = recovered /\ crashes' = crashes
      /\ enqueued' = enqueued /\ sent' = sent /\ aborted' = aborted
      /\ settled' = settled
      /\ Enqueued' = Enqueued
  BY DEF StartLive, Goto, files, deferrals, history, Enqueued
<1>2. /\ step' \in [Workers -> Steps]
      /\ step[w] = "written" /\ w \in Workers
      /\ \A v \in Workers \ {w} : step'[v] = step[v]
  BY DEF StartLive, Goto, TypeOK, Steps
<1>3. \/ step'[w] = "sending" /\ w \notin claims /\ claims' = claims \cup {w}
      \/ step'[w] = "done" /\ claims' = claims
  BY DEF StartLive, CanClaim, Goto, TypeOK
<1>4. /\ entry[w] = w
      /\ \A v \in Workers \ {w} : step[v] \in Holding => entry[v] \in claims
  BY DEF WorkersFit, ClaimsFit
<1>5. /\ crashes \in Nat /\ \A v \in Workers : step[v] \in Uncounted => entry[v] \in Deliveries
  BY HeldEntries DEF TypeOK, Holding, Uncounted
<1>6. retryCount[w] < Budget(w)
  <2>1. retryCount[w] = 0 \/ (retryCount[w] = 1 /\ Spent(w))
    BY <1>2, <1>5, BoundsAssumption DEF CountsFit, TypeOK
  <2>2. Budget(w) >= 1 /\ (Spent(w) => Budget(w) >= 2)
    BY <1>5, BoundsAssumption DEF Budget
  <2> QED
    BY <1>5, <2>1, <2>2, BoundsAssumption DEF Budget
<1>7. w \in pending \cup failed /\ w \notin settled
  BY <1>2 DEF KeptFit, FreshFit
<1>8. TypeOK'
  BY <1>1, <1>2, <1>3 DEF TypeOK
<1>9. WorkersFit'
  BY <1>1, <1>2, <1>3 DEF WorkersFit, Holding
<1>10. ClaimsFit'
  BY <1>1, <1>2, <1>3, <1>4 DEF ClaimsFit, Holding
<1>11. EntriesFit'
  BY <1>1, <1>2, <1>3 DEF EntriesFit
<1>12. FreshFit'
  <2>1. \A d \in Deliveries : step'[d] \in {"idle", "direct", "written"} => d \notin settled'
    BY <1>1, <1>2, <1>3, <1>4, <1>5, <1>6, <1>7 DEF FreshFit
  <2>2. ASSUME NEW v \in Workers, step'[v] \in AfterSend
        PROVE  step'[entry'[v]] # "written"
    <3>1. v # w /\ step[v] \in AfterSend /\ entry'[v] = entry[v] /\ entry[v] \in Workers
      BY <1>1, <1>2, <1>3, <1>4, <1>5, <1>6, <1>7, <2>2 DEF AfterSend, TypeOK
    <3> QED
      BY <1>1, <1>2, <1>3, <1>4, <1>5, <1>6, <1>7, <3>1 DEF FreshFit
  <2> QED
    BY <2>1, <2>2 DEF FreshFit
<1>13. KeptFit'
  BY <1>1, <1>2, <1>3, <1>4 DEF KeptFit
<1>14. AcksFit'
  BY <1>1, <1>2, <1>3 DEF AcksFit
<1>15. DeferralsFit'
  BY <1>1 DEF DeferralsFit
<1>16. CountsFit'
  BY <1>1, <1>2, <1>3, <1>4, <1>6 DEF CountsFit, Budget, Spent, Uncounted
<1>17. PrunesFit'
  <2> SUFFICES ASSUME NEW p \in Passes, step'[p] = "pruning", step'[entry'[p]] = "written"
               PROVE  Spent(entry[p])'
    BY DEF PrunesFit
  <2>1. step[p] = "pruning" /\ entry'[p] = entry[p]
    BY <1>1, <1>2, <1>3, <1>4, <1>5, <1>6, <1>7
  <2>2. entry[p] \in Deliveries
    BY <2>1, HeldEntries DEF Holding
  <2>3. step[entry[p]] = "written"
    BY <1>1, <1>2, <1>3, <1>4, <1>5, <1>6, <1>7, <2>1, <2>2
  <2> QED
    BY <1>1, <1>2, <1>3, <1>4, <1>5, <1>6, <1>7, <2>1, <2>2, <2>3 DEF PrunesFit, Spent
<1>18. ReadsFit'
  BY <1>1, <1>2, <1>4 DEF ReadsFit, Uncounted
<1>19. ThrowingIsKept'
  BY <1>1 DEF ThrowingIsKept, Enqueued
<1>20. SettledIsNotResent'
  BY <1>1, <1>2, <1>4, <1>7 DEF SettledIsNotResent
<1> QED
  BY <1>8, <1>9, <1>10, <1>11, <1>12, <1>13, <1>14, <1>15, <1>16, <1>17, <1>18, <1>19, <1>20

LEMMA SendDirectlyKeeps ==
  ASSUME IInv, NEW w \in Deliveries, SendDirectly(w)
  PROVE  IInv'
<1> USE WorkersAre DEF IInv
<1>1. /\ pending' = pending /\ retryCount' = retryCount /\ failed' = failed
      /\ entry' = entry /\ read' = read /\ todo' = todo /\ claims' = claims
      /\ deferral' = deferral /\ deferralRead' = deferralRead
      /\ recovered' = recovered /\ crashes' = crashes
      /\ enqueued' = enqueued /\ aborted' = aborted /\ settled' = settled
      /\ Enqueued' = Enqueued
  BY DEF SendDirectly, Goto, files, deferrals, Enqueued
<1>2. sent' \subseteq sent \cup {w} /\ sent \subseteq sent'
  BY DEF SendDirectly
<1>3. /\ step' \in [Workers -> Steps]
      /\ step[w] = "direct" /\ step'[w] = "done" /\ w \in Workers
      /\ \A v \in Workers \ {w} : step'[v] = step[v]
  BY DEF SendDirectly, Goto, TypeOK, Steps
<1>4. /\ w \notin pending
      /\ \A v \in Workers : step[v] \in Holding => entry[v] # w
  BY <1>3, HeldEntries DEF EntriesFit
<1>5. TypeOK'
  BY <1>1, <1>2, <1>3 DEF TypeOK
<1>6. WorkersFit'
  BY <1>1, <1>3 DEF WorkersFit, Holding
<1>7. ClaimsFit'
  BY <1>1, <1>3 DEF ClaimsFit, Holding
<1>8. EntriesFit'
  BY <1>1, <1>3 DEF EntriesFit
<1>9. FreshFit'
  <2>1. \A d \in Deliveries : step'[d] \in {"idle", "direct", "written"} => d \notin settled'
    BY <1>1, <1>2, <1>3, <1>4 DEF FreshFit
  <2>2. ASSUME NEW v \in Workers, step'[v] \in AfterSend
        PROVE  step'[entry'[v]] # "written"
    <3>1. v # w /\ step[v] \in AfterSend /\ entry'[v] = entry[v] /\ entry[v] \in Workers
      BY <1>1, <1>2, <1>3, <1>4, <2>2 DEF AfterSend, TypeOK
    <3> QED
      BY <1>1, <1>2, <1>3, <1>4, <3>1 DEF FreshFit
  <2> QED
    BY <2>1, <2>2 DEF FreshFit
<1>10. KeptFit'
  BY <1>1, <1>3 DEF KeptFit
<1>11. AcksFit'
  BY <1>1, <1>2, <1>3, <1>4 DEF AcksFit
<1>12. DeferralsFit'
  BY <1>1 DEF DeferralsFit
<1>13. CountsFit'
  BY <1>1, <1>3 DEF CountsFit, Budget, Spent, Uncounted
<1>14. PrunesFit'
  <2> SUFFICES ASSUME NEW p \in Passes, step'[p] = "pruning", step'[entry'[p]] = "written"
               PROVE  Spent(entry[p])'
    BY DEF PrunesFit
  <2>1. step[p] = "pruning" /\ entry'[p] = entry[p]
    BY <1>1, <1>2, <1>3, <1>4
  <2>2. entry[p] \in Deliveries
    BY <2>1, HeldEntries DEF Holding
  <2>3. step[entry[p]] = "written"
    BY <1>1, <1>2, <1>3, <1>4, <2>1, <2>2
  <2> QED
    BY <1>1, <1>2, <1>3, <1>4, <2>1, <2>2, <2>3 DEF PrunesFit, Spent
<1>15. ReadsFit'
  BY <1>1, <1>3 DEF ReadsFit, Uncounted
<1>16. ThrowingIsKept'
  BY <1>1, <1>2 DEF ThrowingIsKept, Enqueued
<1>17. SettledIsNotResent'
  BY <1>1, <1>2, <1>3, <1>4 DEF SettledIsNotResent, Holding
<1> QED
  BY <1>5, <1>6, <1>7, <1>8, <1>9, <1>10, <1>11, <1>12, <1>13, <1>14, <1>15, <1>16, <1>17

LEMMA EnqueueFailsKeeps ==
  ASSUME IInv, NEW w \in Deliveries, step[w] = "idle", Goto(w, "direct"),
         UNCHANGED <<pending, retryCount, enqueued, failed, todo, claims, deferrals,
                     recovered, crashes,
                     sent, aborted, settled>>
  PROVE  IInv'
<1> USE WorkersAre DEF IInv
<1>1. /\ pending' = pending /\ retryCount' = retryCount /\ failed' = failed
      /\ entry' = entry /\ read' = read /\ todo' = todo /\ claims' = claims
      /\ deferral' = deferral /\ deferralRead' = deferralRead
      /\ recovered' = recovered /\ crashes' = crashes
      /\ enqueued' = enqueued /\ sent' = sent /\ aborted' = aborted
      /\ settled' = settled
      /\ Enqueued' = Enqueued
  BY DEF Goto, deferrals, Enqueued
<1>2. /\ step' \in [Workers -> Steps]
      /\ step[w] = "idle" /\ step'[w] = "direct" /\ w \in Workers
      /\ \A v \in Workers \ {w} : step'[v] = step[v]
  BY DEF Goto, TypeOK, Steps
<1>3. TypeOK'
  BY <1>1, <1>2 DEF TypeOK
<1>4. WorkersFit'
  BY <1>1, <1>2 DEF WorkersFit, Holding
<1>5. ClaimsFit'
  BY <1>1, <1>2 DEF ClaimsFit, Holding
<1>6. EntriesFit'
  BY <1>1, <1>2 DEF EntriesFit
<1>7. FreshFit'
  <2>1. \A d \in Deliveries : step'[d] \in {"idle", "direct", "written"} => d \notin settled'
    BY <1>1, <1>2 DEF FreshFit
  <2>2. ASSUME NEW v \in Workers, step'[v] \in AfterSend
        PROVE  step'[entry'[v]] # "written"
    <3>1. v # w /\ step[v] \in AfterSend /\ entry'[v] = entry[v] /\ entry[v] \in Workers
      BY <1>1, <1>2, <2>2 DEF AfterSend, TypeOK
    <3> QED
      BY <1>1, <1>2, <3>1 DEF FreshFit
  <2> QED
    BY <2>1, <2>2 DEF FreshFit
<1>8. KeptFit'
  BY <1>1, <1>2 DEF KeptFit
<1>9. AcksFit'
  BY <1>1, <1>2 DEF AcksFit
<1>10. DeferralsFit'
  BY <1>1 DEF DeferralsFit
<1>11. CountsFit'
  BY <1>1, <1>2 DEF CountsFit, Budget, Spent, Uncounted
<1>12. PrunesFit'
  <2> SUFFICES ASSUME NEW p \in Passes, step'[p] = "pruning", step'[entry'[p]] = "written"
               PROVE  Spent(entry[p])'
    BY DEF PrunesFit
  <2>1. step[p] = "pruning" /\ entry'[p] = entry[p]
    BY <1>1, <1>2
  <2>2. entry[p] \in Deliveries
    BY <2>1, HeldEntries DEF Holding
  <2>3. step[entry[p]] = "written"
    BY <1>1, <1>2, <2>1, <2>2
  <2> QED
    BY <1>1, <1>2, <2>1, <2>2, <2>3 DEF PrunesFit, Spent
<1>13. ReadsFit'
  BY <1>1, <1>2 DEF ReadsFit, Uncounted
<1>14. ThrowingIsKept'
  BY DEF ThrowingIsKept, Enqueued
<1>15. SettledIsNotResent'
  BY <1>1, <1>2 DEF SettledIsNotResent
<1> QED
  BY <1>3, <1>4, <1>5, <1>6, <1>7, <1>8, <1>9, <1>10, <1>11, <1>12, <1>13, <1>14, <1>15

LEMMA EnqueuedKeeps ==
  ASSUME IInv, NEW w \in Deliveries, step[w] = "idle", WriteEntry(w, 0),
         enqueued' = Append(enqueued, w), Goto(w, "written"),
         UNCHANGED <<failed, todo, claims, deferrals, recovered, crashes, sent, aborted,
                     settled>>
  PROVE  IInv'
<1> USE WorkersAre DEF IInv
<1>1. /\ failed' = failed /\ entry' = entry /\ read' = read /\ todo' = todo
      /\ claims' = claims /\ deferral' = deferral
      /\ deferralRead' = deferralRead /\ recovered' = recovered
      /\ crashes' = crashes /\ sent' = sent /\ aborted' = aborted
      /\ settled' = settled
  BY DEF Goto, deferrals
<1>2. /\ step' \in [Workers -> Steps]
      /\ step'[w] = "written" /\ w \in Workers
      /\ \A v \in Workers \ {w} : step'[v] = step[v]
  BY DEF Goto, TypeOK, Steps
<1>3. enqueued' \in Seq(Deliveries) /\ Enqueued' = Enqueued \cup {w}
  BY MembersOfAppend, AppendProperties DEF TypeOK, Enqueued
<1>4. /\ pending' = pending \cup {w} /\ w \notin Enqueued /\ w \notin settled /\ deferral[w] = "none"
      /\ retryCount'[w] = 0 /\ \A d \in Deliveries \ {w} : retryCount'[d] = retryCount[d]
      /\ retryCount' \in [Deliveries -> 0..(MaxRetries + MaxCrashes + 1)]
  BY BoundsAssumption DEF WriteEntry, TypeOK, EntriesFit, FreshFit
<1>5. \A v \in Workers : step[v] \in Holding => entry[v] \in Deliveries /\ entry[v] # w
  BY HeldEntries
<1>6. crashes \in Nat
  BY DEF TypeOK
<1>7. TypeOK'
  BY <1>1, <1>2, <1>4, <1>5 DEF TypeOK
<1>8. WorkersFit'
  BY <1>1, <1>2, <1>3 DEF WorkersFit, Holding
<1>9. ClaimsFit'
  BY <1>1, <1>2 DEF ClaimsFit, Holding
<1>10. EntriesFit'
  BY <1>1, <1>2, <1>3, <1>4 DEF EntriesFit
<1>11. FreshFit'
  <2>1. \A d \in Deliveries : step'[d] \in {"idle", "direct", "written"} => d \notin settled'
    BY <1>1, <1>2, <1>4 DEF FreshFit
  <2>2. ASSUME NEW v \in Workers, step'[v] \in AfterSend
        PROVE  step'[entry'[v]] # "written"
    <3>1. /\ v # w /\ step[v] \in AfterSend /\ entry'[v] = entry[v] /\ entry[v] \in Deliveries
          /\ entry[v] # w
      BY <1>1, <1>2, <1>5, <2>2 DEF AfterSend, Holding
    <3> QED
      BY <1>2, <3>1, WorkersAre DEF FreshFit
  <2> QED
    BY <2>1, <2>2 DEF FreshFit
<1>12. KeptFit'
  BY <1>1, <1>2, <1>4 DEF KeptFit, Holding
<1>13. AcksFit'
  <2>1. settled' \cap pending' = settled \cap pending
    BY <1>1, <1>4
  <2>2. \A v \in Workers : step[v] = "acking" <=> step'[v] = "acking"
    BY <1>2
  <2> QED
    BY <1>1, <2>1, <2>2 DEF AcksFit
<1>14. DeferralsFit'
  BY <1>1 DEF DeferralsFit
<1>15. CountsFit'
  <2>1. \A d \in Deliveries : Budget(d)' = Budget(d) /\ Spent(d)' = Spent(d) /\ Budget(d) \in Nat
    BY <1>1, <1>6, BoundsAssumption DEF Budget, Spent
  <2>2. \A d \in Deliveries : retryCount'[d] <= Budget(d)
    BY <1>4, <2>1 DEF CountsFit
  <2>3. \A v \in Workers : step'[v] \in Uncounted =>
          /\ step[v] \in Uncounted /\ step[v] = step'[v] /\ entry[v] \in Deliveries
          /\ retryCount'[entry[v]] = retryCount[entry[v]]
    BY <1>2, <1>4, <1>5 DEF Uncounted, Holding
  <2>4. ASSUME NEW d \in Deliveries, step'[d] = "written"
        PROVE  \/ retryCount'[d] = 0 /\ d \in pending'
               \/ retryCount'[d] \in {0, 1} /\ Spent(d)'
    BY <1>2, <1>4, <2>1, <2>4, WorkersAre DEF CountsFit
  <2>5. ASSUME NEW v \in Workers, step'[v] \in Uncounted
        PROVE  retryCount'[entry'[v]] < Budget(entry[v])'
    BY <1>1, <2>1, <2>3, <2>5 DEF CountsFit
  <2>6. ASSUME NEW v \in Workers, step'[v] = "writing"
        PROVE  /\ read'[v] < Budget(entry[v])'
               /\ (~Spent(entry[v])' => read'[v] = retryCount'[entry'[v]])
    BY <1>1, <2>1, <2>3, <2>6 DEF CountsFit, Uncounted
  <2> QED
    BY <2>1, <2>2, <2>4, <2>5, <2>6 DEF CountsFit
<1>16. PrunesFit'
  <2> SUFFICES ASSUME NEW p \in Passes, step'[p] = "pruning", step'[entry'[p]] = "written"
               PROVE  Spent(entry[p])'
    BY DEF PrunesFit
  <2>1. step[p] = "pruning" /\ entry'[p] = entry[p]
    BY <1>1, <1>2
  <2>2. entry[p] \in Deliveries /\ entry[p] # w
    BY <1>5, <2>1 DEF Holding
  <2>3. step[entry[p]] = "written"
    BY <1>1, <1>2, <2>1, <2>2
  <2> QED
    BY <1>1, <2>1, <2>2, <2>3 DEF PrunesFit, Spent
<1>17. ReadsFit'
  BY <1>1, <1>2, <1>4 DEF ReadsFit, Uncounted
<1>18. ThrowingIsKept'
  BY <1>3, <1>4 DEF ThrowingIsKept, Enqueued
<1>19. SettledIsNotResent'
  BY <1>1, <1>2 DEF SettledIsNotResent
<1> QED
  BY <1>7, <1>8, <1>9, <1>10, <1>11, <1>12, <1>13, <1>14, <1>15, <1>16, <1>17, <1>18, <1>19

LEMMA CrashKeeps ==
  ASSUME IInv, Crash
  PROVE  IInv'
<1> USE WorkersAre DEF IInv
<1>1. /\ pending' = pending /\ retryCount' = retryCount /\ failed' = failed
      /\ enqueued' = enqueued /\ sent' = sent /\ aborted' = aborted
      /\ Enqueued' = Enqueued
  BY DEF Crash, files, Enqueued
<1>2. /\ crashes < MaxCrashes /\ crashes' = crashes + 1 /\ crashes' \in 0..MaxCrashes
      /\ crashes \in Nat
      /\ ~recovered' /\ recovered' \in BOOLEAN /\ claims' = {}
  <2>1. crashes \in Nat
    BY DEF TypeOK
  <2>2. crashes < MaxCrashes /\ crashes' = crashes + 1
    BY DEF Crash
  <2>3. recovered' = FALSE /\ claims' = {}
    BY DEF Crash
  <2>4. crashes + 1 \in 0..MaxCrashes
    BY <2>1, <2>2, BoundsAssumption
  <2> QED
    BY <2>1, <2>2, <2>3, <2>4
<1>3. /\ step' \in [Workers -> Steps] /\ entry' \in [Workers -> Workers]
      /\ read' \in [Workers -> Nat]
      /\ \A w \in Workers : step'[w] \in {"idle", "done"} /\ (step'[w] = "idle" <=> w \in Passes \/ step[w] = "idle")
      /\ \A w \in Workers : entry'[w] = w
  BY DEF Crash, Steps, TypeOK
<1>4. /\ todo' \in [Passes -> SUBSET Deliveries] /\ \A p \in Passes : todo'[p] = {}
      /\ deferral' \in [Deliveries -> {"none", "reading", "writing"}] /\ \A d \in Deliveries : deferral'[d] = "none"
      /\ deferralRead' \in [Deliveries -> Nat]
  BY DEF Crash, TypeOK
<1>5. /\ settled' \subseteq settled
      /\ \A v \in Workers : step[v] = "acking" => entry[v] \notin settled'
  BY HeldEntries DEF Crash, TypeOK, Holding
<1>6. \A d \in Deliveries : /\ Budget(d) \in Nat /\ Budget(d)' \in Nat /\ Budget(d) <= Budget(d)'
                             /\ retryCount[d] \in Nat
  BY <1>2, BoundsAssumption DEF Budget, Spent, TypeOK
<1>7. TypeOK'
  BY <1>1, <1>2, <1>3, <1>4, <1>5, BoundsAssumption DEF TypeOK
<1>8. WorkersFit'
  BY <1>3 DEF WorkersFit, Holding
<1>9. ClaimsFit'
  BY <1>3 DEF ClaimsFit, Holding
<1>10. EntriesFit'
  BY <1>1, <1>3, <1>4 DEF EntriesFit
<1>11. FreshFit'
  BY <1>1, <1>3, <1>5 DEF FreshFit, AfterSend
<1>12. KeptFit'
  BY <1>3 DEF KeptFit
<1>13. AcksFit'
  BY <1>1, <1>3, <1>5 DEF AcksFit
<1>14. DeferralsFit'
  BY <1>4 DEF DeferralsFit
<1>15. CountsFit'
  BY <1>1, <1>3, <1>6 DEF CountsFit, Uncounted
<1>16. PrunesFit'
  BY <1>3 DEF PrunesFit
<1>17. ReadsFit'
  BY <1>4 DEF ReadsFit, Uncounted
<1>18. ThrowingIsKept'
  BY <1>1 DEF ThrowingIsKept, Enqueued
<1>19. SettledIsNotResent'
  BY <1>3 DEF SettledIsNotResent
<1> QED
  BY <1>7, <1>8, <1>9, <1>10, <1>11, <1>12, <1>13, <1>14, <1>15, <1>16, <1>17, <1>18, <1>19

LEMMA EnqueueDeliveryKeeps ==
  ASSUME IInv, NEW d \in Deliveries, EnqueueDelivery(d)
  PROVE  IInv'
BY EnqueuedKeeps, EnqueueFailsKeeps DEF EnqueueDelivery

LEMMA NothingKeeps ==
  ASSUME IInv, UNCHANGED vars
  PROVE  IInv'
<1> USE DEF IInv, vars, files, memory, worker, deferrals, history
<1>1. Enqueued' = Enqueued
  BY DEF Enqueued
<1>2. TypeOK'
  BY DEF TypeOK
<1>3. WorkersFit' /\ ClaimsFit' /\ EntriesFit' /\ FreshFit' /\ KeptFit' /\ AcksFit'
  BY <1>1 DEF WorkersFit, ClaimsFit, EntriesFit, FreshFit, KeptFit, AcksFit
<1>4. DeferralsFit' /\ CountsFit' /\ PrunesFit' /\ ReadsFit'
  BY DEF DeferralsFit, CountsFit, PrunesFit, ReadsFit, Budget, Spent
<1>5. ThrowingIsKept' /\ SettledIsNotResent'
  BY DEF ThrowingIsKept, SettledIsNotResent
<1> QED
  BY <1>2, <1>3, <1>4, <1>5

-----------------------------------------------------------------------------
(* The invariant.                                                           *)

LEMMA InitHolds == Init => IInv
<1> SUFFICES ASSUME Init PROVE IInv
  OBVIOUS
<1> USE WorkersAre DEF Init
<1>1. Enqueued = {}
  BY DEF Enqueued, MembersOf
<1>2. TypeOK
  <2>1. retryCount \in [Deliveries -> 0..(MaxRetries + MaxCrashes + 1)] /\ crashes \in 0..MaxCrashes
    BY BoundsAssumption
  <2>2. step \in [Workers -> Steps] /\ entry \in [Workers -> Workers] /\ read \in [Workers -> Nat]
    BY DEF Steps
  <2>3. todo \in [Passes -> SUBSET Deliveries] /\ enqueued \in Seq(Deliveries)
    OBVIOUS
  <2> QED
    BY <2>1, <2>2, <2>3 DEF TypeOK
<1>3. WorkersFit /\ ClaimsFit /\ EntriesFit /\ FreshFit /\ KeptFit /\ AcksFit
  BY <1>1 DEF WorkersFit, ClaimsFit, EntriesFit, FreshFit, KeptFit, AcksFit, Holding, AfterSend
<1>4. DeferralsFit /\ CountsFit /\ PrunesFit /\ ReadsFit
  BY BoundsAssumption DEF DeferralsFit, CountsFit, PrunesFit, ReadsFit, Budget, Spent, Uncounted
<1>5. ThrowingIsKept /\ SettledIsNotResent
  BY <1>1 DEF ThrowingIsKept, SettledIsNotResent, Enqueued
<1> QED
  BY <1>2, <1>3, <1>4, <1>5 DEF IInv

LEMMA NextKeeps ==
  ASSUME IInv, [Next]_vars
  PROVE  IInv'
<1>1. ASSUME NEW d \in Deliveries, EnqueueDelivery(d) \/ DeferStep(d) PROVE IInv'
  BY <1>1, EnqueueDeliveryKeeps, DeferReadKeeps, DeferWriteKeeps DEF DeferStep
<1>2. ASSUME NEW p \in Passes, BeginPass(p) PROVE IInv'
  BY <1>2, BeginPassKeeps
<1>3. ASSUME NEW w \in Workers, WorkerStep(w) PROVE IInv'
  <2>1. ASSUME w \in Deliveries, LiveStep(w) PROVE IInv'
    BY <2>1, StartLiveKeeps, SendDirectlyKeeps DEF LiveStep
  <2>2. ASSUME w \in Passes, PassStep(w) PROVE IInv'
    BY <2>2, ClaimNextKeeps, LoadPendingDeliveryKeeps, SendFailsForGoodKeeps, MoveToFailedKeeps DEF PassStep
  <2> QED
    BY <1>3, <2>1, <2>2, SendSucceedsKeeps, SendAbortedKeeps, SendFailsKeeps, AckDeliveryKeeps, UnlinkMarkerKeeps,
       FailDeliveryKeeps, WriteFailureKeeps DEF WorkerStep
<1>4. ASSUME UNCHANGED vars PROVE IInv'
  BY <1>4, NothingKeeps
<1> QED
  BY <1>1, <1>2, <1>3, <1>4, BudgetExceededKeeps, CrashKeeps DEF Next

(* In every reachable state of the delivery queue, whatever fails, whoever  *)
(* is at an entry and however often the process dies, the invariant holds.  *)
THEOREM Invariance == Spec => []IInv
<1>1. Init => IInv
  BY InitHolds
<1>2. IInv /\ [Next]_vars => IInv'
  BY NextKeeps
<1> QED
  BY <1>1, <1>2, PTL DEF Spec

-----------------------------------------------------------------------------
(* The theorems.                                                            *)

(* The types, and with them that no retryCount goes past MAX_RETRIES by     *)
(* more than one for each life of the process.                              *)
THEOREM TypeCorrect == Spec => []TypeOK
<1>1. IInv => TypeOK
  BY DEF IInv
<1> QED
  BY <1>1, Invariance, PTL

(* What was written ahead and throws its failures is sent, aborted, in the  *)
(* queue or in failed/, whatever fails and whenever the process dies.       *)
THEOREM NoThrowingDeliveryIsLost == Spec => []ThrowingIsKept
<1>1. IInv => ThrowingIsKept
  BY DEF IInv
<1> QED
  BY <1>1, Invariance, PTL

(* Two of a live call, the recovery and the drains are never at the sending *)
(* of one entry together.                                                   *)
THEOREM ClaimsExclude == Spec => []OneSender
<1>1. IInv => OneSender
  BY DEF IInv, ClaimsFit, OneSender, Holding
<1> QED
  BY <1>1, Invariance, PTL

(* A message whose sending succeeded is not sent again, by any pass, unless *)
(* since then its ack failed or was cut off by a crash, or a deferral wrote *)
(* its entry back.                                                          *)
THEOREM NoNeedlessResend == Spec => []SettledIsNotResent
<1>1. IInv => SettledIsNotResent
  BY DEF IInv
<1> QED
  BY <1>1, Invariance, PTL

-----------------------------------------------------------------------------
(* The queue implements Delivery.                                           *)

AbstractUnchanged ==
  Enqueued' = Enqueued /\ pending' \cup failed' = pending \cup failed /\ sent' = sent /\ aborted' = aborted

LEMMA StutterMaps ==
  ASSUME AbstractUnchanged
  PROVE  [Abstract!Next]_(Abstract!vars)
BY DEF AbstractUnchanged, Enqueued, Abstract!vars

LEMMA AckMaps ==
  ASSUME IInv, NEW w \in Workers, AckDelivery(w)
  PROVE  [Abstract!Next]_(Abstract!vars)
<1> DEFINE d == entry[w]
<1>1. step[w] = "acking" /\ d \in Deliveries
  BY HeldEntries DEF AckDelivery, Holding
<1>2. Enqueued' = Enqueued /\ sent' = sent /\ aborted' = aborted /\ failed' = failed
  BY DEF AckDelivery, Enqueued
<1>3. CASE d \in pending /\ d \notin failed /\ pending' = pending \ {d}
  <2>1. d \in sent \cup aborted \cup BestEffort
    BY <1>1 DEF IInv, AcksFit
  <2>2. Abstract!Close(d)
    BY <1>2, <1>3, <2>1 DEF Abstract!Close, Enqueued
  <2> QED
    BY <1>1, <2>2 DEF Abstract!Next
<1>4. CASE d \in failed /\ pending' = pending \ {d}
  BY <1>2, <1>4, StutterMaps DEF AbstractUnchanged
<1>5. CASE pending' = pending
  BY <1>2, <1>5, StutterMaps DEF AbstractUnchanged
<1> QED
  BY <1>3, <1>4, <1>5 DEF AckDelivery, RemoveEntry

LEMMA SendsMap ==
  ASSUME IInv
  PROVE  /\ \A w \in Workers : SendSucceeds(w) => [Abstract!Next]_(Abstract!vars)
         /\ \A w \in Workers : SendAborted(w) => [Abstract!Next]_(Abstract!vars)
         /\ \A w \in Workers : SendFails(w) => [Abstract!Next]_(Abstract!vars)
         /\ \A p \in Passes : SendFailsForGood(p) => [Abstract!Next]_(Abstract!vars)
         /\ \A d \in Deliveries : SendDirectly(d) => [Abstract!Next]_(Abstract!vars)
<1>1. ASSUME NEW w \in Workers, SendSucceeds(w) PROVE [Abstract!Next]_(Abstract!vars)
  <2>1. entry[w] \in Deliveries /\ entry[w] \in pending \cup failed
    BY <1>1, HeldEntries DEF SendSucceeds, SendEnds, Holding, IInv, KeptFit
  <2>2. Abstract!Send(entry[w])
    BY <1>1, <2>1 DEF SendSucceeds, files, Abstract!Send
  <2> QED
    BY <2>1, <2>2 DEF Abstract!Next
<1>2. ASSUME NEW d \in Deliveries, SendDirectly(d) PROVE [Abstract!Next]_(Abstract!vars)
  <2>1. d \notin Enqueued
    BY <1>2 DEF SendDirectly, IInv, EntriesFit
  <2>2. CASE sent' = sent
    BY <1>2, <2>2, StutterMaps DEF SendDirectly, files, AbstractUnchanged, Enqueued
  <2>3. CASE sent' = sent \cup {d}
    <3>1. Abstract!Send(d)
      BY <1>2, <2>1, <2>3 DEF SendDirectly, files, Enqueued, Abstract!Send
    <3> QED
      BY <3>1 DEF Abstract!Next
  <2> QED
    BY <1>2, <2>2, <2>3 DEF SendDirectly
<1>3. ASSUME NEW w \in Workers, SendAborted(w) PROVE [Abstract!Next]_(Abstract!vars)
  <2>1. entry[w] \in Deliveries /\ entry[w] \in pending \cup failed
    BY <1>3, HeldEntries DEF SendAborted, SendEnds, Holding, IInv, KeptFit
  <2>2. Abstract!Abort(entry[w])
    BY <1>3, <2>1 DEF SendAborted, files, Abstract!Abort
  <2> QED
    BY <2>1, <2>2 DEF Abstract!Next
<1>4. ASSUME NEW w \in Workers, SendFails(w) \/ (w \in Passes /\ SendFailsForGood(w))
      PROVE  [Abstract!Next]_(Abstract!vars)
  <2>1. entry[w] \in Deliveries /\ entry[w] \in pending \cup failed
    BY <1>4, HeldEntries DEF SendFails, SendFailsForGood, SendEnds, Holding, IInv, KeptFit
  <2>2. /\ Enqueued' = Enqueued /\ aborted' = aborted
        /\ pending' \cup failed' = pending \cup failed
    BY <1>4 DEF SendFails, SendFailsForGood, files, Enqueued
  <2>3. CASE sent' = sent
    BY <2>2, <2>3, StutterMaps DEF AbstractUnchanged
  <2>4. CASE sent' = sent \cup {entry[w]}
    <3>1. Abstract!Send(entry[w])
      BY <2>1, <2>2, <2>4 DEF Enqueued, Abstract!Send
    <3> QED
      BY <2>1, <3>1 DEF Abstract!Next
  <2> QED
    BY <1>4, <2>3, <2>4 DEF SendFails, SendFailsForGood
<1> QED
  BY <1>1, <1>2, <1>3, <1>4, WorkersAre

LEMMA LiveStepMaps ==
  ASSUME IInv, NEW d \in Deliveries, EnqueueDelivery(d) \/ DeferStep(d) \/ LiveStep(d)
  PROVE  [Abstract!Next]_(Abstract!vars)
<1>1. CASE EnqueueDelivery(d)
  <2>1. CASE WriteEntry(d, 0) /\ enqueued' = Append(enqueued, d)
    <3>1. d \notin Enqueued
      BY <1>1 DEF EnqueueDelivery, IInv, EntriesFit
    <3>2. Enqueued' = Enqueued \cup {d}
      BY <2>1, MembersOfAppend DEF IInv, TypeOK, Enqueued
    <3>3. pending' \cup failed' = pending \cup failed \cup {d} /\ sent' = sent /\ aborted' = aborted
      BY <1>1, <2>1 DEF EnqueueDelivery, WriteEntry
    <3>4. Abstract!Accept(d)
      BY <3>1, <3>2, <3>3 DEF Abstract!Accept, Enqueued
    <3> QED
      BY <3>4 DEF Abstract!Next
  <2>2. CASE UNCHANGED <<pending, enqueued>>
    BY <1>1, <2>2, StutterMaps DEF EnqueueDelivery, AbstractUnchanged, Enqueued
  <2> QED
    BY <1>1, <2>1, <2>2 DEF EnqueueDelivery
<1>2. CASE DeferRead(d)
  BY <1>2, StutterMaps DEF DeferRead, files, history, AbstractUnchanged, Enqueued
<1>3. CASE DeferWrite(d)
  <2>1. d \in Enqueued
    BY <1>3 DEF DeferWrite, IInv, EntriesFit
  <2>2. pending' \cup failed' = pending \cup failed \cup {d}
    BY <1>3 DEF DeferWrite, WriteEntry
  <2>3. Abstract!Repeat(d)
    BY <1>3, <2>1, <2>2 DEF DeferWrite, Enqueued, Abstract!Repeat
  <2> QED
    BY <2>3 DEF Abstract!Next
<1>4. CASE StartLive(d)
  BY <1>4, StutterMaps DEF StartLive, files, history, AbstractUnchanged, Enqueued
<1> QED
  BY <1>1, <1>2, <1>3, <1>4, SendsMap DEF DeferStep, LiveStep

LEMMA PassStepMaps ==
  ASSUME IInv, NEW p \in Passes, BeginPass(p) \/ PassStep(p)
  PROVE  [Abstract!Next]_(Abstract!vars)
<1>1. CASE BeginPass(p)
  BY <1>1, StutterMaps DEF BeginPass, files, history, AbstractUnchanged, Enqueued
<1>2. CASE ClaimNext(p) \/ LoadPendingDelivery(p)
  BY <1>2, StutterMaps
  DEF ClaimNext, LoadPendingDelivery, files, history, AbstractUnchanged, Enqueued
<1>3. CASE MoveToFailed(p)
  BY <1>3, StutterMaps DEF MoveToFailed, RemoveEntry, AbstractUnchanged, Enqueued
<1> QED
  BY <1>1, <1>2, <1>3, SendsMap DEF PassStep

LEMMA WorkerStepMaps ==
  ASSUME IInv, NEW w \in Workers, WorkerStep(w)
  PROVE  [Abstract!Next]_(Abstract!vars)
<1>1. CASE UnlinkMarker(w) \/ FailDelivery(w)
  BY <1>1, StutterMaps
  DEF UnlinkMarker, FailDelivery, files, history, AbstractUnchanged, Enqueued
<1>2. CASE WriteFailure(w)
  <2>1. entry[w] \in pending
    BY <1>2 DEF WriteFailure, IInv, KeptFit
  <2> QED
    BY <1>2, <2>1, StutterMaps DEF WriteFailure, WriteEntry, history, AbstractUnchanged, Enqueued
<1> QED
  BY <1>1, <1>2, SendsMap, AckMaps, LiveStepMaps, PassStepMaps DEF WorkerStep

(* The queue, with its files, claims, passes and crashes, is a Delivery:    *)
(* what it takes in it keeps until it was sent or aborted, best efforts     *)
(* apart, and it sends nothing that it does not keep.                       *)
THEOREM Implementation == Spec => ImplementsDelivery
<1>1. Init => Abstract!Init
  BY DEF Init, Abstract!Init, MembersOf
<1>2. IInv /\ [Next]_vars => [Abstract!Next]_(Abstract!vars)
  <2> SUFFICES ASSUME IInv, [Next]_vars PROVE [Abstract!Next]_(Abstract!vars)
    OBVIOUS
  <2>1. CASE BudgetExceeded
    BY <2>1, StutterMaps DEF BudgetExceeded, files, history, AbstractUnchanged, Enqueued
  <2>2. CASE Crash
    BY <2>2, StutterMaps DEF Crash, files, AbstractUnchanged, Enqueued
  <2>3. CASE UNCHANGED vars
    BY <2>3, StutterMaps DEF vars, files, history, AbstractUnchanged, Enqueued
  <2> QED
    BY <2>1, <2>2, <2>3, LiveStepMaps, PassStepMaps, WorkerStepMaps DEF Next
<1> QED
  BY <1>1, <1>2, Invariance, PTL DEF Spec, ImplementsDelivery, Abstract!Spec
=============================================================================
