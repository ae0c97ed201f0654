------------------------ MODULE ExecApprovalsProofs ------------------------
(* What ExecApprovals promises of every set of requests and ids.            *)
EXTENDS ExecApprovals, TLAPS

(* An entry of the map is a registration under the id it asked for. *)
MapFits == \A i \in Ids : pending[i] # None => Id[pending[i]] = i /\ caller[pending[i]] # "new"

(* A request that did not register yet has nothing settled, and one that    *)
(* waits, waits for a registration.                                         *)
CallersFit ==
  \A r \in Requests :
    /\ caller[r] = "new" => ~resolved[r]
    /\ caller[r] = "waiting" => awaited[r] \in Requests

(* Record, promise and what was forwarded agree: a decision that is still   *)
(* there is the one the promise resolved with, who settled a registration   *)
(* tells a decision from an expiry, and an allow-once that was forwarded is *)
(* spent.                                                                   *)
RecordsFit ==
  \A e \in Requests :
    /\ resolved[e] <=> promise[e] # "open"
    /\ decision[e] # None => decision[e] = promise[e]
    /\ resolvedBy[e] = None => promise[e] \in {"open", "null"}
    /\ forwarded[e] > 0 => resolved[e]
    /\ forwarded[e] > 0 /\ promise[e] = "allow-once" => decision[e] = None

IInv == TypeOK /\ MapFits /\ CallersFit /\ RecordsFit /\ ForwardedAsDecided

-----------------------------------------------------------------------------
LEMMA InitHolds == Init => IInv
  BY RequestsAssumption, BoundAssumption
  DEF Init, IInv, TypeOK, MapFits, CallersFit, RecordsFit, ForwardedAsDecided, None, Decisions, Allowing

(* Settling the entry of an id, with a decision or with none, keeps the     *)
(* invariant: by resolve, by the expiry timer, or for want of a way to an   *)
(* approver.                                                                *)
LEMMA SettleKeeps ==
  ASSUME IInv,
         NEW i \in Ids, Open(i),
         NEW d \in Decisions \cup {None}, NEW by \in {None, "approver", "no-approval-route"},
         NEW p \in Decisions \cup {"null"},
         d # None => d = p,
         by = None => p = "null",
         Settle(pending[i], d, by, p),
         UNCHANGED <<pending, clock, gate>>,
         caller' \in [Requests -> {"new", "refused", "delivering", "accepted", "waiting", "answered", "done"}],
         \A r \in Requests : caller'[r] # caller[r] => caller'[r] \notin {"new", "waiting"},
         \A r \in Requests : caller'[r] = "waiting" => awaited'[r] = awaited[r],
         awaited' \in [Requests -> Requests \cup {None}],
         answer' \in [Requests -> Decisions \cup {"null", None}]
  PROVE  IInv'
PROOF
  <1> DEFINE e == pending[i]
  <1>1. /\ e \in Requests /\ ~resolved[e] /\ Id[e] = i /\ caller[e] # "new"
        /\ forwarded[e] = 0 /\ promise[e] = "open"
    BY RequestsAssumption DEF Open, IInv, TypeOK, MapFits, RecordsFit
  <1>2. TypeOK'
    <2>1. /\ pending' \in [Ids -> Requests \cup {None}] /\ clock' \in [Requests -> 0..2]
          /\ calls' \in 0..MaxCalls /\ forwarded' \in [Requests -> Nat]
          /\ vouched' \subseteq Requests
      BY DEF IInv, TypeOK, gate
    <2>2. /\ resolved' \in [Requests -> BOOLEAN]
          /\ resolvedBy' \in [Requests -> {None, "approver", "no-approval-route"}]
          /\ timer' \in [Requests -> {"off", "expiry", "grace"}]
      BY <1>1 DEF IInv, TypeOK, Settle
    <2>3. /\ decision' \in [Requests -> Decisions \cup {None}]
          /\ promise' \in [Requests -> Decisions \cup {"open", "null"}]
      BY <1>1 DEF IInv, TypeOK, Settle
    <2>4. \A r \in Requests :
            pending'[Id[r]] = r <=> timer'[r] = (IF resolved'[r] THEN "grace" ELSE "expiry")
      BY <1>1 DEF IInv, TypeOK, Settle
    <2> QED
      BY <2>1, <2>2, <2>3, <2>4 DEF TypeOK
  <1>3. MapFits'
    BY DEF IInv, MapFits, TypeOK
  <1>4. CallersFit'
    BY <1>1 DEF IInv, CallersFit, TypeOK, Settle
  <1>5. RecordsFit'
    BY <1>1 DEF IInv, RecordsFit, TypeOK, Settle, Decisions, Allowing, None, gate
  <1>6. ForwardedAsDecided'
    BY <1>1 DEF IInv, ForwardedAsDecided, TypeOK, Settle, gate
  <1> QED
    BY <1>2, <1>3, <1>4, <1>5, <1>6 DEF IInv

(* A step of a requester that leaves the table alone keeps the invariant.   *)
LEMMA RequesterKeeps ==
  ASSUME IInv,
         UNCHANGED <<pending, record, timer, clock, gate>>,
         caller' \in [Requests -> {"new", "refused", "delivering", "accepted", "waiting", "answered", "done"}],
         \A r \in Requests : caller'[r] # caller[r] => caller'[r] # "new",
         \A r \in Requests : caller'[r] = "waiting" => awaited'[r] \in Requests,
         awaited' \in [Requests -> Requests \cup {None}],
         answer' \in [Requests -> Decisions \cup {"null", None}]
  PROVE  IInv'
PROOF
  <1>1. TypeOK'
    BY DEF IInv, TypeOK, record, gate
  <1>2. MapFits' /\ CallersFit'
    BY RequestsAssumption DEF IInv, MapFits, CallersFit, TypeOK, record, gate
  <1>3. RecordsFit' /\ ForwardedAsDecided'
    BY DEF IInv, RecordsFit, ForwardedAsDecided, record, gate
  <1> QED
    BY <1>1, <1>2, <1>3 DEF IInv

-----------------------------------------------------------------------------
(* The operations.                                                          *)

LEMMA RegisterKeeps ==
  ASSUME IInv, NEW r \in Requests, Register(r)
  PROVE  IInv'
PROOF
  <1>1. /\ Id[r] \in Ids /\ ~resolved[r]
        /\ pending' = [pending EXCEPT ![Id[r]] = r]
    BY RequestsAssumption DEF IInv, CallersFit, Register
  <1>2. TypeOK'
    <2>1. \A q \in Requests :
            pending'[Id[q]] = q <=> timer'[q] = (IF resolved'[q] THEN "grace" ELSE "expiry")
      BY <1>1, RequestsAssumption DEF IInv, TypeOK, Register, record, gate
    <2> QED
      BY <1>1, <2>1 DEF IInv, TypeOK, Register, record, gate
  <1>3. MapFits'
    BY <1>1, RequestsAssumption DEF IInv, MapFits, TypeOK, Register
  <1>4. CallersFit'
    BY DEF IInv, CallersFit, TypeOK, Register, record, gate
  <1>5. RecordsFit' /\ ForwardedAsDecided'
    BY DEF IInv, RecordsFit, ForwardedAsDecided, Register, record, gate
  <1> QED
    BY <1>2, <1>3, <1>4, <1>5 DEF IInv

LEMMA ResolveKeeps ==
  ASSUME IInv, NEW i \in Ids, Resolve(i)
  PROVE  IInv'
PROOF
  <1>1. PICK d \in Decisions : Settle(pending[i], d, "approver", d)
    BY DEF Resolve
  <1> QED
    BY <1>1, SettleKeeps DEF Resolve, requester, IInv, TypeOK, None

LEMMA ExpiryFiresKeeps ==
  ASSUME IInv, NEW r \in Requests, ExpiryFires(r)
  PROVE  IInv'
PROOF
  <1>1. Id[r] \in Ids
    BY RequestsAssumption
  <1>2. Open(Id[r]) /\ Settle(pending[Id[r]], None, None, "null")
    BY DEF ExpiryFires, Expire
  <1> QED
    BY <1>1, <1>2, SettleKeeps DEF ExpiryFires, requester, IInv, TypeOK

LEMMA GraceEndsKeeps ==
  ASSUME IInv, NEW r \in Requests, GraceEnds(r)
  PROVE  IInv'
PROOF
  <1>1. Id[r] \in Ids /\ r # None
    BY RequestsAssumption
  <1>2. TypeOK'
    <2>1. pending' \in [Ids -> Requests \cup {None}] /\ timer' \in [Requests -> {"off", "expiry", "grace"}]
      BY <1>1 DEF IInv, TypeOK, GraceEnds
    <2>2. \A q \in Requests :
            pending'[Id[q]] = q <=> timer'[q] = (IF resolved'[q] THEN "grace" ELSE "expiry")
      BY <1>1, RequestsAssumption DEF IInv, TypeOK, GraceEnds, record
    <2> QED
      BY <2>1, <2>2 DEF IInv, TypeOK, GraceEnds, record, requester, gate
  <1>3. MapFits'
    BY <1>1 DEF IInv, MapFits, TypeOK, GraceEnds, requester
  <1>4. CallersFit' /\ RecordsFit' /\ ForwardedAsDecided'
    BY DEF IInv, CallersFit, RecordsFit, ForwardedAsDecided, GraceEnds, record, requester, gate
  <1> QED
    BY <1>2, <1>3, <1>4 DEF IInv

LEMMA ClockTicksKeeps ==
  ASSUME IInv, NEW r \in Requests, ClockTicks(r)
  PROVE  IInv'
PROOF
  <1>1. TypeOK'
    BY DEF IInv, TypeOK, ClockTicks, record, requester, gate
  <1>2. MapFits' /\ CallersFit' /\ RecordsFit' /\ ForwardedAsDecided'
    BY DEF IInv, MapFits, CallersFit, RecordsFit, ForwardedAsDecided, ClockTicks, record, requester, gate
  <1> QED
    BY <1>1, <1>2 DEF IInv

(* Without a way to an approver the registration is expired, if it is open. *)
LEMMA NoRouteKeeps ==
  ASSUME IInv, NEW r \in Requests, NoRoute(r)
  PROVE  IInv'
PROOF
  <1>1. /\ Id[r] \in Ids
        /\ caller' = [caller EXCEPT ![r] = "answered"]
        /\ answer' = [answer EXCEPT ![r] = "null"]
        /\ awaited' = [awaited EXCEPT ![r] = None]
        /\ UNCHANGED <<pending, clock, gate>>
    BY RequestsAssumption DEF NoRoute, Answered
  <1>2. /\ caller' \in [Requests -> {"new", "refused", "delivering", "accepted", "waiting", "answered", "done"}]
        /\ \A q \in Requests : caller'[q] # caller[q] => caller'[q] \notin {"new", "waiting"}
        /\ \A q \in Requests : caller'[q] = "waiting" => awaited'[q] = awaited[q]
        /\ awaited' \in [Requests -> Requests \cup {None}]
        /\ answer' \in [Requests -> Decisions \cup {"null", None}]
    BY <1>1 DEF IInv, TypeOK
  <1>3. CASE Open(Id[r])
    <2>1. Settle(pending[Id[r]], None, "no-approval-route", "null")
      BY <1>3 DEF NoRoute, Expire
    <2> QED
      BY <1>1, <1>2, <1>3, <2>1, SettleKeeps
  <1>4. CASE ~Open(Id[r])
    <2>1. UNCHANGED <<record, timer>>
      BY <1>4 DEF NoRoute
    <2>2. \A q \in Requests : caller'[q] = "waiting" => awaited'[q] \in Requests
      BY <1>1 DEF IInv, TypeOK, CallersFit
    <2> QED
      BY <1>1, <1>2, <2>1, <2>2, RequesterKeeps
  <1> QED
    BY <1>3, <1>4

LEMMA OtherRequesterStepsKeep ==
  ASSUME IInv, NEW r \in Requests,
         RefuseId(r) \/ Accept(r) \/ WaitDecision(r) \/ WaitTooLate(r) \/ DecisionArrives(r) \/ GiveUp(r)
  PROVE  IInv'
PROOF
  <1>1. Id[r] \in Ids
    BY RequestsAssumption
  <1>2. UNCHANGED <<pending, record, timer, clock, gate>>
    BY DEF RefuseId, Accept, WaitDecision, WaitTooLate, DecisionArrives, GiveUp, Answered
  <1>3. /\ caller' \in [Requests -> {"new", "refused", "delivering", "accepted", "waiting", "answered", "done"}]
        /\ \A q \in Requests : caller'[q] # caller[q] => caller'[q] # "new"
    BY DEF IInv, TypeOK, RefuseId, Accept, WaitDecision, WaitTooLate, DecisionArrives, GiveUp, Answered
  <1>4. /\ awaited' \in [Requests -> Requests \cup {None}]
        /\ \A q \in Requests : caller'[q] = "waiting" => awaited'[q] \in Requests
    BY <1>1 DEF IInv, TypeOK, CallersFit, RefuseId, Accept, WaitDecision, WaitTooLate, DecisionArrives, GiveUp, Answered
  <1>5. answer' \in [Requests -> Decisions \cup {"null", None}]
    <2>1. caller[r] = "waiting" => awaited[r] \in Requests
      BY DEF IInv, CallersFit
    <2>2. DecisionArrives(r) => promise[awaited[r]] \in Decisions \cup {"null"}
      BY <2>1 DEF IInv, TypeOK, DecisionArrives
    <2> QED
      BY <2>2 DEF IInv, TypeOK, RefuseId, Accept, WaitDecision, WaitTooLate, DecisionArrives, GiveUp, Answered
  <1> QED
    BY <1>2, <1>3, <1>4, <1>5, RequesterKeeps

(* The call that the gate forwards spends the allow-once it goes by, and    *)
(* without a decision it goes by who vouches.                               *)
LEMMA InvokeKeeps ==
  ASSUME IInv, NEW i \in Ids, NEW b, NEW vouches \in BOOLEAN, Invoke(i, b, vouches),
         calls' \in 0..MaxCalls,
         caller' \in [Requests -> {"new", "refused", "delivering", "accepted", "waiting", "answered", "done"}],
         \A r \in Requests : caller'[r] # caller[r] => caller'[r] = "done"
  PROVE  IInv'
PROOF
  <1> DEFINE e == pending[i]
  <1>1. UNCHANGED <<pending, resolved, resolvedBy, promise, timer, clock, awaited, answer>>
    BY DEF Invoke
  <1>2. MapFits' /\ CallersFit'
    BY <1>1 DEF IInv, MapFits, CallersFit, TypeOK
  <1>3. CASE Forward(i, b, vouches)
    <2>1. /\ e \in Requests
          /\ decision[e] \in Allowing \/ (TimedOut(e) /\ e \in vouched')
          /\ decision' = Consumed(e)
          /\ forwarded' = [forwarded EXCEPT ![e] = @ + 1]
          /\ vouched \subseteq vouched' /\ vouched' \subseteq vouched \cup {e}
      BY <1>3 DEF Forward, Passes, Grants, IInv, TypeOK
    <2>2. decision' \in [Requests -> Decisions \cup {None}] /\ forwarded' \in [Requests -> Nat]
      BY <2>1 DEF IInv, TypeOK, Consumed
    <2>3. TypeOK'
      BY <1>1, <2>1, <2>2 DEF IInv, TypeOK
    <2>4. RecordsFit' /\ ForwardedAsDecided'
      <3> SUFFICES ASSUME NEW q \in Requests
                   PROVE  /\ resolved[q] <=> promise[q] # "open"
                          /\ decision'[q] # None => decision'[q] = promise[q]
                          /\ resolvedBy[q] = None => promise[q] \in {"open", "null"}
                          /\ forwarded'[q] > 0 => resolved[q]
                          /\ forwarded'[q] > 0 /\ promise[q] = "allow-once" => decision'[q] = None
                          /\ forwarded'[q] > 0 =>
                               \/ promise[q] = "allow-always"
                               \/ promise[q] = "allow-once" /\ forwarded'[q] = 1
                               \/ promise[q] = "null" /\ resolvedBy[q] = None /\ q \in vouched'
        BY <1>1 DEF RecordsFit, ForwardedAsDecided
      <3>1. CASE q # e
        BY <3>1, <2>1 DEF IInv, RecordsFit, ForwardedAsDecided, TypeOK, Consumed
      <3>2. CASE q = e /\ decision[e] = "allow-once"
        <4>1. promise[e] = "allow-once" /\ resolved[e] /\ forwarded[e] = 0
          BY <3>2, <2>1 DEF IInv, RecordsFit, TypeOK, None
        <4> QED
          BY <3>2, <4>1, <2>1 DEF IInv, RecordsFit, TypeOK, Consumed
      <3>3. CASE q = e /\ decision[e] = "allow-always"
        <4>1. promise[e] = "allow-always" /\ resolved[e]
          BY <3>3, <2>1 DEF IInv, RecordsFit, None
        <4> QED
          BY <3>3, <4>1, <2>1 DEF IInv, RecordsFit, TypeOK, Consumed
      <3>4. CASE q = e /\ TimedOut(e) /\ e \in vouched'
        <4>1. promise[e] = "null" /\ resolved[e] /\ resolvedBy[e] = None /\ decision[e] = None
          BY <3>4, <2>1 DEF IInv, RecordsFit, TimedOut
        <4> QED
          BY <3>4, <4>1, <2>1 DEF IInv, RecordsFit, TypeOK, Consumed, None
      <3> QED
        BY <3>1, <3>2, <3>3, <3>4, <2>1 DEF Allowing
    <2> QED
      BY <1>2, <2>3, <2>4 DEF IInv
  <1>4. CASE Refuse(i, b, vouches)
    <2>1. UNCHANGED <<decision, forwarded, vouched>>
      BY <1>4 DEF Refuse
    <2>2. TypeOK'
      BY <1>1, <2>1 DEF IInv, TypeOK
    <2>3. RecordsFit' /\ ForwardedAsDecided'
      BY <1>1, <2>1 DEF IInv, RecordsFit, ForwardedAsDecided
    <2> QED
      BY <1>2, <2>2, <2>3 DEF IInv
  <1> QED
    BY <1>3, <1>4 DEF Invoke

LEMMA CallKeeps ==
  ASSUME IInv, NEW r \in Requests, Call(r)
  PROVE  IInv'
PROOF
  <1>1. Id[r] \in Ids
    BY RequestsAssumption
  <1>2. /\ Invoke(Id[r], Binding[r], FALSE) /\ calls' \in 0..MaxCalls
        /\ caller' \in [Requests -> {"new", "refused", "delivering", "accepted", "waiting", "answered", "done"}]
        /\ \A q \in Requests : caller'[q] # caller[q] => caller'[q] = "done"
    BY DEF Call, IInv, TypeOK
  <1> QED
    BY <1>1, <1>2, InvokeKeeps

LEMMA OtherCallKeeps ==
  ASSUME IInv, NEW i \in Ids, NEW b \in Bindings, NEW vouches \in BOOLEAN, OtherCall(i, b, vouches)
  PROVE  IInv'
PROOF
  <1>1. calls' \in 0..MaxCalls
    BY BoundAssumption DEF OtherCall, IInv, TypeOK
  <1>2. /\ Invoke(i, b, vouches) /\ caller' = caller
        /\ caller \in [Requests -> {"new", "refused", "delivering", "accepted", "waiting", "answered", "done"}]
    BY DEF OtherCall, IInv, TypeOK
  <1> QED
    BY <1>1, <1>2, InvokeKeeps

LEMMA NextKeeps == IInv /\ [Next]_vars => IInv'
PROOF
  <1> SUFFICES ASSUME IInv, [Next]_vars
               PROVE  IInv'
    OBVIOUS
  <1>1. CASE \E r \in Requests : Register(r) \/ RefuseId(r)
    BY <1>1, RegisterKeeps, OtherRequesterStepsKeep
  <1>2. CASE \E i \in Ids : Resolve(i)
    BY <1>2, ResolveKeeps
  <1>3. CASE \E r \in Requests : TimeStep(r)
    BY <1>3, ExpiryFiresKeeps, GraceEndsKeeps, ClockTicksKeeps DEF TimeStep
  <1>4. CASE \E r \in Requests : RequesterStep(r)
    BY <1>4, NoRouteKeeps, OtherRequesterStepsKeep DEF RequesterStep
  <1>5. CASE \E r \in Requests : Call(r)
    BY <1>5, CallKeeps
  <1>6. CASE \E i \in Ids, b \in Bindings, vouches \in BOOLEAN : OtherCall(i, b, vouches)
    BY <1>6, OtherCallKeeps
  <1>7. CASE UNCHANGED vars
    BY <1>7 DEF vars, record, requester, gate, IInv, TypeOK, MapFits, CallersFit, RecordsFit, ForwardedAsDecided
  <1> QED
    BY <1>1, <1>2, <1>3, <1>4, <1>5, <1>6, <1>7 DEF Next

-----------------------------------------------------------------------------
(* The theorems.                                                            *)

(* The inductive invariant holds, whatever the requests and their ids.      *)
THEOREM Invariance == Spec => []IInv
BY InitHolds, NextKeeps, PTL DEF Spec

(* Every open registration has its expiry timer and every settled one in    *)
(* the map its grace timer: exec-approval-manager.ts never settles or       *)
(* removes one twice.                                                       *)
THEOREM TypeCorrect == Spec => []TypeOK
<1>1. IInv => TypeOK
  BY DEF IInv
<1> QED
  BY <1>1, Invariance, PTL

(* Whoever calls node.invoke, it is forwarded on what was decided, an       *)
(* allow-once once, or after an expiry for a client that vouches: never for *)
(* a request that was denied, is open or had no way to an approver.         *)
THEOREM GateGoesByDecisions == Spec => []ForwardedAsDecided
<1>1. IInv => ForwardedAsDecided
  BY DEF IInv
<1> QED
  BY <1>1, Invariance, PTL

(* A promise that is resolved stays as it is: of an approver and the expiry *)
(* timer, or of two approvers, the first to come settles a registration.    *)
THEOREM DecisionsAreFinal ==
  Spec => [][\A e \in Requests : promise[e] # "open" => promise'[e] = promise[e]]_vars
<1> DEFINE Final == \A e \in Requests : promise[e] # "open" => promise'[e] = promise[e]
<1>1. IInv /\ [Next]_vars => [Final]_vars
  <2> SUFFICES ASSUME IInv, [Next]_vars
               PROVE  Final
    OBVIOUS
  <2>1. ASSUME NEW i \in Ids, NEW d, NEW by, NEW p, Open(i), Settle(pending[i], d, by, p)
        PROVE  Final
    BY <2>1 DEF IInv, TypeOK, RecordsFit, Open, Settle
  <2>2. CASE UNCHANGED promise
    BY <2>2
  <2>3. CASE \E i \in Ids : Resolve(i)
    BY <2>1, <2>3 DEF Resolve
  <2>4. CASE \E r \in Requests : ExpiryFires(r) \/ NoRoute(r)
    BY <2>1, <2>2, <2>4, RequestsAssumption DEF ExpiryFires, NoRoute, Expire, record
  <2> QED
    BY <2>2, <2>3, <2>4 DEF Next, TimeStep, RequesterStep, Call, OtherCall, Invoke, Register, RefuseId, GraceEnds,
      ClockTicks, Accept, WaitDecision, WaitTooLate, DecisionArrives, GiveUp, Forward, Refuse, vars, record
<1> QED
  BY <1>1, Invariance, PTL DEF Spec
=============================================================================
