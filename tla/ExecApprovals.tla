--------------------------- MODULE ExecApprovals ---------------------------
(***************************************************************************)
(* Exec approvals: the table of src/gateway/exec-approval-manager.ts, the   *)
(* handlers that register, await and decide (server-methods), the gate that *)
(* node.invoke passes (node-invoke-system-run-approval.ts), the calls of a  *)
(* requester for a node host (bash-tools.exec-host-node.ts), and calls of   *)
(* node.invoke by any other client.                                         *)
(*                                                                          *)
(* A request makes at most one registration, which has its name.  The clock *)
(* is before, at or past the expiresAtMs of a registration.  What an        *)
(* approval is bound to (node, device, command, environment) is one value.  *)
(* A client's id is required by the protocol, so a decision has a           *)
(* resolvedBy.  Prefixes of ids, decisions a policy forbids, notices to     *)
(* approvers, lost calls, and calls that claim no approval, which the gate  *)
(* only strips of their flags, are left out.                                *)
(***************************************************************************)
EXTENDS Naturals

CONSTANTS
  Requests,      \* the calls of exec.approval.request
  Ids,           \* the approval ids
  Id,            \* the id a request asks for
  Bindings,      \* what an approval may be bound to
  Binding,       \* what a request is bound to
  FallsBack,     \* the requests whose askFallback is full
  InlineEval,    \* those held back by tools.exec.strictInlineEval
  MaxCalls       \* bound: how often other clients call node.invoke

None == "none"
Allowing == {"allow-once", "allow-always"}
Decisions == Allowing \cup {"deny"}

ASSUME RequestsAssumption == None \notin Requests /\ Id \in [Requests -> Ids]
ASSUME BindingAssumption == Binding \in [Requests -> Bindings]
ASSUME FallbackAssumption == FallsBack \cup InlineEval \subseteq Requests
ASSUME BoundAssumption == MaxCalls \in Nat

VARIABLES
  pending,      \* the registration in the map, by id
  resolved,     \* whether its record has a resolvedAtMs
  decision,     \* record.decision
  resolvedBy,   \* record.resolvedBy
  promise,      \* what the promise of a registration resolved with
  timer,        \* the timer a registration has: expiry or grace
  clock,        \* 0 before, 1 at and 2 past its expiresAtMs
  caller,       \* where the requester is
  awaited,      \* the registration whose promise its waitDecision awaits
  answer,       \* the decision it was answered
  calls,        \* how often other clients called node.invoke
  forwarded,    \* history: the calls forwarded on the strength of a registration
  vouched       \* history: the registrations for which a client with the approvals
                \* scope claimed the fallback in a call that was forwarded

record == <<resolved, decision, resolvedBy, promise>>
requester == <<caller, awaited, answer>>
gate == <<calls, forwarded, vouched>>
vars == <<pending, record, timer, clock, requester, gate>>

Init ==
  /\ pending = [i \in Ids |-> None]
  /\ resolved = [r \in Requests |-> FALSE]
  /\ decision = [r \in Requests |-> None]
  /\ resolvedBy = [r \in Requests |-> None]
  /\ promise = [r \in Requests |-> "open"]
  /\ timer = [r \in Requests |-> "off"]
  /\ clock = [r \in Requests |-> 0]
  /\ caller = [r \in Requests |-> "new"]
  /\ awaited = [r \in Requests |-> None]
  /\ answer = [r \in Requests |-> None]
  /\ calls = 0
  /\ forwarded = [r \in Requests |-> 0]
  /\ vouched = {}

-----------------------------------------------------------------------------
(* The table.                                                               *)

RegisterOver(r) ==
  /\ caller[r] = "new"
  /\ pending' = [pending EXCEPT ![Id[r]] = r]
  /\ timer' = [timer EXCEPT ![r] = "expiry"]
  /\ caller' = [caller EXCEPT ![r] = "delivering"]
  /\ UNCHANGED <<record, clock, awaited, answer, gate>>

Register(r) ==
  /\ caller[r] = "new"
  /\ pending[Id[r]] = None
  /\ pending' = [pending EXCEPT ![Id[r]] = r]
  /\ timer' = [timer EXCEPT ![r] = "expiry"]
  /\ caller' = [caller EXCEPT ![r] = "delivering"]
  /\ UNCHANGED <<record, clock, awaited, answer, gate>>

RefuseId(r) ==
  /\ caller[r] = "new"
  /\ pending[Id[r]] # None
  /\ caller' = [caller EXCEPT ![r] = "refused"]
  /\ UNCHANGED <<pending, record, timer, clock, awaited, answer, gate>>

(* The entry of id i, when it can still be decided. *)
Open(i) == pending[i] # None /\ ~resolved[pending[i]]

SettleKeepsTimer(e, d, by, p) ==
  /\ resolved' = [resolved EXCEPT ![e] = TRUE]
  /\ decision' = [decision EXCEPT ![e] = d]
  /\ resolvedBy' = [resolvedBy EXCEPT ![e] = by]
  /\ promise' = [promise EXCEPT ![e] = p]
  /\ UNCHANGED timer

(* The common end of resolve and expire. *)
Settle(e, d, by, p) ==
  /\ resolved' = [resolved EXCEPT ![e] = TRUE]
  /\ decision' = [decision EXCEPT ![e] = d]
  /\ resolvedBy' = [resolvedBy EXCEPT ![e] = by]
  /\ promise' = [promise EXCEPT ![e] = p]
  /\ timer' = [timer EXCEPT ![e] = "grace"]

(* An approver decides: exec.approval.resolve. *)
Resolve(i) ==
  /\ Open(i)
  /\ \E d \in Decisions : Settle(pending[i], d, "approver", d)
  /\ UNCHANGED <<pending, clock, requester, gate>>

(* expire: by id, so of whatever registration the id has. *)
Expire(i, by) == Open(i) /\ Settle(pending[i], None, by, "null")

ExpiryFires(r) ==
  /\ timer[r] = "expiry"
  /\ clock[r] > 0
  /\ Expire(Id[r], None)
  /\ UNCHANGED <<pending, clock, requester, gate>>

GraceEnds(r) ==
  /\ timer[r] = "grace"
  /\ timer' = [timer EXCEPT ![r] = "off"]
  /\ pending' = IF pending[Id[r]] = r THEN [pending EXCEPT ![Id[r]] = None] ELSE pending
  /\ UNCHANGED <<record, clock, requester, gate>>

ClockTicks(r) ==
  /\ timer[r] # "off"
  /\ clock[r] < 2
  /\ clock' = [clock EXCEPT ![r] = @ + 1]
  /\ UNCHANGED <<pending, record, timer, requester, gate>>

-----------------------------------------------------------------------------
(* The requester: its calls, and the handlers that answer them.             *)

(* The delivery of the request ended and there is a way to an approver. *)
Accept(r) ==
  /\ caller[r] = "delivering"
  /\ caller' = [caller EXCEPT ![r] = "accepted"]
  /\ UNCHANGED <<pending, record, timer, clock, awaited, answer, gate>>

Answered(r, a) ==
  /\ caller' = [caller EXCEPT ![r] = "answered"]
  /\ answer' = [answer EXCEPT ![r] = a]
  /\ awaited' = [awaited EXCEPT ![r] = None]

(* There is none: what expire returns is not looked at. *)
NoRoute(r) ==
  /\ caller[r] = "delivering"
  /\ IF Open(Id[r]) THEN Expire(Id[r], "no-approval-route") ELSE UNCHANGED <<record, timer>>
  /\ Answered(r, "null")
  /\ UNCHANGED <<pending, clock, gate>>

(* The call of waitDecision, which awaits whatever registration the id has. *)
WaitDecision(r) ==
  /\ caller[r] = "accepted"
  /\ pending[Id[r]] # None
  /\ awaited' = [awaited EXCEPT ![r] = pending[Id[r]]]
  /\ caller' = [caller EXCEPT ![r] = "waiting"]
  /\ UNCHANGED <<pending, record, timer, clock, answer, gate>>

(* It is not found: to the requester, no decision. *)
WaitTooLate(r) ==
  /\ caller[r] = "accepted"
  /\ pending[Id[r]] = None
  /\ Answered(r, "null")
  /\ UNCHANGED <<pending, record, timer, clock, gate>>

DecisionArrives(r) ==
  /\ caller[r] = "waiting"
  /\ promise[awaited[r]] # "open"
  /\ Answered(r, promise[awaited[r]])
  /\ UNCHANGED <<pending, record, timer, clock, gate>>

(* Whether the requester goes on to call node.invoke, claiming approval.    *)
(* For want of a decision strict inline eval holds it back.  With           *)
(* askFallback "allowlist" it calls too, but claims nothing.                *)
Willing(r) == answer[r] \in Allowing \/ (answer[r] = "null" /\ r \in FallsBack \ InlineEval)

GiveUp(r) ==
  /\ caller[r] = "answered"
  /\ ~Willing(r)
  /\ caller' = [caller EXCEPT ![r] = "done"]
  /\ UNCHANGED <<pending, record, timer, clock, awaited, answer, gate>>

-----------------------------------------------------------------------------
(* The gate: sanitizeSystemRunParamsForForwarding.                          *)

TimedOut(e) == resolved[e] /\ decision[e] = None /\ resolvedBy[e] = None

(* Whoever vouches claims approved and allow-once, from a client that has   *)
(* the approvals scope.                                                     *)
Grants(e, vouches) == decision[e] \in Allowing \/ (TimedOut(e) /\ vouches)

Passes(e, b, vouches) == e # None /\ clock[e] < 2 /\ Binding[e] = b /\ Grants(e, vouches)

NotConsumed(e) == decision

(* consumeAllowOnce *)
Consumed(e) == IF decision[e] = "allow-once" THEN [decision EXCEPT ![e] = None] ELSE decision

Forward(i, b, vouches) ==
  LET e == pending[i]
  IN /\ Passes(e, b, vouches)
     /\ decision' = Consumed(e)
     /\ forwarded' = [forwarded EXCEPT ![e] = @ + 1]
     /\ vouched' = IF vouches THEN vouched \cup {e} ELSE vouched

Refuse(i, b, vouches) ==
  /\ ~Passes(pending[i], b, vouches)
  /\ UNCHANGED <<decision, forwarded, vouched>>

(* A call of node.invoke with approval i, for what b stands for. *)
Invoke(i, b, vouches) ==
  /\ Forward(i, b, vouches) \/ Refuse(i, b, vouches)
  /\ UNCHANGED <<pending, resolved, resolvedBy, promise, timer, clock, awaited, answer>>

(* The requester calls with the least scopes that node.invoke needs, which  *)
(* the approvals scope is not one of.                                       *)
Call(r) ==
  /\ caller[r] = "answered"
  /\ Willing(r)
  /\ caller' = [caller EXCEPT ![r] = "done"]
  /\ Invoke(Id[r], Binding[r], FALSE)
  /\ UNCHANGED calls

(* Any other client may call, with any approval id and for anything. *)
OtherCall(i, b, vouches) ==
  /\ calls < MaxCalls
  /\ calls' = calls + 1
  /\ Invoke(i, b, vouches)
  /\ UNCHANGED caller

-----------------------------------------------------------------------------
RequesterStep(r) ==
  Accept(r) \/ NoRoute(r) \/ WaitDecision(r) \/ WaitTooLate(r) \/ DecisionArrives(r) \/ GiveUp(r)

TimeStep(r) == ExpiryFires(r) \/ GraceEnds(r) \/ ClockTicks(r)

Next ==
  \/ \E r \in Requests : Register(r) \/ RefuseId(r)
  \/ \E i \in Ids : Resolve(i)
  \/ \E r \in Requests : TimeStep(r)
  \/ \E r \in Requests : RequesterStep(r)
  \/ \E r \in Requests : Call(r)
  \/ \E i \in Ids, b \in Bindings, vouches \in BOOLEAN : OtherCall(i, b, vouches)

Spec == Init /\ [][Next]_vars

(* Time passes, timers fire, deliveries end, a requester goes on to its     *)
(* call.  Nobody has to decide, and other clients need not call.            *)
Fairness ==
  \A r \in Requests :
    /\ WF_vars(TimeStep(r))
    /\ WF_vars(RequesterStep(r) \/ Call(r))

FairSpec == Spec /\ Fairness

-----------------------------------------------------------------------------
(* Types, and the timer of an entry: one that waits for a decision has its  *)
(* expiry timer and one that is settled its grace timer, so each is settled *)
(* once and removed once.                                                   *)
TypeOK ==
  /\ pending \in [Ids -> Requests \cup {None}]
  /\ resolved \in [Requests -> BOOLEAN]
  /\ decision \in [Requests -> Decisions \cup {None}]
  /\ resolvedBy \in [Requests -> {None, "approver", "no-approval-route"}]
  /\ promise \in [Requests -> Decisions \cup {"open", "null"}]
  /\ timer \in [Requests -> {"off", "expiry", "grace"}]
  /\ clock \in [Requests -> 0..2]
  /\ caller \in [Requests -> {"new", "refused", "delivering", "accepted", "waiting", "answered", "done"}]
  /\ awaited \in [Requests -> Requests \cup {None}]
  /\ answer \in [Requests -> Decisions \cup {"null", None}]
  /\ calls \in 0..MaxCalls
  /\ forwarded \in [Requests -> Nat]
  /\ vouched \subseteq Requests
  /\ \A r \in Requests :
       pending[Id[r]] = r <=> timer[r] = (IF resolved[r] THEN "grace" ELSE "expiry")

(* What the gate lets through, whoever calls, with whatever ids and flags,  *)
(* however often within the grace period and in whatever order with         *)
(* decisions and expiry: what an approver decided, an allow-once for one    *)
(* call; without a decision only what the expiry timer ended, and only for  *)
(* a client that vouches.  The requester never does, and a request that had *)
(* no way to an approver is not of the timer's: its own call is refused in  *)
(* both cases, though the documentation of askFallback promises that "full" *)
(* allows then (docs/tools/exec-approvals.md:211-215).                      *)
ForwardedAsDecided ==
  \A e \in Requests : forwarded[e] > 0 =>
    \/ promise[e] = "allow-always"
    \/ promise[e] = "allow-once" /\ forwarded[e] = 1
    \/ promise[e] = "null" /\ resolvedBy[e] = None /\ e \in vouched

(* What docs/tools/exec-approvals.md:211-215 promises of askFallback "full" *)
(* and does not hold: once its requester is through, a request that nobody  *)
(* could decide was allowed.                                                *)
FallbackAllows ==
  \A r \in FallsBack \ InlineEval : caller[r] = "done" /\ answer[r] = "null" => forwarded[r] > 0

(* Whatever approvers do, a requester that got its registration comes to an *)
(* end, and the id is free again: no registration is left without a timer,  *)
(* overwritten by another, or settled without an answer to who awaits it.   *)
RequestsEnd ==
  \A r \in Requests :
    /\ caller[r] = "delivering" ~> caller[r] = "done"
    /\ pending[Id[r]] = r ~> pending[Id[r]] # r
=============================================================================
