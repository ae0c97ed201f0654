------------------------------ MODULE Delivery ------------------------------
(***************************************************************************)
(* What the outbound queue promises a caller of deliverOutboundPayloads,    *)
(* without its files, claims and passes: a delivery it took in is kept      *)
(* until it was sent or called off, by its caller or by a hook, and it is   *)
(* sent only while it is kept.  Two things it does not promise.  A best     *)
(* effort may be dropped unsent, and a delivery may be sent more than once, *)
(* even after it was closed: delivery is at least once.                     *)
(***************************************************************************)
CONSTANTS Deliveries, BestEffort

VARIABLES
  accepted,  \* the deliveries written ahead
  kept,      \* those the queue answers for
  sent,      \* those the channel took
  aborted    \* those called off

vars == <<accepted, kept, sent, aborted>>

Init ==
  /\ accepted = {}
  /\ kept = {}
  /\ sent = {}
  /\ aborted = {}

Accept(d) ==
  /\ d \notin accepted
  /\ accepted' = accepted \cup {d}
  /\ kept' = kept \cup {d}
  /\ UNCHANGED <<sent, aborted>>

(* With an entry, or without one if it could not be written. *)
Send(d) ==
  /\ d \in accepted => d \in kept
  /\ sent' = sent \cup {d}
  /\ UNCHANGED <<accepted, kept, aborted>>

Abort(d) ==
  /\ d \in kept
  /\ aborted' = aborted \cup {d}
  /\ UNCHANGED <<accepted, kept, sent>>

Close(d) ==
  /\ d \in kept
  /\ d \in sent \cup aborted \cup BestEffort
  /\ kept' = kept \ {d}
  /\ UNCHANGED <<accepted, sent, aborted>>

Repeat(d) ==
  /\ d \in accepted
  /\ kept' = kept \cup {d}
  /\ UNCHANGED <<accepted, sent, aborted>>

Next == \E d \in Deliveries : Accept(d) \/ Send(d) \/ Abort(d) \/ Close(d) \/ Repeat(d)

Spec == Init /\ [][Next]_vars
=============================================================================
