-------------------------- MODULE MCDeliveryQueue --------------------------
(* Model-checking instances of DeliveryQueue: two deliveries, the second of *)
(* them a best effort that reports its errors, and one drain key, which     *)
(* selects the first.                                                       *)
EXTENDS DeliveryQueue

CONSTANTS d1, d2, key

MCMatches == [k \in {key} |-> {d1}]
=============================================================================
