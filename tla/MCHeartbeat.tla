---------------------------- MODULE MCHeartbeat ----------------------------
(* Model-checking instance of Heartbeat: two lives of the gateway, a        *)
(* targeted key beside the untargeted one, two requests from outside.       *)
EXTENDS Heartbeat

CONSTANT session

MCAsked == {Action}
=============================================================================
