-------------------------- MODULE MCGatewayRunLoop --------------------------
(* Model-checking instance of GatewayRunLoop: three tasks that share a lane *)
(* of limit 1, the first of which does an agent run and may hang, and one   *)
(* in-process restart that goes round the main loop; restarts that it takes *)
(* no notice of are not counted.  The limit 0 that a configuration may ask  *)
(* for is raised to 1.                                                      *)
EXTENDS GatewayRunLoop

CONSTANTS l1, e1, e2, e3, d
=============================================================================
