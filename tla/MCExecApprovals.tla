-------------------------- MODULE MCExecApprovals --------------------------
(* Model-checking instance of ExecApprovals: two requests ask for one id    *)
(* and the same command, both fall back, and strict inline eval holds the   *)
(* second back; other clients call for this command and another.            *)
EXTENDS ExecApprovals

CONSTANTS first, again, shared

MCId == [r \in Requests |-> shared]
MCBinding == [r \in Requests |-> "ls"]
=============================================================================
