--------------------------- MODULE MCCommandQueue ---------------------------
(* Model-checking instance of CommandQueue: three calls of                  *)
(* enqueueCommandInLane on two lanes, one waiter, one in-process restart.  *)
(* The limits include 0, which the code raises to 1, and 3, so that raising *)
(* a limit starts two queued entries at once.                               *)
EXTENDS CommandQueue

CONSTANTS l1, l2, e1, e2, e3

MCLanes == {l1, l2}
MCEntries == {e1, e2, e3}
MCLimits == {0, 3}
=============================================================================
