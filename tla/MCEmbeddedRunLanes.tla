------------------------- MODULE MCEmbeddedRunLanes -------------------------
(* Model-checking instance of EmbeddedRunLanes: a manual cron run and a     *)
(* chat run of one session, and a manual cron run of another.               *)
EXTENDS EmbeddedRunLanes

CONSTANTS c1, c2, chat, home, other

MCRuns == {c1, c2, chat}
MCSessionKey == [r \in MCRuns |-> IF r = c2 THEN other ELSE home]
MCLaneArg == [r \in MCRuns |-> IF r = chat THEN "" ELSE "cron"]
MCEntries == (MCRuns \X {1, 2}) \cup ({c1, c2} \X {3})
MCLanes == ({"session"} \X {home, other}) \cup ({"global"} \X {"cron", "main", "nested"})
=============================================================================
