-------------------------- MODULE MCFollowupQueue --------------------------
(* Model-checking instances of FollowupQueue: three messages, of which the  *)
(* first two go to one target under two authorizations.                     *)
EXTENDS FollowupQueue

CONSTANTS m1, m2, m3

MCRoute == [m \in {m1, m2, m3} |-> IF m = m3 THEN "there" ELSE "here"]
MCAuth == [m \in {m1, m2, m3} |-> IF m = m2 THEN "guest" ELSE "owner"]

Collect(cap, drop) == [mode |-> "collect", cap |-> cap, dropPolicy |-> drop]
Followup(cap, drop) == [mode |-> "followup", cap |-> cap, dropPolicy |-> drop]

(* The default, with a cap of two, and a session that lets the cap stand    *)
(* and refuses what does not fit.                                           *)
MixedSettings == {Collect(2, "summarize"), Followup(0, "new")}

CollectSettings == {Collect(1, "summarize")}
=============================================================================
