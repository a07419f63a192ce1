--------------------------- MODULE MCSubscriptions ---------------------------
(* A receiver started with both topics: one is removed and added again, at *)
(* the same time or in turn, and so may the other be removed, which leaves *)
(* Terminate nothing to wait for, while an endpoint is provisioned.        *)
EXTENDS Subscriptions

MCCalls   == {"add", "remove", "remove2", "provision"}
MCOpOf    == [c \in MCCalls |-> IF c = "remove2" THEN "remove" ELSE c]
MCTopicOf == [c \in MCCalls |-> IF c = "remove2" THEN "t2" ELSE "t1"]
=============================================================================
