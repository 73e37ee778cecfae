----------------------------- MODULE MCHeartbeat -----------------------------
(* A small instance of the heartbeat monitor.                               *)
EXTENDS Heartbeat

(* Two checks for a model call, one more than that for a tool.              *)
SmallLimits == [k \in Kinds |-> IF k = "tool_use" THEN 2 ELSE 1]
=============================================================================
