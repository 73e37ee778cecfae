----------------------------- MODULE MCApproval -----------------------------
(* A small instance of Approval for TLC: two requests of one agent.      *)
EXTENDS Approval

CONSTANT a1

MCAgentOf == [r \in Requests |-> a1]
=============================================================================
